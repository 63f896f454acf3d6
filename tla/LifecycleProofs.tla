--------------------------- MODULE LifecycleProofs ---------------------------
(***************************************************************************)
(* Proofs about what is started, stopped and started again: the meter's    *)
(* idle timer and peaks, a generator's Stop, a wire whose Start, Stop and  *)
(* Restart overlap, and the wires and settings of a conduit, for any       *)
(* number of callers, runs, workers, wires and elements.                   *)
(***************************************************************************)
EXTENDS Meter, Generator, WireLifecycle, Conduit, FiniteSetTheorems, TLAPS

-----------------------------------------------------------------------------
(* Meter. *)

\* The idle timer is never ahead of the time that has passed since it was set, unless that
\* time is as long as any timeout: it has been counted that far only.
TimerHonest ==
    /\ idleTimeout \in IdleTimeouts /\ quiet \in Nat /\ timeLeft \in Nat \cup {Off}
    /\ timeLeft # Off => quiet + timeLeft >= idleTimeout \/ quiet >= Longest

\* Who is about to swap has a value above the peak it has seen.
PeaksHonest ==
    /\ peak \in Nat /\ reported \subseteq Nat
    /\ peaking \in [PeakSetters -> [at : {"new", "load", "swap", "done"}, val : Nat, seen : Nat]]
    /\ \A s \in PeakSetters : peaking[s].at = "swap" => peaking[s].val > peaking[s].seen
    /\ PeakIsMax

LEMMA Timeouts ==
    /\ Longest \in IdleTimeouts /\ Longest \in Nat /\ \A u \in IdleTimeouts : u \in Nat /\ u <= Longest
    /\ Shortest \in IdleTimeouts
  BY MeterAssumption DEF Longest, Shortest

LEMMA TimerKept == TimerHonest /\ [MeterNext]_meterVars => TimerHonest' /\ IdleNotEarly
<1> SUFFICES ASSUME TimerHonest, [MeterNext]_meterVars PROVE TimerHonest' /\ IdleNotEarly
  OBVIOUS
<1> USE Timeouts DEF TimerHonest, IdleNotEarly, timerVars, Off
<1>1. CASE MeterTick
  BY <1>1 DEF MeterTick
<1>2. CASE MeterCancel \/ Submitted \/ (\E ok \in BOOLEAN : Process(ok))
  BY <1>2 DEF MeterCancel, Submitted, Process
<1>3. CASE IdleTimeSeesData \/ (\E t \in IdleTimeouts : SetIdleTimeout(t))
  BY <1>3 DEF IdleTimeSeesData, SetIdleTimeout, ResetIdleTimer
<1>4. CASE IdleTimeEnds
  BY <1>4 DEF IdleTimeEnds
<1>5. CASE MonitorIdle
  BY <1>5 DEF MonitorIdle, Ends, Expired
<1>6. CASE MonitorCancelled \/ MonitorTick
  BY <1>6 DEF MonitorCancelled, MonitorTick, Ends
<1>7. CASE \E s \in PeakSetters : PeakLoad(s) \/ PeakSwap(s) \/ \E v \in Peaks : PeakBegins(s, v)
  BY <1>7 DEF PeakLoad, PeakSwap, PeakBegins
<1>8. CASE UNCHANGED meterVars
  BY <1>8 DEF meterVars
<1> QED BY <1>1, <1>2, <1>3, <1>4, <1>5, <1>6, <1>7, <1>8 DEF MeterNext

LEMMA PeaksKept == PeaksHonest /\ [MeterNext]_meterVars => PeaksHonest'
<1> SUFFICES ASSUME PeaksHonest, [MeterNext]_meterVars PROVE PeaksHonest'
  OBVIOUS
<1>1. CASE UNCHANGED peakVars
  BY <1>1 DEF peakVars, PeaksHonest, PeakIsMax
<1>2. ASSUME NEW s \in PeakSetters, NEW v \in Peaks, PeakBegins(s, v) PROVE PeaksHonest'
  BY <1>2, MeterAssumption DEF PeakBegins, PeaksHonest, PeakIsMax
<1>3. ASSUME NEW s \in PeakSetters, PeakLoad(s) PROVE PeaksHonest'
  <2>1. CASE peaking[s].val <= peak
    BY <1>3, <2>1 DEF PeakLoad, PeaksHonest, PeakIsMax
  <2>2. CASE ~(peaking[s].val <= peak)
    BY <1>3, <2>2 DEF PeakLoad, PeaksHonest, PeakIsMax
  <2> QED BY <2>1, <2>2
<1>4. ASSUME NEW s \in PeakSetters, PeakSwap(s) PROVE PeaksHonest'
  BY <1>4 DEF PeakSwap, PeaksHonest, PeakIsMax
<1> QED
  BY <1>1, <1>2, <1>3, <1>4
     DEF MeterNext, meterVars, peakVars, MeterTick, MeterCancel, Submitted, Process, SetIdleTimeout, IdleTimeSeesData,
         IdleTimeEnds, MonitorIdle, MonitorCancelled, MonitorTick, Ends

\* Whatever resets the idle timer meanwhile, Monitor never gives up before the configured
\* time has passed, and however calls of SetMetricPeak interleave none of the values whose
\* call has returned is above the peak.
THEOREM MeterSafe == MeterSpec => MeterSound
<1>1. MeterInit => TimerHonest /\ PeaksHonest
  BY Timeouts, MeterAssumption DEF MeterInit, TimerHonest, PeaksHonest, PeakIsMax, Off
<1>2. PeaksHonest => PeakIsMax
  BY DEF PeaksHonest
<1> QED BY <1>1, <1>2, TimerKept, PeaksKept, PTL DEF MeterSpec, MeterSound

-----------------------------------------------------------------------------
(* Generator. *)

\* A Stop that cancels or waits has taken the flag down, and the only caller cannot put it up.
\* While a Stop has returned and no Start has begun, the flag is down, no call is past the
\* claim of Start or that of Stop, and so nothing brings a goroutine to life.
GenShape ==
    genCall = [c \in GenControllers |-> [at |-> genCall[c].at, run |-> genCall[c].run, again |-> genCall[c].again]]
GenInv ==
    /\ GenShape
    /\ serves \in [Gens -> Int] /\ genControl \in [Gens -> {"none", "run", "ended"}]
    /\ \A c \in GenControllers : genCall[c].at \in {"cancel", "wait"} => ~genStarted
    /\ genQuiet =>
         /\ ~genStarted /\ GenWaitGroupZero
         /\ \A c \in GenControllers : genCall[c].at \in {"idle", "restart"}

LEMMA CallAt ==
    ASSUME NEW call, NEW place, call = [at |-> call.at, run |-> call.run, again |-> call.again]
    PROVE  [call EXCEPT !.at = place] = [at |-> place, run |-> call.run, again |-> call.again]
  OBVIOUS

LEMMA CallRun ==
    ASSUME NEW call, NEW g, call = [at |-> call.at, run |-> call.run, again |-> call.again]
    PROVE  [call EXCEPT !.run = g] = [at |-> call.at, run |-> g, again |-> call.again]
  OBVIOUS

LEMMA CallMoves ==
    ASSUME NEW call, NEW place, NEW g, call = [at |-> call.at, run |-> call.run, again |-> call.again]
    PROVE  [call EXCEPT !.at = place, !.run = g] = [at |-> place, run |-> g, again |-> call.again]
<1> DEFINE moved == [call EXCEPT !.at = place]
<1>1. moved = [at |-> place, run |-> call.run, again |-> call.again]
  BY CallAt
<1>2. [call EXCEPT !.at = place, !.run = g] = [moved EXCEPT !.run = g]
  OBVIOUS
<1>3. /\ moved = [at |-> moved.at, run |-> moved.run, again |-> moved.again]
      /\ moved.at = place /\ moved.again = call.again
  BY <1>1
<1>4. [moved EXCEPT !.run = g] = [at |-> moved.at, run |-> g, again |-> moved.again]
  <2> HIDE DEF moved
  <2> QED BY <1>3, CallRun
<1> QED BY <1>2, <1>3, <1>4

LEMMA ServesStart == ASSUME NEW n \in [Gens -> Int], NEW g, NEW i \in Int PROVE [n EXCEPT ![g] = i] \in [Gens -> Int]
  OBVIOUS

LEMMA GenInvKept ==
    ASSUME \A c, d \in GenControllers : c = d, GenInv, [GenNext]_genVars
    PROVE  GenInv'
<1> USE DEF GenInv, GenShape, GenWaitGroupZero, GenAt, GenTo, genSync, genWork, genBreaker
<1>1. ASSUME NEW c \in GenControllers, StartClaims(c) PROVE GenInv'
  BY <1>1 DEF StartClaims
<1>2. ASSUME NEW c \in GenControllers, StartRefused(c) \/ GenCallStep(c) PROVE GenInv'
  <2>1. CASE StartRefused(c) \/ StartResetsOnce(c) \/ StopCancels(c)
    BY <2>1 DEF StartRefused, StartResetsOnce, StopCancels
  <2>2. CASE StartMakesContext(c)
    <3>1. ~genQuiet' /\ UNCHANGED <<serves, genControl>>
      BY <2>2 DEF StartMakesContext
    <3>2. \A d \in GenControllers :
            genCall'[d] = [at |-> "spawn", run |-> genCtx + 1, again |-> genCall[d].again]
      <4> DEFINE call == genCall[c]
                 g == genCtx + 1
      <4>1. genCall' = [genCall EXCEPT ![c] = [call EXCEPT !.at = "spawn", !.run = g]]
        BY <2>2 DEF StartMakesContext
      <4>2. call = [at |-> call.at, run |-> call.run, again |-> call.again]
        OBVIOUS
      <4>3. [call EXCEPT !.at = "spawn", !.run = g] = [at |-> "spawn", run |-> g, again |-> call.again]
        <5> HIDE DEF GenInv, GenShape, call, g
        <5>1. \A x, h : x = [at |-> x.at, run |-> x.run, again |-> x.again]
                => [x EXCEPT !.at = "spawn", !.run = h] = [at |-> "spawn", run |-> h, again |-> x.again]
          BY CallMoves
        <5> QED BY <4>2, <5>1
      <4> QED BY <4>1, <4>3
    <3>3. genCall' = [d \in GenControllers |-> genCall'[d]]
      BY <2>2 DEF StartMakesContext
    <3> QED BY <3>1, <3>2, <3>3
  <2>3. CASE StartSpawns(c)
    <3>1. ~genQuiet'
      BY <2>3 DEF StartSpawns
    <3>2. serves' \in [Gens -> Int]
      <4>1. serves' = [serves EXCEPT ![genCall[c].run] = 1]
        BY <2>3 DEF StartSpawns
      <4> QED BY <4>1, ServesStart
    <3>3. genControl' \in [Gens -> {"none", "run", "ended"}]
      BY <2>3 DEF StartSpawns
    <3>4. \A d \in GenControllers :
            genCall'[d] = [at |-> "idle", run |-> genCall[d].run, again |-> genCall[d].again]
      BY <2>3 DEF StartSpawns
    <3>5. genCall' = [d \in GenControllers |-> genCall'[d]]
      BY <2>3 DEF StartSpawns
    <3> QED BY <3>1, <3>2, <3>3, <3>4, <3>5
  <2>4. CASE StopWaits(c)
    BY <2>4 DEF StopWaits
  <2> QED BY <1>2, <2>1, <2>2, <2>3, <2>4 DEF GenCallStep
<1>3. ASSUME NEW c \in GenControllers, NEW again \in BOOLEAN, StopBegins(c, again) PROVE GenInv'
  BY <1>3 DEF StopBegins
<1>4. ASSUME NEW g \in Gens, TickerSends(g) \/ TickerEnds(g) \/ RestartConnectors(g) \/ ControlLoopEnds(g)
               \/ ServeGoroutineEnds(g)
      PROVE  GenInv'
  BY <1>4 DEF TickerSends, TickerEnds, RestartConnectors, ControlLoopEnds, ServeGoroutineEnds
<1>5. CASE BreakerMoves \/ UNCHANGED genVars
  BY <1>5 DEF BreakerMoves, genVars
<1> QED BY <1>1, <1>2, <1>3, <1>4, <1>5 DEF GenNext

\* However many runs, tickers and connectors there are, from the return of a generator's
\* Stop to its next Start no control loop and no Serve goroutine is alive: when Start, Stop
\* and Restart are called by one goroutine.
THEOREM StopIsQuiet ==
    ASSUME \A c, d \in GenControllers : c = d
    PROVE  GenSpec => []StoppedQuiet
<1>1. GenInit => GenInv
  BY DEF GenInit, GenInv, GenShape
<1>2. GenInv /\ [GenNext]_genVars => GenInv'
  BY GenInvKept
<1>3. GenInv => StoppedQuiet
  BY DEF GenInv, StoppedQuiet
<1> QED BY <1>1, <1>2, <1>3, PTL DEF GenSpec

-----------------------------------------------------------------------------
(* Wire. *)

CallPlaces == {"idle", "spawn", "once", "cancel", "wait", "close", "swap"}

\* The places inside the body of terminateOnce.
Body == {"cancel", "wait", "close"}

\* The callers: nothing overlaps a Restart, and each call makes at most one generation.
ControlInv ==
    /\ gen \in Nat /\ calls \in Nat /\ gen <= calls /\ calls <= MaxCalls
    /\ cpc \in [Controllers -> CallPlaces] /\ left \in [Controllers -> 0..(Concurrency + 1)]
    /\ restarting \subseteq Controllers
    /\ \A c \in restarting :
         /\ cpc[c] # "idle" /\ (cpc[c] # "spawn" => gen < calls)
         /\ \A d \in Controllers : d # c => cpc[d] = "idle"
    /\ \A c \in Controllers : cpc[c] = "swap" => c \in restarting

\* A generation: one caller is in the body of its Once, it cancels before it closes, and
\* the generations to come are untouched.
OnceInv ==
    /\ once \in [Generations -> {"fresh", "running", "done"}]
    /\ \A c \in Controllers : cpc[c] \in Body => once[gen] = "running"
    /\ \A c, d \in Controllers : cpc[c] \in Body /\ cpc[d] \in Body => c = d
    /\ \A c \in Controllers : cpc[c] \in {"wait", "close"} => ctxCancelled[gen]
    /\ \A g \in Generations : g > gen => ~ctxCancelled[g] /\ ~closed[g] /\ once[g] = "fresh"
    /\ once[gen] = "fresh" => ~ctxCancelled[gen] /\ ~closed[gen]
    /\ closed[gen] => ctxCancelled[gen]
FlagsTyped == ctxCancelled \in [Generations -> BOOLEAN] /\ closed \in [Generations -> BOOLEAN]

\* The goroutines and what they count.
CountsTyped ==
    /\ live \in [Generations -> [Places -> Nat]]
    /\ born \in [{"worker", "errors"} -> Nat] /\ queued \in [Generations -> 0..Buffer]
Workers == born["worker"] + live[gen]["select"] + live[gen]["check"] + live[gen]["emit"]

\* A wire that is started on a fresh generation has its workers, or a Start that has as
\* many still to add.
Supplied ==
    started /\ once[gen] = "fresh" =>
        \/ Workers >= Concurrency
        \/ \E c \in Controllers : cpc[c] = "spawn" /\ Workers + left[c] >= Concurrency

\* Once Stop has seen the wait group at zero no worker is about to send: the workers that a
\* Start adds afterwards find the context cancelled.
Silent ==
    /\ closed[gen] \/ (\E c \in Controllers : cpc[c] = "close") => \A g \in Generations : live[g]["emit"] = 0
    /\ ~lifePanicked

LifeInv ==
    /\ started \in BOOLEAN /\ ControlInv /\ OnceInv /\ FlagsTyped /\ CountsTyped /\ Supplied
    /\ ~LifeFastPath => Silent

LEMMA MoveCounts ==
    ASSUME CountsTyped, NEW g \in Generations, NEW from \in Places, NEW to \in Places, from # to,
           live[g][from] > 0, Move(g, from, to)
    PROVE  /\ live' \in [Generations -> [Places -> Nat]]
           /\ live'[g][from] = live[g][from] - 1 /\ live'[g][to] = live[g][to] + 1
           /\ \A h \in Generations, p \in Places : h # g \/ p \notin {from, to} => live'[h][p] = live[h][p]
<1> DEFINE row == [live[g] EXCEPT ![from] = @ - 1, ![to] = @ + 1]
<1>1. live' = [live EXCEPT ![g] = row]
  BY DEF Move, CountsTyped
<1>2. /\ row \in [Places -> Nat] /\ row[from] = live[g][from] - 1 /\ row[to] = live[g][to] + 1
      /\ \A p \in Places : p \notin {from, to} => row[p] = live[g][p]
  <2>1. live[g] \in [Places -> Nat]
    BY DEF CountsTyped
  <2> QED BY <2>1
<1> HIDE DEF row
<1> QED BY <1>1, <1>2 DEF CountsTyped

\* A step of the goroutines: the callers and the generations stay as they are.
LEMMA GoroutineStep ==
    ASSUME LifeInv, UNCHANGED <<lifecycle, control>>, CountsTyped',
           once[gen] = "fresh" => Workers' >= Workers,
           ~LifeFastPath =>
             /\ (closed[gen] \/ (\E c \in Controllers : cpc[c] = "close")) =>
                  \A g \in Generations : live'[g]["emit"] <= live[g]["emit"]
             /\ ~lifePanicked'
    PROVE  LifeInv'
<1> USE DEF lifecycle, control
<1>1. UNCHANGED <<started, gen, ctxCancelled, closed, once, cpc, left, restarting, calls>>
  OBVIOUS
<1>2. started' \in BOOLEAN /\ ControlInv'
  BY <1>1 DEF LifeInv, ControlInv
<1>3. OnceInv'
  BY <1>1 DEF LifeInv, OnceInv
<1>4. FlagsTyped'
  BY <1>1 DEF LifeInv, FlagsTyped
<1>5. gen \in Generations /\ gen' = gen
  BY <1>1, BoundsAssumption DEF LifeInv, ControlInv, Generations
<1>6. Workers \in Nat /\ Workers' \in Nat
  BY <1>5 DEF LifeInv, CountsTyped, Workers, Places
<1>7. Supplied'
  <2> SUFFICES ASSUME started, once[gen] = "fresh" PROVE Supplied'
    BY <1>1 DEF Supplied
  <2>1. Workers' >= Workers
    OBVIOUS
  <2>2. CASE Workers >= Concurrency
    BY <1>6, <2>1, <2>2, BoundsAssumption DEF Supplied
  <2>3. CASE \E c \in Controllers : cpc[c] = "spawn" /\ Workers + left[c] >= Concurrency
    <3>1. PICK c \in Controllers : cpc[c] = "spawn" /\ Workers + left[c] >= Concurrency
      BY <2>3
    <3>2. left[c] \in Nat
      BY BoundsAssumption DEF LifeInv, ControlInv
    <3>3. Workers' + left[c] >= Concurrency
      BY <3>1, <3>2, <2>1, <1>6, BoundsAssumption
    <3> QED BY <3>1, <3>3, <1>1 DEF Supplied
  <2> QED BY <2>2, <2>3 DEF LifeInv, Supplied
<1>8. ~LifeFastPath => Silent'
  <2> SUFFICES ASSUME ~LifeFastPath PROVE Silent'
    OBVIOUS
  <2>1. ASSUME closed'[gen'] \/ (\E c \in Controllers : cpc'[c] = "close"), NEW g \in Generations
        PROVE  live'[g]["emit"] = 0
    <3>1. live[g]["emit"] = 0 /\ live'[g]["emit"] <= live[g]["emit"]
      BY <1>1, <2>1 DEF LifeInv, Silent
    <3>2. live'[g]["emit"] \in Nat
      BY DEF CountsTyped, Places
    <3> QED BY <3>1, <3>2
  <2> QED BY <2>1 DEF Silent
<1> QED BY <1>2, <1>3, <1>4, <1>7, <1>8 DEF LifeInv

LEMMA GoroutinesKeep ==
    ASSUME LifeInv,
           \/ LifeSubmit \/ \E kind \in {"worker", "errors"} : Bind(kind)
           \/ \E g \in Generations :
                LifeTake(g) \/ LifeCheckContext(g) \/ LifeEmit(g) \/ \E place \in Places : Exit(g, place)
    PROVE  LifeInv'
<1>1. gen \in Generations
  BY BoundsAssumption DEF LifeInv, ControlInv, Generations
<1>2. CountsTyped /\ OnceInv /\ (~LifeFastPath => Silent) /\ \A g \in Generations : live[g] \in [Places -> Nat]
  BY DEF LifeInv, CountsTyped
<1>3. CASE LifeSubmit
  <2>1. CountsTyped' /\ Workers' = Workers
    BY <1>1, <1>2, <1>3, BoundsAssumption DEF LifeSubmit, CountsTyped, Workers, lifecycle
  <2>2. UNCHANGED <<lifecycle, control, live, lifePanicked>> /\ Workers \in Nat
    BY <1>1, <1>2, <1>3 DEF LifeSubmit, Workers, CountsTyped, Places
  <2> QED BY <2>1, <2>2, <1>2, GoroutineStep DEF Silent, CountsTyped, Places
<1>4. ASSUME NEW kind \in {"worker", "errors"}, Bind(kind) PROVE LifeInv'
  <2> DEFINE place == IF kind = "worker" THEN "select" ELSE "errors"
  <2>1. UNCHANGED <<lifecycle, control, queued, lifePanicked>>
    BY <1>4 DEF Bind
  <2>2. live' = [live EXCEPT ![gen][place] = live[gen][place] + 1] /\ place \in Places /\ live[gen][place] + 1 \in Nat
    BY <1>1, <1>2, <1>4 DEF Bind, Places
  <2>3. born' \in [{"worker", "errors"} -> Nat] /\ born'[kind] = born[kind] - 1
        /\ \A k \in {"worker", "errors"} : k # kind => born'[k] = born[k]
    BY <1>2, <1>4 DEF Bind, CountsTyped
  <2>4. /\ live' \in [Generations -> [Places -> Nat]] /\ live'[gen][place] = live[gen][place] + 1
        /\ \A h \in Generations, q \in Places : h # gen \/ q # place => live'[h][q] = live[h][q]
    <3> DEFINE n == live[gen][place] + 1
    <3>1. n \in Nat /\ live' = [live EXCEPT ![gen][place] = n] /\ place \in Places
      BY <2>2
    <3>2. /\ live' \in [Generations -> [Places -> Nat]] /\ live'[gen][place] = n
          /\ \A h \in Generations, q \in Places : h # gen \/ q # place => live'[h][q] = live[h][q]
      <4> HIDE DEF n, place
      <4> QED BY <1>1, <1>2, <3>1 DEF CountsTyped
    <3> QED BY <3>2
  <2>5. CountsTyped'
    BY <1>2, <2>1, <2>3, <2>4 DEF CountsTyped
  <2>6. Workers' = Workers /\ Workers \in Nat
    <3>1. gen' = gen
      BY <2>1 DEF lifecycle
    <3>2. born["worker"] \in Nat /\ live[gen]["select"] \in Nat /\ live[gen]["check"] \in Nat /\ live[gen]["emit"] \in Nat
      BY <1>1, <1>2 DEF CountsTyped, Places
    <3>3. CASE kind = "worker"
      <4>1. born'["worker"] = born["worker"] - 1 /\ live'[gen]["select"] = live[gen]["select"] + 1
            /\ live'[gen]["check"] = live[gen]["check"] /\ live'[gen]["emit"] = live[gen]["emit"]
        BY <1>1, <2>3, <2>4, <3>3 DEF Places
      <4> QED BY <3>1, <3>2, <4>1 DEF Workers
    <3>4. CASE kind = "errors"
      <4>1. born'["worker"] = born["worker"] /\ live'[gen]["select"] = live[gen]["select"]
            /\ live'[gen]["check"] = live[gen]["check"] /\ live'[gen]["emit"] = live[gen]["emit"]
        BY <1>1, <2>3, <2>4, <3>4 DEF Places
      <4> QED BY <3>1, <3>2, <4>1 DEF Workers
    <3> QED BY <3>3, <3>4
  <2>7. \A g \in Generations : live'[g]["emit"] = live[g]["emit"] /\ live[g]["emit"] \in Nat
    BY <1>2, <2>4 DEF Places
  <2> HIDE DEF place
  <2> QED BY <1>2, <2>1, <2>5, <2>6, <2>7, GoroutineStep DEF Silent
<1>5. ASSUME NEW g \in Generations, NEW from \in {"select", "check", "emit"}, NEW to \in {"select", "check", "emit"},
             from # to, live[g][from] > 0, Move(g, from, to), queued' \in [Generations -> 0..Buffer],
             UNCHANGED <<lifecycle, control, born>>, ~LifeFastPath => ~lifePanicked',
             ~LifeFastPath /\ to = "emit" => ~ctxCancelled[gen]
      PROVE  LifeInv'
  <2>1. /\ live' \in [Generations -> [Places -> Nat]]
        /\ live'[g][from] = live[g][from] - 1 /\ live'[g][to] = live[g][to] + 1
        /\ \A h \in Generations, p \in Places : h # g \/ p \notin {from, to} => live'[h][p] = live[h][p]
    BY <1>2, <1>5, MoveCounts DEF Places
  <2>2. CountsTyped'
    BY <1>2, <1>5, <2>1 DEF CountsTyped
  <2>3. Workers' = Workers /\ Workers \in Nat
    <3>1. gen' = gen /\ born' = born
      BY <1>5 DEF lifecycle
    <3>2. born["worker"] \in Nat /\ live[gen]["select"] \in Nat /\ live[gen]["check"] \in Nat /\ live[gen]["emit"] \in Nat
      BY <1>1, <1>2 DEF CountsTyped, Places
    <3>3. \A p \in {"select", "check", "emit"} : p \in Places
      BY DEF Places
    <3>4. CASE g # gen
      BY <1>1, <2>1, <3>1, <3>2, <3>3, <3>4 DEF Workers
    <3>5. CASE g = gen
      <4>1. \A p \in {"select", "check", "emit"} : p # from /\ p # to => live'[gen][p] = live[gen][p]
        BY <2>1, <3>3, <3>5
      <4>2. live'[gen][from] = live[gen][from] - 1 /\ live'[gen][to] = live[gen][to] + 1
        BY <2>1, <3>5
      <4> QED BY <1>5, <3>1, <3>2, <4>1, <4>2 DEF Workers
    <3> QED BY <3>4, <3>5
  <2>4. ASSUME ~LifeFastPath, closed[gen] \/ (\E c \in Controllers : cpc[c] = "close"), NEW h \in Generations
        PROVE  live'[h]["emit"] <= live[h]["emit"]
    <3>1. ctxCancelled[gen]
      BY <1>2, <2>4 DEF OnceInv
    <3>2. to # "emit"
      BY <3>1, <2>4, <1>5
    <3>3. live[h]["emit"] \in Nat
      BY <1>2 DEF Places
    <3>4. CASE h = g /\ from = "emit"
      BY <3>4, <3>3, <2>1
    <3>5. CASE h # g \/ from # "emit"
      BY <3>2, <3>5, <3>3, <2>1 DEF Places
    <3> QED BY <3>4, <3>5
  <2> QED BY <1>5, <2>2, <2>3, <2>4, GoroutineStep
<1>6. ASSUME NEW g \in Generations, NEW p \in Places, live[g][p] > 0,
             live' = [live EXCEPT ![g][p] = @ - 1], g = gen => ctxCancelled[gen],
             UNCHANGED <<lifecycle, control, born, queued>>, ~LifeFastPath => ~lifePanicked'
      PROVE  LifeInv'
  <2>1. live' = [live EXCEPT ![g][p] = live[g][p] - 1] /\ live[g][p] - 1 \in Nat
    BY <1>2, <1>6
  <2>2. /\ live' \in [Generations -> [Places -> Nat]] /\ live'[g][p] = live[g][p] - 1
        /\ \A h \in Generations, q \in Places : h # g \/ q # p => live'[h][q] = live[h][q]
    <3> DEFINE n == live[g][p] - 1
    <3>1. n \in Nat /\ live' = [live EXCEPT ![g][p] = n]
      BY <2>1
    <3>2. /\ live' \in [Generations -> [Places -> Nat]] /\ live'[g][p] = n
          /\ \A h \in Generations, q \in Places : h # g \/ q # p => live'[h][q] = live[h][q]
      <4> HIDE DEF n
      <4> QED BY <1>2, <3>1 DEF CountsTyped
    <3> QED BY <3>2
  <2>3. CountsTyped'
    BY <1>2, <1>6, <2>2 DEF CountsTyped
  <2>4. once[gen] = "fresh" => Workers' >= Workers
    <3> SUFFICES ASSUME once[gen] = "fresh" PROVE Workers' >= Workers
      OBVIOUS
    <3>1. g # gen /\ gen' = gen
      BY <1>2, <1>6 DEF OnceInv, lifecycle
    <3>2. born["worker"] \in Nat /\ live[gen]["select"] \in Nat /\ live[gen]["check"] \in Nat /\ live[gen]["emit"] \in Nat
      BY <1>1, <1>2 DEF CountsTyped, Places
    <3> QED BY <1>1, <1>6, <2>2, <3>1, <3>2 DEF Workers, Places
  <2>5. \A h \in Generations : live'[h]["emit"] <= live[h]["emit"]
    <3> SUFFICES ASSUME NEW h \in Generations PROVE live'[h]["emit"] <= live[h]["emit"]
      OBVIOUS
    <3>1. live[h]["emit"] \in Nat
      BY <1>2 DEF Places
    <3> QED BY <2>2, <3>1 DEF Places
  <2> QED BY <1>6, <2>3, <2>4, <2>5, GoroutineStep
<1>7. ASSUME NEW g \in Generations, LifeTake(g) PROVE LifeInv'
  <2>1. queued' \in [Generations -> 0..Buffer]
    BY <1>2, <1>7, BoundsAssumption DEF LifeTake, CountsTyped
  <2>2. UNCHANGED <<lifecycle, control, born, lifePanicked>> /\ live[g]["select"] > 0
    BY <1>7 DEF LifeTake
  <2>3. CASE LifeFastPath
    BY <1>5, <1>7, <2>1, <2>2, <2>3 DEF LifeTake
  <2>4. CASE ~LifeFastPath
    BY <1>2, <1>5, <1>7, <2>1, <2>2, <2>4 DEF LifeTake, Silent
  <2> QED BY <2>3, <2>4
<1>8. ASSUME NEW g \in Generations, LifeCheckContext(g) PROVE LifeInv'
  <2>1. queued' \in [Generations -> 0..Buffer]
    BY <1>2, <1>8 DEF LifeCheckContext, CountsTyped
  <2>2. UNCHANGED <<lifecycle, control, born, lifePanicked>> /\ live[g]["check"] > 0
        /\ ~LifeFastPath => ~lifePanicked'
    BY <1>2, <1>8 DEF LifeCheckContext, Silent
  <2>3. CASE ctxCancelled[gen]
    BY <1>5, <1>8, <2>1, <2>2, <2>3 DEF LifeCheckContext
  <2>4. CASE ~ctxCancelled[gen]
    BY <1>5, <1>8, <2>1, <2>2, <2>4 DEF LifeCheckContext
  <2> QED BY <2>3, <2>4
<1>9. ASSUME NEW g \in Generations, LifeEmit(g) PROVE LifeInv'
  <2>1. queued' = queued /\ queued' \in [Generations -> 0..Buffer]
    BY <1>2, <1>9 DEF LifeEmit, CountsTyped
  <2>2. UNCHANGED <<lifecycle, control, born>> /\ live[g]["emit"] > 0 /\ live[g]["emit"] \in Nat
    BY <1>2, <1>9 DEF LifeEmit, Places
  <2>3. ~LifeFastPath => ~lifePanicked'
    <3> SUFFICES ASSUME ~LifeFastPath PROVE ~lifePanicked'
      OBVIOUS
    <3>1. ~closed[gen] /\ ~lifePanicked
      BY <1>2, <2>2 DEF Silent
    <3> QED BY <1>9, <3>1 DEF LifeEmit
  <2>4. \/ Move(g, "emit", "select")
        \/ LifeFastPath /\ ctxCancelled[g] /\ live' = [live EXCEPT ![g]["emit"] = @ - 1]
    BY <1>9 DEF LifeEmit
  <2>5. CASE Move(g, "emit", "select")
    BY <1>5, <2>1, <2>2, <2>3, <2>5
  <2>6. CASE LifeFastPath /\ ctxCancelled[g] /\ live' = [live EXCEPT ![g]["emit"] = @ - 1]
    <3>1. "emit" \in Places
      BY DEF Places
    <3>2. g = gen => ctxCancelled[gen]
      BY <2>6
    <3> QED BY <1>6, <2>1, <2>2, <2>3, <2>6, <3>1, <3>2
  <2> QED BY <2>4, <2>5, <2>6
<1>10. ASSUME NEW g \in Generations, NEW p \in Places, Exit(g, p) PROVE LifeInv'
  BY <1>2, <1>6, <1>10 DEF Exit, Silent
<1> QED BY <1>3, <1>4, <1>7, <1>8, <1>9, <1>10

-----------------------------------------------------------------------------
(* The callers' steps. *)

\* The goroutines are left alone.
LEMMA CallerCounts ==
    ASSUME LifeInv, UNCHANGED goroutines
    PROVE  CountsTyped' /\ (gen' = gen => Workers' = Workers)
  BY DEF LifeInv, CountsTyped, goroutines, Workers

LEMMA CallersKeep ==
    ASSUME LifeInv, NEW c \in Controllers, LifeStart(c) \/ Stop(c) \/ Restart(c) \/ Step(c)
    PROVE  LifeInv'
<1>1. /\ started \in BOOLEAN /\ ControlInv /\ OnceInv /\ FlagsTyped /\ CountsTyped /\ Supplied
      /\ ~LifeFastPath => Silent
  BY DEF LifeInv
<1>2. gen \in Generations /\ Workers \in Nat /\ Concurrency \in Nat /\ Concurrency + 1 \in 0..(Concurrency + 1)
      /\ Concurrency + 1 \in Nat
  <2>1. gen \in Generations
    BY <1>1, BoundsAssumption DEF ControlInv, Generations
  <2>2. Workers \in Nat
    BY <2>1, <1>1 DEF CountsTyped, Workers, Places
  <2>3. Concurrency \in Nat /\ Concurrency + 1 \in 0..(Concurrency + 1) /\ Concurrency + 1 \in Nat
    BY BoundsAssumption
  <2> QED BY <2>1, <2>2, <2>3
<1>3. CASE LifeStart(c)
  <2>1. UNCHANGED <<gen, ctxCancelled, closed, once, goroutines, restarting>> /\ restarting = {} /\ calls' = calls + 1
        /\ calls < MaxCalls /\ cpc[c] = "idle" /\ UNCHANGED <<live, lifePanicked>>
    BY <1>3 DEF LifeStart, Begins, goroutines
  <2>2. CountsTyped' /\ Workers' = Workers /\ FlagsTyped'
    BY <2>1, <1>1, CallerCounts DEF FlagsTyped
  <2>3. CASE started
    <3>1. UNCHANGED <<started, cpc, left>>
      BY <1>3, <2>3 DEF LifeStart
    <3>2. ControlInv'
      BY <1>1, <2>1, <3>1, BoundsAssumption DEF ControlInv
    <3>3. OnceInv'
      BY <1>1, <2>1, <3>1 DEF OnceInv
    <3>4. Supplied' /\ (~LifeFastPath => Silent')
      BY <1>1, <2>1, <2>2, <3>1 DEF Supplied, Silent
    <3> QED BY <1>1, <2>2, <3>1, <3>2, <3>3, <3>4 DEF LifeInv
  <2>4. CASE ~started
    <3>1. started' = TRUE /\ cpc' = [cpc EXCEPT ![c] = "spawn"] /\ left' = [left EXCEPT ![c] = Concurrency + 1]
      BY <1>3, <2>4 DEF LifeStart, LifeGoto
    <3>2. ControlInv'
      BY <1>1, <1>2, <2>1, <3>1, BoundsAssumption DEF ControlInv, CallPlaces
    <3>3. cpc'[c] = "spawn" /\ left'[c] = Concurrency + 1 /\ \A d \in Controllers : d # c => cpc'[d] = cpc[d]
      BY <1>1, <3>1 DEF ControlInv
    <3>4. OnceInv'
      BY <1>1, <2>1, <3>3 DEF OnceInv, Body
    <3>5. Supplied'
      BY <1>2, <2>1, <2>2, <3>3 DEF Supplied
    <3>6. ~LifeFastPath => Silent'
      BY <1>1, <2>1, <3>3 DEF Silent
    <3> QED BY <2>2, <3>1, <3>2, <3>4, <3>5, <3>6 DEF LifeInv
  <2> QED BY <2>3, <2>4, <1>1
<1>same. ASSUME UNCHANGED <<gen, closed, ctxCancelled, once, goroutines>>
         PROVE  CountsTyped' /\ Workers' = Workers /\ FlagsTyped' /\ live' = live /\ lifePanicked' = lifePanicked
  BY <1>same, <1>1, CallerCounts DEF FlagsTyped, goroutines
<1>move. ASSUME NEW place \in CallPlaces, cpc' = [cpc EXCEPT ![c] = place]
         PROVE  /\ cpc' \in [Controllers -> CallPlaces] /\ cpc'[c] = place
                /\ \A d \in Controllers : d # c => cpc'[d] = cpc[d]
  BY <1>move, <1>1 DEF ControlInv
<1>4. CASE Stop(c)
  <2>1. UNCHANGED <<gen, ctxCancelled, closed, once, goroutines, restarting, left>> /\ restarting = {}
        /\ calls' = calls + 1 /\ calls < MaxCalls /\ cpc[c] = "idle" /\ started' = FALSE
    BY <1>4 DEF Stop, Begins
  <2>2. CountsTyped' /\ Workers' = Workers /\ FlagsTyped' /\ live' = live /\ lifePanicked' = lifePanicked
    BY <2>1, <1>same
  <2>3. /\ cpc' \in [Controllers -> CallPlaces] /\ cpc'[c] \in {"idle", "once"}
        /\ \A d \in Controllers : d # c => cpc'[d] = cpc[d]
    <3>1. CASE started
      BY <1>4, <3>1, <1>move DEF Stop, LifeGoto, CallPlaces
    <3>2. CASE ~started
      BY <1>4, <3>2, <2>1, <1>1 DEF Stop, ControlInv
    <3> QED BY <3>1, <3>2
  <2>4. ControlInv'
    BY <1>1, <2>1, <2>3, BoundsAssumption DEF ControlInv
  <2>5. OnceInv'
    BY <1>1, <2>1, <2>3 DEF OnceInv, Body
  <2>6. Supplied' /\ (~LifeFastPath => Silent')
    BY <1>1, <2>1, <2>2, <2>3 DEF Supplied, Silent
  <2> QED BY <2>1, <2>2, <2>4, <2>5, <2>6 DEF LifeInv
<1>5. CASE Restart(c)
  <2>1. UNCHANGED <<gen, ctxCancelled, closed, once, goroutines, left>> /\ restarting' = {c}
        /\ calls' = calls + 1 /\ calls < MaxCalls /\ started' = FALSE /\ \A d \in Controllers : cpc[d] = "idle"
    BY <1>5 DEF Restart, Begins
  <2>2. CountsTyped' /\ Workers' = Workers /\ FlagsTyped' /\ live' = live /\ lifePanicked' = lifePanicked
    BY <2>1, <1>same
  <2>3. /\ cpc' \in [Controllers -> CallPlaces] /\ cpc'[c] \in {"swap", "once"}
        /\ \A d \in Controllers : d # c => cpc'[d] = "idle"
    <3>1. CASE started
      BY <1>5, <3>1, <1>move, <2>1 DEF Restart, LifeGoto, CallPlaces
    <3>2. CASE ~started
      BY <1>5, <3>2, <1>move, <2>1 DEF Restart, LifeGoto, CallPlaces
    <3> QED BY <3>1, <3>2
  <2>4. ControlInv'
    BY <1>1, <2>1, <2>3, BoundsAssumption DEF ControlInv
  <2>5. OnceInv'
    BY <1>1, <2>1, <2>3 DEF OnceInv, Body
  <2>6. Supplied' /\ (~LifeFastPath => Silent')
    BY <1>1, <2>1, <2>2, <2>3 DEF Supplied, Silent
  <2> QED BY <2>1, <2>2, <2>4, <2>5, <2>6 DEF LifeInv
<1>6. CASE Spawn(c)
  <2> DEFINE kind == IF left[c] = Concurrency + 1 THEN "errors" ELSE "worker"
  <2>1. UNCHANGED <<lifecycle, queued, live, lifePanicked, cpc, restarting, calls>> /\ cpc[c] = "spawn"
        /\ left[c] > 0 /\ left' = [left EXCEPT ![c] = @ - 1] /\ born' = [born EXCEPT ![kind] = @ + 1]
        /\ UNCHANGED <<started, gen, ctxCancelled, closed, once>>
    BY <1>6 DEF Spawn, lifecycle
  <2>2. left[c] \in 0..(Concurrency + 1) /\ left[c] - 1 \in 0..(Concurrency + 1) /\ kind \in {"errors", "worker"}
    BY <1>1, <1>2, <2>1 DEF ControlInv
  <2>3. /\ left' \in [Controllers -> 0..(Concurrency + 1)] /\ left'[c] = left[c] - 1
        /\ \A d \in Controllers : d # c => left'[d] = left[d]
    BY <1>1, <2>1, <2>2 DEF ControlInv
  <2>4. /\ born' \in [{"errors", "worker"} -> Nat] /\ born["worker"] \in Nat
        /\ born'["worker"] = born["worker"] + (IF left[c] = Concurrency + 1 THEN 0 ELSE 1)
    BY <1>1, <2>1, <2>2 DEF CountsTyped
  <2>5. CountsTyped'
    BY <1>1, <2>1, <2>4 DEF CountsTyped
  <2>6. Workers' = Workers + (IF left[c] = Concurrency + 1 THEN 0 ELSE 1)
    <3>1. live[gen]["select"] \in Nat /\ live[gen]["check"] \in Nat /\ live[gen]["emit"] \in Nat
      BY <1>1, <1>2 DEF CountsTyped, Places
    <3> QED BY <2>1, <2>4, <3>1 DEF Workers
  <2>7. ControlInv'
    BY <1>1, <2>1, <2>3 DEF ControlInv
  <2>8. OnceInv' /\ FlagsTyped'
    BY <1>1, <2>1 DEF OnceInv, FlagsTyped
  <2>9. ~LifeFastPath => Silent'
    BY <1>1, <2>1 DEF Silent
  <2>10. Supplied'
    <3> SUFFICES ASSUME started, once[gen] = "fresh" PROVE Supplied'
      BY <2>1 DEF Supplied
    <3>1. CASE Workers >= Concurrency
      BY <3>1, <1>2, <2>6 DEF Supplied
    <3>2. ASSUME NEW d \in Controllers, cpc[d] = "spawn", Workers + left[d] >= Concurrency PROVE Supplied'
      <4>1. left[d] \in Nat /\ left'[d] \in Nat
        BY <1>1, <2>3, <1>2 DEF ControlInv
      <4>2. Workers' + left'[d] >= Concurrency
        <5>1. CASE d = c
          BY <5>1, <2>3, <2>6, <1>2, <3>2, <4>1
        <5>2. CASE d # c
          BY <5>2, <2>3, <2>6, <1>2, <3>2, <4>1
        <5> QED BY <5>1, <5>2
      <4> QED BY <4>2, <2>1, <3>2 DEF Supplied
    <3> QED BY <3>1, <3>2, <1>1 DEF Supplied
  <2> QED BY <1>1, <2>1, <2>5, <2>7, <2>8, <2>9, <2>10 DEF LifeInv
<1>7. CASE StartReturns(c)
  <2>1. UNCHANGED <<started, gen, ctxCancelled, closed, once, goroutines, left, calls>> /\ restarting' = restarting \ {c}
        /\ cpc[c] = "spawn" /\ left[c] = 0 /\ cpc' = [cpc EXCEPT ![c] = "idle"]
    BY <1>7 DEF StartReturns, LifeGoto, lifecycle
  <2>2. CountsTyped' /\ Workers' = Workers /\ FlagsTyped' /\ live' = live /\ lifePanicked' = lifePanicked
    BY <2>1, <1>same
  <2>3. cpc' \in [Controllers -> CallPlaces] /\ cpc'[c] = "idle" /\ \A d \in Controllers : d # c => cpc'[d] = cpc[d]
    BY <2>1, <1>move DEF CallPlaces
  <2>4. ControlInv'
    BY <1>1, <2>1, <2>3 DEF ControlInv
  <2>5. OnceInv'
    BY <1>1, <2>1, <2>3 DEF OnceInv, Body
  <2>6. ~LifeFastPath => Silent'
    BY <1>1, <2>1, <2>2, <2>3 DEF Silent
  <2>7. Supplied'
    <3> SUFFICES ASSUME started, once[gen] = "fresh" PROVE Supplied'
      BY <2>1 DEF Supplied
    <3>1. CASE Workers >= Concurrency
      BY <3>1, <2>2 DEF Supplied
    <3>2. ASSUME NEW d \in Controllers, cpc[d] = "spawn", Workers + left[d] >= Concurrency PROVE Supplied'
      <4>1. CASE d = c
        BY <4>1, <3>2, <2>1, <2>2, <1>2 DEF Supplied
      <4>2. CASE d # c
        BY <4>2, <3>2, <2>1, <2>2, <2>3 DEF Supplied
      <4> QED BY <4>1, <4>2
    <3> QED BY <3>1, <3>2, <1>1 DEF Supplied
  <2> QED BY <1>1, <2>1, <2>2, <2>4, <2>5, <2>6, <2>7 DEF LifeInv
<1>supply. ASSUME UNCHANGED <<gen, started, left>>, Workers' = Workers, cpc[c] # "spawn",
                  once'[gen] = "fresh" => once[gen] = "fresh", \A d \in Controllers : d # c => cpc'[d] = cpc[d]
           PROVE  Supplied'
  BY <1>supply, <1>1 DEF Supplied
<1>8. CASE TerminateOnce(c)
  <2>1. UNCHANGED <<started, gen, ctxCancelled, closed, goroutines, left, restarting, calls>> /\ cpc[c] = "once"
    BY <1>8 DEF TerminateOnce
  <2>2. CountsTyped' /\ Workers' = Workers /\ live' = live /\ lifePanicked' = lifePanicked
    BY <2>1, <1>1, CallerCounts DEF goroutines
  <2>3. FlagsTyped'
    BY <2>1, <1>1 DEF FlagsTyped
  <2>4. CASE once[gen] = "fresh" /\ once' = [once EXCEPT ![gen] = "running"] /\ LifeGoto(c, "cancel")
    <3>1. cpc' \in [Controllers -> CallPlaces] /\ cpc'[c] = "cancel" /\ \A d \in Controllers : d # c => cpc'[d] = cpc[d]
      BY <2>4, <1>move DEF LifeGoto, CallPlaces
    <3>2. /\ once' \in [Generations -> {"fresh", "running", "done"}] /\ once'[gen] = "running"
          /\ \A g \in Generations : g # gen => once'[g] = once[g]
      BY <1>1, <1>2, <2>4 DEF OnceInv
    <3>3. ControlInv'
      BY <1>1, <2>1, <3>1 DEF ControlInv
    <3>4. OnceInv'
      <4>1. \A d \in Controllers : cpc[d] \notin Body
        BY <1>1, <2>4 DEF OnceInv
      <4>2. gen \in Nat /\ \A g \in Generations : g > gen => g # gen
        BY <1>1 DEF ControlInv, Generations
      <4> QED BY <1>1, <2>1, <3>1, <3>2, <4>1, <4>2 DEF OnceInv, Body
    <3>5. ~LifeFastPath => Silent'
      BY <1>1, <2>1, <2>2, <3>1 DEF Silent
    <3>6. Supplied'
      BY <1>supply, <2>1, <2>2, <3>1, <3>2
    <3> QED BY <1>1, <2>1, <2>2, <2>3, <3>3, <3>4, <3>5, <3>6 DEF LifeInv
  <2>5. CASE once[gen] = "done" /\ once' = once /\ LifeGoto(c, AfterStop(c))
    <3>1. cpc' \in [Controllers -> CallPlaces] /\ cpc'[c] = AfterStop(c) /\ \A d \in Controllers : d # c => cpc'[d] = cpc[d]
      BY <2>5, <1>move DEF LifeGoto, CallPlaces, AfterStop
    <3>2. ControlInv'
      BY <1>1, <2>1, <3>1 DEF ControlInv, AfterStop
    <3>3. OnceInv'
      BY <1>1, <2>1, <2>5, <3>1 DEF OnceInv, Body, AfterStop
    <3>4. ~LifeFastPath => Silent'
      BY <1>1, <2>1, <2>2, <3>1 DEF Silent, AfterStop
    <3>5. Supplied'
      BY <1>supply, <2>1, <2>2, <2>5, <3>1
    <3> QED BY <1>1, <2>1, <2>2, <2>3, <3>2, <3>3, <3>4, <3>5 DEF LifeInv
  <2> QED BY <1>8, <2>4, <2>5 DEF TerminateOnce
<1>9. CASE Cancel(c)
  <2>1. UNCHANGED <<started, gen, closed, once, goroutines, left, restarting, calls>> /\ cpc[c] = "cancel"
        /\ ctxCancelled' = [ctxCancelled EXCEPT ![gen] = TRUE] /\ cpc' = [cpc EXCEPT ![c] = "wait"]
    BY <1>9 DEF Cancel, LifeGoto
  <2>2. CountsTyped' /\ Workers' = Workers /\ live' = live /\ lifePanicked' = lifePanicked
    BY <2>1, <1>1, CallerCounts DEF goroutines
  <2>3. /\ FlagsTyped' /\ ctxCancelled'[gen]
        /\ \A g \in Generations : g # gen => ctxCancelled'[g] = ctxCancelled[g]
    BY <2>1, <1>1, <1>2 DEF FlagsTyped
  <2>4. cpc' \in [Controllers -> CallPlaces] /\ cpc'[c] = "wait" /\ \A d \in Controllers : d # c => cpc'[d] = cpc[d]
    BY <2>1, <1>move DEF CallPlaces
  <2>5. ControlInv'
    BY <1>1, <2>1, <2>4 DEF ControlInv
  <2>6. OnceInv'
    <3>1. gen \in Nat /\ \A g \in Generations : g > gen => g # gen
      BY <1>1 DEF ControlInv, Generations
    <3>2. once[gen] = "running"
      BY <1>1, <2>1 DEF OnceInv, Body
    <3> QED BY <1>1, <2>1, <2>3, <2>4, <3>1, <3>2 DEF OnceInv, Body
  <2>7. ~LifeFastPath => Silent'
    BY <1>1, <2>1, <2>2, <2>4 DEF Silent
  <2>8. Supplied'
    BY <1>supply, <2>1, <2>2, <2>4
  <2> QED BY <1>1, <2>1, <2>2, <2>3, <2>5, <2>6, <2>7, <2>8 DEF LifeInv
<1>10. CASE Wait(c)
  <2>1. UNCHANGED <<started, gen, closed, ctxCancelled, once, goroutines, left, restarting, calls>> /\ cpc[c] = "wait"
        /\ cpc' = [cpc EXCEPT ![c] = "close"] /\ WaitGroupZero
    BY <1>10 DEF Wait, LifeGoto, lifecycle
  <2>2. CountsTyped' /\ Workers' = Workers /\ FlagsTyped' /\ live' = live /\ lifePanicked' = lifePanicked
    BY <2>1, <1>same
  <2>4. cpc' \in [Controllers -> CallPlaces] /\ cpc'[c] = "close" /\ \A d \in Controllers : d # c => cpc'[d] = cpc[d]
    BY <2>1, <1>move DEF CallPlaces
  <2>5. ControlInv'
    BY <1>1, <2>1, <2>4 DEF ControlInv
  <2>6. OnceInv'
    BY <1>1, <2>1, <2>4 DEF OnceInv, Body
  <2>7. ~LifeFastPath => Silent'
    BY <1>1, <2>1, <2>2 DEF Silent, WaitGroupZero, Places
  <2>8. Supplied'
    BY <1>supply, <2>1, <2>2, <2>4
  <2> QED BY <1>1, <2>1, <2>2, <2>5, <2>6, <2>7, <2>8 DEF LifeInv
<1>11. CASE CloseChannels(c)
  <2>1. UNCHANGED <<started, gen, ctxCancelled, goroutines, left, restarting, calls>> /\ cpc[c] = "close"
        /\ closed' = [closed EXCEPT ![gen] = TRUE] /\ once' = [once EXCEPT ![gen] = "done"]
        /\ cpc' = [cpc EXCEPT ![c] = AfterStop(c)]
    BY <1>11 DEF CloseChannels, LifeGoto
  <2>2. CountsTyped' /\ Workers' = Workers /\ live' = live /\ lifePanicked' = lifePanicked
    BY <2>1, <1>1, CallerCounts DEF goroutines
  <2>3. FlagsTyped' /\ closed'[gen] /\ \A g \in Generations : g # gen => closed'[g] = closed[g]
    BY <2>1, <1>1, <1>2 DEF FlagsTyped
  <2>4. cpc' \in [Controllers -> CallPlaces] /\ cpc'[c] = AfterStop(c) /\ \A d \in Controllers : d # c => cpc'[d] = cpc[d]
    BY <2>1, <1>move DEF CallPlaces, AfterStop
  <2>5. ControlInv'
    BY <1>1, <2>1, <2>4 DEF ControlInv, AfterStop
  <2>9. /\ once' \in [Generations -> {"fresh", "running", "done"}] /\ once'[gen] = "done"
        /\ \A g \in Generations : g # gen => once'[g] = once[g]
    BY <1>1, <1>2, <2>1 DEF OnceInv
  <2>6. OnceInv'
    <3>1. gen \in Nat /\ \A g \in Generations : g > gen => g # gen
      BY <1>1 DEF ControlInv, Generations
    <3>2. ctxCancelled[gen] /\ \A d \in Controllers : cpc[d] \in Body => d = c
      BY <1>1, <2>1 DEF OnceInv, Body
    <3>3. \A d \in Controllers : cpc'[d] \notin Body
      BY <2>4, <3>2 DEF Body, AfterStop
    <3> QED BY <1>1, <2>1, <2>3, <2>9, <3>1, <3>2, <3>3 DEF OnceInv, Body
  <2>7. ~LifeFastPath => Silent'
    BY <1>1, <2>1, <2>2 DEF Silent
  <2>8. Supplied'
    BY <1>supply, <2>1, <2>2, <2>4, <2>9
  <2> QED BY <1>1, <2>1, <2>2, <2>3, <2>5, <2>6, <2>7, <2>8 DEF LifeInv
<1>12. CASE Swap(c)
  <2>1. UNCHANGED <<ctxCancelled, closed, once, goroutines, restarting, calls>> /\ cpc[c] = "swap"
        /\ gen' = gen + 1 /\ started' = TRUE /\ left' = [left EXCEPT ![c] = Concurrency + 1]
        /\ cpc' = [cpc EXCEPT ![c] = "spawn"]
    BY <1>12 DEF Swap, LifeGoto
  <2>2. CountsTyped' /\ live' = live /\ lifePanicked' = lifePanicked /\ FlagsTyped' /\ born' = born
    BY <2>1, <1>1, CallerCounts DEF goroutines, FlagsTyped
  <2>3. /\ cpc' \in [Controllers -> CallPlaces] /\ cpc'[c] = "spawn" /\ \A d \in Controllers : d # c => cpc'[d] = cpc[d]
        /\ left' \in [Controllers -> 0..(Concurrency + 1)] /\ left'[c] = Concurrency + 1
    BY <1>1, <1>2, <2>1, <1>move DEF CallPlaces, ControlInv
  <2>4. c \in restarting /\ gen < calls /\ gen \in Nat /\ calls \in Nat /\ \A d \in Controllers : d # c => cpc[d] = "idle"
    BY <1>1, <2>1 DEF ControlInv
  <2>5. gen + 1 \in Generations /\ gen + 1 > gen /\ \A g \in Generations : g > gen + 1 => g > gen
    BY <1>1, <2>4, BoundsAssumption DEF Generations, ControlInv
  <2>6. ControlInv'
    BY <1>1, <2>1, <2>3, <2>4 DEF ControlInv
  <2>7. ~ctxCancelled[gen + 1] /\ ~closed[gen + 1] /\ once[gen + 1] = "fresh"
    BY <1>1, <2>5 DEF OnceInv
  <2>8. \A d \in Controllers : cpc'[d] \in {"idle", "spawn"}
    BY <2>3, <2>4
  <2>9. OnceInv'
    BY <1>1, <2>1, <2>5, <2>7, <2>8 DEF OnceInv, Body
  <2>10. ~LifeFastPath => Silent'
    BY <1>1, <2>1, <2>2, <2>7, <2>8 DEF Silent
  <2>11. Supplied'
    <3>1. Workers' \in Nat
      BY <2>1, <2>2, <2>5 DEF Workers, CountsTyped, Places
    <3>2. Workers' + left'[c] >= Concurrency
      <4>1. left'[c] = Concurrency + 1 /\ Concurrency \in Nat
        BY <2>3, <1>2
      <4>2. \A w, n \in Nat : w + (n + 1) >= n
        OBVIOUS
      <4> QED BY <3>1, <4>1, <4>2
    <3> QED BY <2>3, <3>2 DEF Supplied
  <2> QED BY <2>1, <2>2, <2>6, <2>9, <2>10, <2>11 DEF LifeInv
<1> QED BY <1>3, <1>4, <1>5, <1>6, <1>7, <1>8, <1>9, <1>10, <1>11, <1>12 DEF Step

LEMMA LifeInvInit == LifeInit => LifeInv
<1> SUFFICES ASSUME LifeInit PROVE LifeInv
  OBVIOUS
<1>1. ControlInv
  BY BoundsAssumption DEF LifeInit, ControlInv, CallPlaces
<1>2. 0 \in Generations
  BY BoundsAssumption DEF Generations
<1>3. OnceInv
  BY <1>2 DEF LifeInit, OnceInv, Body
<1>4. FlagsTyped
  BY DEF LifeInit, FlagsTyped
<1>5. CountsTyped
  BY BoundsAssumption DEF LifeInit, CountsTyped
<1>6. Supplied /\ Silent /\ started \in BOOLEAN
  BY <1>2 DEF LifeInit, Supplied, Silent, Places
<1> QED BY <1>1, <1>3, <1>4, <1>5, <1>6 DEF LifeInv

LEMMA LifeInvNext == LifeInv /\ [LifeNext]_wireLifeVars => LifeInv'
<1> SUFFICES ASSUME LifeInv, [LifeNext]_wireLifeVars PROVE LifeInv'
  OBVIOUS
<1>1. DOMAIN born = {"worker", "errors"}
  BY DEF LifeInv, CountsTyped
<1>2. CASE UNCHANGED wireLifeVars
  <2>1. UNCHANGED <<lifecycle, control, live, born, queued, lifePanicked, gen>>
    BY <1>2 DEF wireLifeVars, goroutines, lifecycle
  <2>2. CountsTyped' /\ Workers' = Workers /\ Workers \in Nat
    <3>1. gen \in Generations
      BY BoundsAssumption DEF LifeInv, ControlInv, Generations
    <3> QED BY <2>1, <3>1 DEF LifeInv, CountsTyped, Workers, Places
  <2>3. \A g \in Generations : live[g]["emit"] \in Nat
    BY DEF LifeInv, CountsTyped, Places
  <2> QED BY <2>1, <2>2, <2>3, GoroutineStep DEF LifeInv, Silent
<1> QED BY <1>1, <1>2, GoroutinesKeep, CallersKeep DEF LifeNext

LEMMA LifeInvTypes == LifeInv => LifeTypeOK /\ RestartedRuns
<1> SUFFICES ASSUME LifeInv PROVE LifeTypeOK /\ RestartedRuns
  OBVIOUS
<1> DEFINE inBody == {c \in Controllers : cpc[c] \in {"cancel", "wait", "close"}}
<1>1. Cardinality(inBody) <= 1
  <2>1. CASE inBody = {}
    BY <2>1, FS_EmptySet
  <2>2. CASE inBody # {}
    <3>1. PICK c \in inBody : TRUE
      BY <2>2
    <3>2. inBody = {c}
      BY <3>1 DEF LifeInv, OnceInv, Body
    <3>3. Cardinality({c}) = 1
      BY FS_Singleton
    <3> QED BY <3>2, <3>3
  <2> QED BY <2>1, <2>2
<1>2. gen \in Generations
  BY BoundsAssumption DEF LifeInv, ControlInv, Generations
<1>3. LifeTypeOK
  BY <1>1, <1>2 DEF LifeInv, LifeTypeOK, ControlInv, OnceInv, FlagsTyped, CountsTyped, CallPlaces
<1>4. RestartedRuns
  BY DEF LifeInv, RestartedRuns, InUse, Supplied, Workers, OnceInv
<1> QED BY <1>3, <1>4

\* However many callers overlap Start and Stop, and however often a wire is restarted, the
\* body of a Once runs once at a time, a wire in use after a Restart has its workers on
\* open channels and a live context, and (in the standard loop) no worker sends on a
\* channel that Stop has closed.
THEOREM LifecycleSafe ==
    /\ LifeSpec => [](LifeTypeOK /\ RestartedRuns)
    /\ ~LifeFastPath => (LifeSpec => []LifecycleSound)
<1>1. LifeSpec => []LifeInv
  BY LifeInvInit, LifeInvNext, PTL DEF LifeSpec
<1>2. LifeSpec => [](LifeTypeOK /\ RestartedRuns)
  BY <1>1, LifeInvTypes, PTL
<1>3. ASSUME ~LifeFastPath PROVE LifeSpec => []LifecycleSound
  <2>1. LifeInv => LifecycleSound
    BY <1>3, LifeInvTypes DEF LifeInv, Silent, NoSendAfterStop, LifecycleSound
  <2> QED BY <1>1, <2>1, PTL
<1> QED BY <1>2, <1>3

-----------------------------------------------------------------------------
(* Conduit. *)

ConduitCall ==
    [at : {"idle", "snapshot", "each", "attach", "chain"}, what : Settings \cup {"none"},
     todo : Seq(Stages), kinds : SUBSET Settings]
ConfigTyped ==
    /\ wires \in Seq(Stages) /\ settings \in SUBSET Settings /\ has \in [Stages -> SUBSET Settings]
    /\ configuring \in [Configurers -> ConduitCall]
    /\ \A p \in Configurers :
          /\ configuring[p].at = "attach" => configuring[p].todo # <<>>
          /\ configuring[p].at \in {"snapshot", "each"} => configuring[p].what \in Settings

\* A call in flight that will still give the wire the setting: one that attaches the wire
\* and has not looked at the setting, or one that passes the setting on and has not come to
\* the wire.
WillGive(p, w, s) ==
    LET call == configuring[p]
    IN  \/ call.at = "attach" /\ (w \in ToSet(Tail(call.todo)) \/ (w = Head(call.todo) /\ s \in call.kinds))
        \/ call.what = s /\ call.at = "snapshot"
        \/ call.what = s /\ call.at = "each" /\ w \in ToSet(call.todo)
SettingsInv ==
    \A w \in ToSet(wires), s \in settings : s \in has[w] \/ \E p \in Configurers : WillGive(p, w, s)

\* The phases: calls are in flight only before Start, and what was started has wires.
PhasesInv ==
    /\ conduit \in {"building", "ready", "run", "stopping", "stopped"}
    /\ ~Configurable => NoCallInFlight /\ wires # <<>>
    /\ Configurable => forwarder # "run"
    /\ conduit # "building" => conduitOut # NoChan
    /\ \/ conduitOut = NoChan /\ chans = 0
       \/ chans \in 1..MaxRestarts + 1 /\ conduitOut = Chan("conduit", chans - 1)
    /\ \A i, j \in 1..Len(wires) : wires[i] = wires[j] => i = j
    /\ toStop \in Seq(Stages)

\* The graph of channels.
GraphInv ==
    /\ outChan \in [Stages -> Channels] /\ wireIn \in [Stages -> Channels]
    /\ \A w \in Stages :
          \/ outChan[w] = Chan(w, 1)
          \/ wires # <<>> /\ w = wires[Len(wires)] /\ outChan[w] = conduitOut /\ conduitOut # NoChan
    /\ \A w \in Stages :
          \/ wireIn[w] = Chan(w, 0)
          \/ \E i \in 2..Len(wires) : w = wires[i] /\ wireIn[w] = Chan(wires[i - 1], 1)

\* ... complete when the conduit is built and no wire is being connected.
Linked ==
    /\ \A i \in 2..Len(wires) : wireIn[wires[i]] = Chan(wires[i - 1], 1)
    /\ wires # <<>> => outChan[wires[Len(wires)]] = conduitOut
LinkedInv ==
    conduit # "building" /\ (\A p \in Configurers : configuring[p].at \notin {"attach", "chain"}) => Linked

\* The element in a channel has passed the wires up to the one that writes to it.
PassedInv ==
    /\ conduitQueued \in [Channels -> Seq(Seq(Stages))]
    /\ Configurable => /\ \A ch \in Channels : conduitQueued[ch] = <<>>
                       /\ closedChans = {} /\ delivered = {}
    /\ \A ch \in Channels : \A k \in 1..Len(conduitQueued[ch]) :
          LET elem == conduitQueued[ch][k]
          IN  \/ ch = Chan(wires[1], 0) /\ elem = <<>>
              \/ \E i \in 1..Len(wires) : ch = Chan(wires[i], 1) /\ elem = SubSeq(wires, 1, i)
              \/ ch.of = "conduit" /\ elem = wires
    /\ \A elem \in delivered : elem = wires

\* What is closed was the output of a wire that has ended.
ClosedInv ==
    /\ alive = Stages \ ended /\ ended \subseteq Stages
    /\ \A ch \in closedChans :
          \/ \E w \in ended : ch = Chan(w, 1)
          \/ ch.of = "conduit" /\ wires[Len(wires)] \in ended
    /\ ~conduitPanic

FlowInv == PhasesInv /\ GraphInv /\ LinkedInv /\ PassedInv /\ ClosedInv
ConduitInv == ConfigTyped /\ SettingsInv /\ (~joinedLate => FlowInv)

LEMMA TailHolds ==
    ASSUME NEW S, NEW s \in Seq(S), s # <<>>, NEW x
    PROVE  x \in ToSet(s) <=> x = Head(s) \/ x \in ToSet(Tail(s))
<1>1. Len(s) \in Nat \ {0} /\ Tail(s) \in Seq(S) /\ Len(Tail(s)) = Len(s) - 1
  OBVIOUS
<1>2. ASSUME NEW i \in 1..Len(s), x = s[i], i # 1 PROVE x \in ToSet(Tail(s))
  <2>1. i - 1 \in 1..Len(Tail(s)) /\ Tail(s)[i - 1] = s[i]
    BY <1>1, <1>2
  <2>2. DOMAIN Tail(s) = 1..Len(Tail(s))
    BY <1>1
  <2> QED BY <1>2, <2>1, <2>2 DEF ToSet
<1>3. ASSUME NEW i \in 1..Len(Tail(s)), x = Tail(s)[i] PROVE x \in ToSet(s)
  <2>1. i + 1 \in 1..Len(s) /\ Tail(s)[i] = s[i + 1]
    BY <1>1
  <2> QED BY <1>1, <1>3, <2>1 DEF ToSet
<1>4. Head(s) = s[1] /\ 1 \in 1..Len(s)
  BY <1>1
<1> QED BY <1>1, <1>2, <1>3, <1>4 DEF ToSet

LEMMA ConcatHolds ==
    ASSUME NEW S, NEW s \in Seq(S), NEW t \in Seq(S)
    PROVE  ToSet(s \o t) = ToSet(s) \cup ToSet(t)
<1>1. ASSUME NEW x \in ToSet(s \o t) PROVE x \in ToSet(s) \cup ToSet(t)
  <2>1. PICK i \in 1..Len(s) + Len(t) : x = (s \o t)[i]
    BY <1>1 DEF ToSet
  <2>2. CASE i <= Len(s)
    BY <2>1, <2>2 DEF ToSet
  <2>3. CASE i > Len(s)
    <3>1. i - Len(s) \in 1..Len(t) /\ x = t[i - Len(s)]
      BY <2>1, <2>3
    <3> QED BY <3>1 DEF ToSet
  <2> QED BY <2>2, <2>3
<1>2. ASSUME NEW x \in ToSet(s) PROVE x \in ToSet(s \o t)
  <2>1. PICK i \in 1..Len(s) : x = s[i]
    BY <1>2 DEF ToSet
  <2>2. i \in 1..Len(s \o t) /\ (s \o t)[i] = x
    BY <2>1
  <2> QED BY <2>2 DEF ToSet
<1>3. ASSUME NEW x \in ToSet(t) PROVE x \in ToSet(s \o t)
  <2>1. PICK i \in 1..Len(t) : x = t[i]
    BY <1>3 DEF ToSet
  <2>2. Len(s) + i \in 1..Len(s \o t) /\ (s \o t)[Len(s) + i] = x
    BY <2>1
  <2> QED BY <2>2 DEF ToSet
<1> QED BY <1>1, <1>2, <1>3

LEMMA NewCalls ==
    ASSUME NEW s, NEW ws, NEW ks
    PROVE  /\ [NoCall EXCEPT !.at = "snapshot", !.what = s] = [at |-> "snapshot", what |-> s, todo |-> <<>>, kinds |-> {}]
           /\ [NoCall EXCEPT !.at = "attach", !.todo = ws, !.kinds = ks] = [at |-> "attach", what |-> "none", todo |-> ws, kinds |-> ks]
<1> DEFINE none == "none"
           nil == <<>>
           one == [NoCall EXCEPT !.at = "snapshot"]
           two == [NoCall EXCEPT !.at = "attach"]
           three == [two EXCEPT !.todo = ws]
<1>1. [NoCall EXCEPT !.at = "snapshot", !.what = s] = [one EXCEPT !.what = s]
  OBVIOUS
<1>2. [NoCall EXCEPT !.at = "attach", !.todo = ws, !.kinds = ks] = [three EXCEPT !.kinds = ks]
  OBVIOUS
<1>3. one = [at |-> "snapshot", what |-> none, todo |-> nil, kinds |-> {}]
  BY DEF NoCall
<1>4. two = [at |-> "attach", what |-> none, todo |-> <<>>, kinds |-> {}]
  BY DEF NoCall
<1>5. three = [at |-> "attach", what |-> "none", todo |-> ws, kinds |-> {}]
  <2> HIDE DEF two
  <2> QED BY <1>4
<1>6. [one EXCEPT !.what = s] = [at |-> "snapshot", what |-> s, todo |-> nil, kinds |-> {}]
  <2> HIDE DEF one, none, nil
  <2> QED BY <1>3
<1>7. [three EXCEPT !.kinds = ks] = [at |-> "attach", what |-> "none", todo |-> ws, kinds |-> ks]
  <2> HIDE DEF three
  <2> QED BY <1>5
<1> QED BY <1>1, <1>2, <1>6, <1>7

LEMMA WireListsTyped == \A ws \in WireLists : ws \in Seq(Stages) /\ IsInjective(ws)
<1>1. Cardinality(Stages) \in Nat
  BY ConduitAssumption, FS_CardinalityType
<1> QED BY <1>1 DEF WireLists, SeqOf

LEMMA ConduitInvInit == ConduitInit => ConduitInv
<1> SUFFICES ASSUME ConduitInit PROVE ConduitInv
  OBVIOUS
<1>1. ConfigTyped
  BY DEF ConduitInit, ConfigTyped, ConduitCall, NoCall
<1>2. SettingsInv
  BY DEF ConduitInit, SettingsInv
<1>3. PhasesInv
  BY DEF ConduitInit, PhasesInv, Configurable
<1>4. GraphInv
  BY ConduitAssumption DEF ConduitInit, GraphInv, Channels, Chan, NoChan
<1>5. LinkedInv
  BY DEF ConduitInit, LinkedInv
<1>6. PassedInv
  BY DEF ConduitInit, PassedInv
<1>7. ClosedInv
  BY DEF ConduitInit, ClosedInv
<1> QED BY <1>1, <1>2, <1>3, <1>4, <1>5, <1>6, <1>7 DEF ConduitInv, FlowInv

\* What one call does leaves what the others will still give.
LEMMA OthersGive ==
    ASSUME NEW p \in Configurers, \A q \in Configurers : q # p => configuring'[q] = configuring[q],
           \A w \in ToSet(wires), s \in settings :
               /\ s \in has[w] => s \in has'[w]
               /\ WillGive(p, w, s) => s \in has'[w] \/ WillGive(p, w, s)',
           SettingsInv
    PROVE  \A w \in ToSet(wires), s \in settings : s \in has'[w] \/ \E q \in Configurers : WillGive(q, w, s)'
<1> SUFFICES ASSUME NEW w \in ToSet(wires), NEW s \in settings
             PROVE  s \in has'[w] \/ \E q \in Configurers : WillGive(q, w, s)'
  OBVIOUS
<1>1. CASE s \in has[w]
  BY <1>1
<1>2. CASE \E q \in Configurers : WillGive(q, w, s)
  <2>1. PICK q \in Configurers : WillGive(q, w, s)
    BY <1>2
  <2>2. CASE q = p
    BY <2>1, <2>2
  <2>3. CASE q # p
    <3>1. WillGive(q, w, s)'
      BY <2>1, <2>3 DEF WillGive
    <3> QED BY <3>1
  <2> QED BY <2>2, <2>3
<1> QED BY <1>1, <1>2 DEF SettingsInv

LEMMA SettingsKept ==
    ASSUME ConfigTyped, SettingsInv, ConduitNext
    PROVE  ConfigTyped' /\ SettingsInv'
<1>1. ASSUME NEW p \in Configurers, NEW s \in Settings, ConnectSetting(p, s) PROVE ConfigTyped' /\ SettingsInv'
  <2>1. configuring' = [configuring EXCEPT ![p] = [at |-> "snapshot", what |-> s, todo |-> <<>>, kinds |-> {}]]
        /\ settings' = settings \cup {s} /\ UNCHANGED <<wires, has>> /\ configuring[p].at = "idle"
    <3>1. [NoCall EXCEPT !.at = "snapshot", !.what = s] = [at |-> "snapshot", what |-> s, todo |-> <<>>, kinds |-> {}]
      BY NewCalls
    <3> QED BY <1>1, <3>1 DEF ConnectSetting, MayCall
  <2>2. ConfigTyped'
    BY <2>1 DEF ConfigTyped, ConduitCall
  <2>3. \A w \in ToSet(wires), t \in settings : t \in has'[w] \/ \E q \in Configurers : WillGive(q, w, t)'
    <3>1. \A w \in ToSet(wires), t \in settings : ~WillGive(p, w, t)
      BY <2>1 DEF WillGive
    <3>2. \A q \in Configurers : q # p => configuring'[q] = configuring[q]
      BY <2>1 DEF ConfigTyped
    <3> QED BY <2>1, <3>1, <3>2, OthersGive
  <2>4. \A w \in ToSet(wires) : WillGive(p, w, s)'
    BY <2>1 DEF WillGive, ConfigTyped
  <2> QED BY <2>1, <2>2, <2>3, <2>4 DEF SettingsInv
<1>2. ASSUME NEW p \in Configurers, SnapshotWires(p) PROVE ConfigTyped' /\ SettingsInv'
  <2>1. configuring' = [configuring EXCEPT ![p].at = "each", ![p].todo = wires]
        /\ UNCHANGED <<wires, settings, has>> /\ configuring[p].at = "snapshot"
    BY <1>2 DEF SnapshotWires
  <2>2. configuring'[p].at = "each" /\ configuring'[p].todo = wires /\ configuring'[p].what = configuring[p].what
        /\ \A q \in Configurers : q # p => configuring'[q] = configuring[q]
    BY <2>1 DEF ConfigTyped, ConduitCall
  <2>3. ConfigTyped'
    <3>1. configuring[p] \in ConduitCall /\ wires \in Seq(Stages) /\ configuring[p].what \in Settings
      BY <2>1 DEF ConfigTyped
    <3>2. [configuring[p] EXCEPT !.at = "each", !.todo = wires] \in ConduitCall
      BY <3>1 DEF ConduitCall
    <3>3. configuring' = [configuring EXCEPT ![p] = [configuring[p] EXCEPT !.at = "each", !.todo = wires]]
      BY <2>1
    <3>4. configuring' \in [Configurers -> ConduitCall]
      BY <3>2, <3>3 DEF ConfigTyped
    <3> QED BY <2>1, <2>2, <3>1, <3>4 DEF ConfigTyped
  <2>4. \A w \in ToSet(wires), t \in settings : WillGive(p, w, t) => WillGive(p, w, t)'
    BY <2>1, <2>2 DEF WillGive
  <2>5. \A w \in ToSet(wires), t \in settings : t \in has'[w] \/ \E q \in Configurers : WillGive(q, w, t)'
    BY <2>1, <2>2, <2>4, OthersGive
  <2> QED BY <2>1, <2>3, <2>5 DEF SettingsInv
<1>3. ASSUME NEW p \in Configurers, ApplySetting(p) PROVE ConfigTyped' /\ SettingsInv'
  <2>1. configuring[p].at = "each" /\ UNCHANGED <<wires, settings>> /\ configuring[p] \in ConduitCall
    BY <1>3 DEF ApplySetting, ConfigTyped
  <2>2. CASE configuring[p].todo = <<>>
    <3>1. configuring' = [configuring EXCEPT ![p] = [at |-> "idle", what |-> "none", todo |-> <<>>, kinds |-> {}]] /\ has' = has
      BY <1>3, <2>2 DEF ApplySetting, NoCall
    <3>2. ConfigTyped'
      BY <2>1, <3>1 DEF ConfigTyped, ConduitCall
    <3>3. \A w \in ToSet(wires), t \in settings : ~WillGive(p, w, t)
      BY <2>1, <2>2 DEF WillGive, ToSet
    <3>4. \A q \in Configurers : q # p => configuring'[q] = configuring[q]
      BY <3>1 DEF ConfigTyped
    <3> QED BY <2>1, <3>1, <3>2, <3>3, <3>4, OthersGive DEF SettingsInv
  <2>3. CASE configuring[p].todo # <<>>
    <3> DEFINE h == Head(configuring[p].todo)
               v == configuring[p].what
    <3>1. configuring' = [configuring EXCEPT ![p].todo = Tail(@)] /\ has' = [has EXCEPT ![h] = has[h] \cup {v}]
      BY <1>3, <2>3 DEF ApplySetting
    <3>2. h \in Stages /\ Tail(configuring[p].todo) \in Seq(Stages)
      BY <2>1, <2>3 DEF ConduitCall
    <3>3. v \in Settings /\ has[h] \cup {v} \in SUBSET Settings
      BY <2>1, <3>2 DEF ConfigTyped
    <3>4. /\ configuring'[p].at = "each" /\ configuring'[p].todo = Tail(configuring[p].todo) /\ configuring'[p].what = v
          /\ \A q \in Configurers : q # p => configuring'[q] = configuring[q]
      BY <2>1, <3>1 DEF ConfigTyped, ConduitCall
    <3>5. \A w \in Stages : has'[w] = IF w = h THEN has[h] \cup {v} ELSE has[w]
      BY <3>1 DEF ConfigTyped
    <3>6. ConfigTyped'
      <4>1. configuring' \in [Configurers -> ConduitCall]
        BY <2>1, <3>1, <3>2 DEF ConfigTyped, ConduitCall
      <4>2. has' \in [Stages -> SUBSET Settings]
        BY <3>1, <3>2, <3>3 DEF ConfigTyped
      <4> QED BY <2>1, <3>3, <3>4, <4>1, <4>2 DEF ConfigTyped
    <3>7. \A w \in ToSet(wires), t \in settings : WillGive(p, w, t) => t \in has'[w] \/ WillGive(p, w, t)'
      <4> SUFFICES ASSUME NEW w \in ToSet(wires), NEW t \in settings, WillGive(p, w, t), w # h
                   PROVE  WillGive(p, w, t)'
        <5>1. \A w \in ToSet(wires) : w \in Stages
          BY DEF ToSet, ConfigTyped
        <5>2. \A w \in ToSet(wires), t \in settings : WillGive(p, w, t) => t = v
          BY <2>1 DEF WillGive
        <5> QED BY <3>2, <3>5, <5>1, <5>2
      <4>1. t = v /\ w \in ToSet(configuring[p].todo)
        BY <2>1 DEF WillGive
      <4>2. w \in ToSet(Tail(configuring[p].todo))
        BY <2>1, <2>3, <4>1, TailHolds DEF ConduitCall
      <4> QED BY <3>4, <4>1, <4>2 DEF WillGive
    <3>8. \A w \in ToSet(wires), t \in settings : t \in has[w] => t \in has'[w]
      BY <3>5 DEF ToSet, ConfigTyped
    <3> QED BY <2>1, <3>4, <3>6, <3>7, <3>8, OthersGive DEF SettingsInv
  <2> QED BY <2>2, <2>3
<1>4. ASSUME NEW p \in Configurers, NEW ws \in WireLists, ConnectWire(p, ws) PROVE ConfigTyped' /\ SettingsInv'
  <2>1. configuring' = [configuring EXCEPT ![p] = [at |-> "attach", what |-> "none", todo |-> ws, kinds |-> Settings]]
        /\ wires' = wires \o ws /\ UNCHANGED <<settings, has>> /\ configuring[p].at = "idle" /\ ws # <<>>
    <3>1. [NoCall EXCEPT !.at = "attach", !.todo = ws, !.kinds = Settings]
          = [at |-> "attach", what |-> "none", todo |-> ws, kinds |-> Settings]
      BY NewCalls
    <3> QED BY <1>4, <3>1 DEF ConnectWire, MayCall
  <2>2. ws \in Seq(Stages)
    BY WireListsTyped
  <2>3. ConfigTyped'
    <3>1. configuring' \in [Configurers -> ConduitCall]
      BY <2>1, <2>2 DEF ConfigTyped, ConduitCall
    <3>2. wires \o ws \in Seq(Stages)
      BY <2>2 DEF ConfigTyped
    <3> QED BY <2>1, <3>1, <3>2 DEF ConfigTyped
  <2>4. \A w \in ToSet(wires), t \in settings : t \in has'[w] \/ \E q \in Configurers : WillGive(q, w, t)'
    <3>1. \A w \in ToSet(wires), t \in settings : ~WillGive(p, w, t)
      BY <2>1 DEF WillGive
    <3>2. \A q \in Configurers : q # p => configuring'[q] = configuring[q]
      BY <2>1 DEF ConfigTyped
    <3> QED BY <2>1, <3>1, <3>2, OthersGive
  <2>5. \A w \in ToSet(ws), t \in settings : WillGive(p, w, t)'
    <3> SUFFICES ASSUME NEW w \in ToSet(ws), NEW t \in settings PROVE WillGive(p, w, t)'
      OBVIOUS
    <3>1. w = Head(ws) \/ w \in ToSet(Tail(ws))
      BY <2>1, <2>2, TailHolds
    <3>2. t \in Settings /\ configuring'[p] = [at |-> "attach", what |-> "none", todo |-> ws, kinds |-> Settings]
      BY <2>1 DEF ConfigTyped
    <3> QED BY <3>1, <3>2 DEF WillGive
  <2>6. ToSet(wires') = ToSet(wires) \cup ToSet(ws)
    BY <2>1, <2>2, ConcatHolds DEF ConfigTyped
  <2> QED BY <2>1, <2>3, <2>4, <2>5, <2>6 DEF SettingsInv
<1>5. ASSUME NEW p \in Configurers, NEW s \in Settings, AttachWire(p, s) PROVE ConfigTyped' /\ SettingsInv'
  <2> DEFINE call == configuring[p]
             h == Head(call.todo)
             next == configuring'[p]
  <2>1. call.at = "attach" /\ s \in call.kinds /\ UNCHANGED <<wires, settings>> /\ call \in ConduitCall /\ call.todo # <<>>
    BY <1>5 DEF AttachWire, ConfigTyped
  <2>2. h \in Stages /\ Tail(call.todo) \in Seq(Stages) /\ Len(call.todo) \in Nat \ {0} /\ Len(Tail(call.todo)) = Len(call.todo) - 1
    BY <2>1 DEF ConduitCall
  <2>t. Len(call.todo) > 1 => Tail(call.todo) # <<>>
    <3> DEFINE rest == Tail(call.todo)
               n == Len(call.todo)
    <3>1. rest \in Seq(Stages) /\ n \in Nat /\ Len(rest) = n - 1
      BY <2>2
    <3>2. n > 1 => rest # <<>>
      <4> HIDE DEF rest, n
      <4> QED BY <3>1
    <3> QED BY <3>2
  <2>3. \A w \in Stages : has'[w] = IF w = h /\ s \in settings THEN has[h] \cup {s} ELSE has[w]
    BY <1>5, <2>2 DEF AttachWire, ConfigTyped
  <2>4. has' \in [Stages -> SUBSET Settings]
    BY <1>5, <2>2 DEF AttachWire, ConfigTyped
  <2>5. \A q \in Configurers : q # p => configuring'[q] = configuring[q]
    BY <1>5 DEF AttachWire, ConfigTyped
  <2>6. /\ next.what = call.what /\ next \in ConduitCall
        /\ \/ call.kinds # {s} /\ next.at = "attach" /\ next.todo = call.todo /\ next.kinds = call.kinds \ {s}
           \/ call.kinds = {s} /\ Len(call.todo) > 1 /\ next.at = "attach" /\ next.kinds = Settings /\ next.todo = Tail(call.todo)
           \/ call.kinds = {s} /\ Len(call.todo) = 1 /\ next.at = "chain"
    <3>1. CASE call.kinds # {s}
      <4>1. next = [call EXCEPT !.kinds = call.kinds \ {s}]
        BY <1>5, <3>1 DEF AttachWire, ConfigTyped
      <4> QED BY <2>1, <3>1, <4>1 DEF ConduitCall
    <3>2. CASE call.kinds = {s} /\ Len(call.todo) > 1
      <4>1. next = [call EXCEPT !.kinds = Settings, !.todo = Tail(call.todo)]
        BY <1>5, <3>2 DEF AttachWire, ConfigTyped
      <4> QED BY <2>1, <2>2, <3>2, <4>1 DEF ConduitCall
    <3>3. CASE call.kinds = {s} /\ ~(Len(call.todo) > 1)
      <4>1. next = [call EXCEPT !.at = "chain"]
        BY <1>5, <3>3 DEF AttachWire, ConfigTyped
      <4>2. Len(call.todo) = 1
        <5> DEFINE n == Len(call.todo)
        <5>1. n \in Nat \ {0} /\ ~(n > 1)
          BY <2>2, <3>3
        <5> HIDE DEF n
        <5>2. n = 1
          BY <5>1
        <5> QED BY <5>2 DEF n
      <4> QED BY <2>1, <3>3, <4>1, <4>2 DEF ConduitCall
    <3> QED BY <3>1, <3>2, <3>3
  <2>7. ConfigTyped'
    <3>1. configuring' = [q \in Configurers |-> configuring'[q]]
      BY <1>5 DEF AttachWire, ConfigTyped
    <3>2. configuring' \in [Configurers -> ConduitCall]
      BY <2>5, <2>6, <3>1 DEF ConfigTyped
    <3>3. next.at = "attach" => next.todo # <<>>
      <4> HIDE DEF next, call
      <4> QED BY <2>1, <2>6, <2>t
    <3>4. next.at \notin {"snapshot", "each"}
      BY <2>6
    <3> QED BY <2>1, <2>4, <2>5, <3>2, <3>3, <3>4 DEF ConfigTyped
  <2>8. \A w \in ToSet(wires), t \in settings : WillGive(p, w, t) => t \in has'[w] \/ WillGive(p, w, t)'
    <3> SUFFICES ASSUME NEW w \in ToSet(wires), NEW t \in settings, WillGive(p, w, t), t \notin has'[w] PROVE WillGive(p, w, t)'
      OBVIOUS
    <3>1. w \in Stages /\ t \in Settings
      BY DEF ToSet, ConfigTyped
    <3>2. w \in ToSet(Tail(call.todo)) \/ (w = h /\ t \in call.kinds)
      BY <2>1 DEF WillGive
    <3>3. w = h => t # s
      BY <2>2, <2>3, <3>1
    <3>4. CASE call.kinds # {s} /\ next.at = "attach" /\ next.todo = call.todo /\ next.kinds = call.kinds \ {s}
      BY <3>2, <3>3, <3>4 DEF WillGive
    <3>5. CASE call.kinds = {s} /\ Len(call.todo) > 1 /\ next.at = "attach" /\ next.kinds = Settings /\ next.todo = Tail(call.todo)
      <4>1. w \in ToSet(Tail(call.todo))
        BY <3>2, <3>3, <3>5
      <4>2. Tail(call.todo) # <<>>
        BY <2>t, <3>5
      <4>3. w = Head(Tail(call.todo)) \/ w \in ToSet(Tail(Tail(call.todo)))
        BY <2>2, <4>1, <4>2, TailHolds
      <4> QED BY <3>1, <3>5, <4>3 DEF WillGive
    <3>6. CASE call.kinds = {s} /\ Len(call.todo) = 1
      <4>1. ToSet(Tail(call.todo)) = {}
        BY <2>2, <3>6 DEF ToSet
      <4> QED BY <3>2, <3>3, <3>6, <4>1
    <3> QED BY <2>6, <3>4, <3>5, <3>6
  <2>9. \A w \in ToSet(wires), t \in settings : t \in has[w] => t \in has'[w]
    BY <2>3 DEF ToSet, ConfigTyped
  <2> QED BY <2>1, <2>5, <2>7, <2>8, <2>9, OthersGive DEF SettingsInv
<1>6. ASSUME NEW p \in Configurers, ConnectWireReturns(p) PROVE ConfigTyped' /\ SettingsInv'
  <2>1. configuring' = [configuring EXCEPT ![p] = [at |-> "idle", what |-> "none", todo |-> <<>>, kinds |-> {}]]
        /\ UNCHANGED <<wires, settings, has>> /\ configuring[p].at = "chain"
    BY <1>6 DEF ConnectWireReturns, NoCall
  <2>2. ConfigTyped'
    BY <2>1 DEF ConfigTyped, ConduitCall
  <2>3. \A w \in ToSet(wires), t \in settings : ~WillGive(p, w, t)
    BY <2>1 DEF WillGive
  <2>4. \A q \in Configurers : q # p => configuring'[q] = configuring[q]
    BY <2>1 DEF ConfigTyped
  <2> QED BY <2>1, <2>2, <2>3, <2>4, OthersGive DEF SettingsInv
<1>7. CASE UNCHANGED <<wires, settings, has, configuring>>
  BY <1>7 DEF ConfigTyped, SettingsInv, WillGive
<1> QED BY <1>1, <1>2, <1>3, <1>4, <1>5, <1>6, <1>7
    DEF ConduitNext, NewConduit, StartConduit, StopConduit, StopWire, StopWaited, RestartConduit,
        SubmitElement, Forward, ForwarderEnds, WireWorks, WireDrops, configVars


LEMMA ChanFacts ==
    /\ \A w \in Stages, v \in Stages, m, n \in Nat : Chan(w, m) = Chan(v, n) => w = v /\ m = n
    /\ \A w \in Stages, m, n \in Nat : Chan(w, m) # Chan("conduit", n) /\ Chan(w, m) # NoChan /\ Chan("conduit", n) # NoChan
    /\ \A w \in Stages : Chan(w, 0) \in Channels /\ Chan(w, 1) \in Channels
    /\ \A n \in 0..MaxRestarts + 1 : Chan("conduit", n) \in Channels
    /\ \A w, n : Chan(w, n).of = w
<1>1. \A w, v, m, n : Chan(w, m) = Chan(v, n) => w = v /\ m = n
  BY DEF Chan
<1>2. "conduit" \notin Stages /\ "none" \notin Stages /\ "conduit" # "none"
  BY ConduitAssumption
<1>3. \A w \in Stages, m, n \in Nat : Chan(w, m) # Chan("conduit", n) /\ Chan(w, m) # Chan("none", 0) /\ Chan("conduit", n) # Chan("none", 0)
  <2> SUFFICES ASSUME NEW w \in Stages, NEW m \in Nat, NEW n \in Nat
               PROVE  Chan(w, m) # Chan("conduit", n) /\ Chan(w, m) # Chan("none", 0) /\ Chan("conduit", n) # Chan("none", 0)
    OBVIOUS
  <2>1. w # "conduit" /\ w # "none"
    BY <1>2
  <2> QED BY <1>1, <1>2, <2>1
<1>4. \A w \in Stages : Chan(w, 0) \in Channels /\ Chan(w, 1) \in Channels
  BY DEF Channels
<1>5. \A n \in 0..MaxRestarts + 1 : Chan("conduit", n) \in Channels
  BY DEF Channels
<1>6. \A w, n : Chan(w, n).of = w
  BY DEF Chan
<1> QED BY <1>1, <1>3, <1>4, <1>5, <1>6 DEF NoChan

LEMMA Open ==
    ASSUME PhasesInv, GraphInv, ClosedInv, NEW w \in Stages, w \notin ended, ConfigTyped
    PROVE  outChan[w] \notin closedChans
<1> SUFFICES ASSUME outChan[w] \in closedChans PROVE FALSE
  OBVIOUS
<1>1. CASE outChan[w] = Chan(w, 1)
  <2>1. ~\E v \in ended : Chan(w, 1) = Chan(v, 1)
    BY ChanFacts DEF ClosedInv
  <2>2. Chan(w, 1).of # "conduit"
    BY ChanFacts, ConduitAssumption
  <2> QED BY <1>1, <2>1, <2>2 DEF ClosedInv
<1>2. CASE w = wires[Len(wires)] /\ outChan[w] = conduitOut /\ conduitOut # NoChan
  <2>1. PICK n \in Nat : conduitOut = Chan("conduit", n)
    <3>1. chans \in 1..MaxRestarts + 1 /\ conduitOut = Chan("conduit", chans - 1)
      BY <1>2 DEF PhasesInv
    <3>2. chans - 1 \in Nat
      BY <3>1, ConduitAssumption
    <3> QED BY <3>1, <3>2
  <2>2. \A v \in ended : Chan("conduit", n) # Chan(v, 1)
    BY ChanFacts DEF ClosedInv
  <2> QED BY <1>2, <2>1, <2>2 DEF ClosedInv
<1> QED BY <1>1, <1>2 DEF GraphInv

\* chainWires links every wire to the one before it, whatever was linked already.
LEMMA Chaining ==
    ASSUME ConfigTyped, PhasesInv, GraphInv, ChainWires(wires, conduitOut'), wires' = wires,
           \/ conduitOut = NoChan /\ conduitOut' = NoChan
           \/ \E n \in 0..MaxRestarts + 1 : conduitOut' = Chan("conduit", n)
    PROVE  /\ GraphInv'
           /\ \A i \in 2..Len(wires) : wireIn'[wires[i]] = Chan(wires[i - 1], 1)
           /\ conduitOut' # NoChan /\ wires # <<>> => outChan'[wires[Len(wires)]] = conduitOut'
<1>1. Len(wires) \in Nat /\ (\A i \in 1..Len(wires) : wires[i] \in Stages)
      /\ (\A i, j \in 1..Len(wires) : wires[i] = wires[j] => i = j)
  BY DEF ConfigTyped, PhasesInv
<1>2. \A i \in 2..Len(wires) : outChan[wires[i - 1]] = Chan(wires[i - 1], 1)
  <2> SUFFICES ASSUME NEW i \in 2..Len(wires) PROVE outChan[wires[i - 1]] = Chan(wires[i - 1], 1)
    OBVIOUS
  <2>1. i - 1 \in 1..Len(wires) /\ Len(wires) \in 1..Len(wires) /\ i - 1 # Len(wires)
    BY <1>1
  <2>2. wires[i - 1] # wires[Len(wires)] /\ wires[i - 1] \in Stages
    BY <1>1, <2>1
  <2> QED BY <2>2 DEF GraphInv
<1>3. \A i \in 2..Len(wires) : wireIn'[wires[i]] = Chan(wires[i - 1], 1)
  <2> SUFFICES ASSUME NEW i \in 2..Len(wires) PROVE wireIn'[wires[i]] = Chan(wires[i - 1], 1)
    OBVIOUS
  <2> DEFINE k == CHOOSE j \in 2..Len(wires) : wires[j] = wires[i]
  <2>1. k \in 2..Len(wires) /\ wires[k] = wires[i]
    OBVIOUS
  <2>2. k = i
    BY <1>1, <2>1
  <2>3. wires[i] \in Stages
    BY <1>1
  <2>4. wireIn'[wires[i]] = outChan[wires[k - 1]]
    BY <2>3 DEF ChainWires
  <2> QED BY <1>2, <2>2, <2>4
<1>4. \A w \in Stages : (\A i \in 2..Len(wires) : wires[i] # w) => wireIn'[w] = wireIn[w]
  BY DEF ChainWires
<1>5. \A w \in Stages : \/ wireIn'[w] = Chan(w, 0)
                        \/ \E i \in 2..Len(wires) : w = wires[i] /\ wireIn'[w] = Chan(wires[i - 1], 1)
  <2> SUFFICES ASSUME NEW w \in Stages
               PROVE  \/ wireIn'[w] = Chan(w, 0)
                      \/ \E i \in 2..Len(wires) : w = wires[i] /\ wireIn'[w] = Chan(wires[i - 1], 1)
    OBVIOUS
  <2>1. CASE \E i \in 2..Len(wires) : wires[i] = w
    BY <1>3, <2>1
  <2>2. CASE \A i \in 2..Len(wires) : wires[i] # w
    BY <1>4, <2>2 DEF GraphInv
  <2> QED BY <2>1, <2>2
<1>6. wireIn' \in [Stages -> Channels]
  <2>1. \A w \in Stages : wireIn'[w] \in Channels
    <3>1. \A i \in 2..Len(wires) : wires[i - 1] \in Stages
      BY <1>1
    <3> QED BY <1>5, <3>1, ChanFacts
  <2>2. wireIn' = [w \in Stages |-> wireIn'[w]]
    BY DEF ChainWires
  <2> QED BY <2>1, <2>2
<1>7. CASE wires # <<>> /\ conduitOut' # NoChan
  <2>1. PICK n \in 0..MaxRestarts + 1 : conduitOut' = Chan("conduit", n)
    BY <1>7
  <2>2. outChan' = [outChan EXCEPT ![wires[Len(wires)]] = conduitOut'] /\ wires[Len(wires)] \in Stages
    <3>1. Len(wires) \in 1..Len(wires)
      BY <1>7 DEF ConfigTyped
    <3> QED BY <1>1, <1>7, <3>1 DEF ChainWires, Last
  <2>3. conduitOut' \in Channels
    BY <2>1, ChanFacts
  <2>4. outChan' \in [Stages -> Channels]
    BY <2>2, <2>3 DEF GraphInv
  <2>5. \A w \in Stages : outChan'[w] = IF w = wires[Len(wires)] THEN conduitOut' ELSE outChan[w]
    BY <2>2 DEF GraphInv
  <2>6. \A w \in Stages : outChan'[w] = Chan(w, 1) \/ (w = wires[Len(wires)] /\ outChan'[w] = conduitOut')
    BY <2>5 DEF GraphInv
  <2>7. GraphInv'
    BY <1>5, <1>6, <1>7, <2>4, <2>6 DEF GraphInv
  <2> QED BY <1>3, <2>2, <2>5, <2>7
<1>8. CASE ~(wires # <<>> /\ conduitOut' # NoChan)
  <2>1. outChan' = outChan
    BY <1>8 DEF ChainWires
  <2>2. wires # <<>> => conduitOut' = NoChan /\ conduitOut = NoChan
    <3>1. \A n \in 0..MaxRestarts + 1 : Chan("conduit", n) # NoChan
      BY DEF Chan, NoChan
    <3> QED BY <1>8, <3>1
  <2>3. \A w \in Stages : outChan[w] = Chan(w, 1)
    BY <2>2 DEF GraphInv
  <2>4. GraphInv'
    BY <1>5, <1>6, <2>1, <2>3 DEF GraphInv
  <2> QED BY <1>3, <1>8, <2>4
<1> QED BY <1>7, <1>8

\* A call that passes settings on, or attaches wires, may give the conduit its output.
LEMMA ConfigStep ==
    ASSUME ConfigTyped, FlowInv, Configurable, UNCHANGED <<wires, wireIn, outChan, flowVars, lifeVars>>,
           \/ UNCHANGED <<conduitOut, chans>>
           \/ conduitOut = NoChan /\ conduitOut' = Chan("conduit", chans) /\ chans' = chans + 1,
           (\A p \in Configurers : configuring'[p].at \notin {"attach", "chain"})
             => \A p \in Configurers : configuring[p].at \notin {"attach", "chain"}
    PROVE  FlowInv'
<1>1. UNCHANGED <<wires, wireIn, outChan, conduitQueued, submitted, delivered, conduit, closedChans, alive, ended,
                  toStop, forwarder, conduitPanic>>
  BY DEF flowVars, lifeVars
<1>2. (conduitOut # NoChan => UNCHANGED <<conduitOut, chans>>) /\ Configurable'
  BY <1>1 DEF Configurable
<1>3. PhasesInv'
  <2>1. CASE UNCHANGED <<conduitOut, chans>>
    BY <1>1, <1>2, <2>1 DEF FlowInv, PhasesInv
  <2>2. CASE conduitOut = NoChan /\ conduitOut' = Chan("conduit", chans) /\ chans' = chans + 1
    <3>1. chans = 0
      <4>1. \A n \in Nat : Chan("conduit", n) # NoChan
        BY DEF Chan, NoChan
      <4> QED BY <2>2, <4>1, ConduitAssumption DEF FlowInv, PhasesInv
    <3>2. chans' \in 1..MaxRestarts + 1 /\ conduitOut' = Chan("conduit", chans' - 1) /\ conduitOut' # NoChan
      BY <2>2, <3>1, ConduitAssumption DEF Chan, NoChan
    <3> QED BY <1>1, <1>2, <3>2 DEF FlowInv, PhasesInv
  <2> QED BY <2>1, <2>2
<1>4. GraphInv'
  BY <1>1, <1>2 DEF FlowInv, GraphInv
<1>5. LinkedInv'
  <2>1. conduit # "building" => conduitOut' = conduitOut
    BY <1>2 DEF FlowInv, PhasesInv
  <2> QED BY <1>1, <2>1 DEF FlowInv, LinkedInv, Linked
<1>6. PassedInv'
  BY <1>1, <1>2 DEF FlowInv, PassedInv, Configurable
<1>7. ClosedInv'
  BY <1>1 DEF FlowInv, ClosedInv
<1> QED BY <1>3, <1>4, <1>5, <1>6, <1>7 DEF FlowInv

LEMMA ConfigFlow ==
    ASSUME ConfigTyped, FlowInv, NEW p \in Configurers,
           \/ \E s \in Settings : ConnectSetting(p, s) \/ AttachWire(p, s)
           \/ SnapshotWires(p) \/ ApplySetting(p)
    PROVE  FlowInv'
<1>1. ASSUME NEW s \in Settings, ConnectSetting(p, s) PROVE FlowInv'
  <2>1. Configurable /\ UNCHANGED <<wires, wireIn, outChan, flowVars, lifeVars>> /\ configuring[p].at = "idle"
    BY <1>1 DEF ConnectSetting, MayCall
  <2>2. \/ UNCHANGED <<conduitOut, chans>>
        \/ conduitOut = NoChan /\ conduitOut' = Chan("conduit", chans) /\ chans' = chans + 1
    BY <1>1 DEF ConnectSetting, EnsureDefaults
  <2>3. \A q \in Configurers : q # p => configuring'[q] = configuring[q]
    BY <1>1 DEF ConnectSetting, ConfigTyped
  <2> QED BY <2>1, <2>2, <2>3, ConfigStep
<1>2. ASSUME NEW s \in Settings, AttachWire(p, s) PROVE FlowInv'
  <2>1. configuring[p].at = "attach" /\ UNCHANGED <<wires, wireIn, outChan, conduitOut, chans, flowVars, lifeVars>>
    BY <1>2 DEF AttachWire
  <2>2. Configurable
    BY <2>1 DEF FlowInv, PhasesInv, NoCallInFlight
  <2>3. configuring'[p].at \in {"attach", "chain"}
    BY <1>2, <2>1 DEF AttachWire, ConfigTyped, ConduitCall
  <2> QED BY <2>1, <2>2, <2>3, ConfigStep
<1>3. CASE SnapshotWires(p)
  <2>1. configuring[p].at = "snapshot" /\ UNCHANGED <<wires, wireIn, outChan, conduitOut, chans, flowVars, lifeVars>>
    BY <1>3 DEF SnapshotWires
  <2>2. Configurable
    BY <2>1 DEF FlowInv, PhasesInv, NoCallInFlight
  <2>3. \A q \in Configurers : q # p => configuring'[q] = configuring[q]
    BY <1>3 DEF SnapshotWires, ConfigTyped
  <2> QED BY <2>1, <2>2, <2>3, ConfigStep
<1>4. CASE ApplySetting(p)
  <2>1. configuring[p].at = "each" /\ UNCHANGED <<wires, wireIn, outChan, conduitOut, chans, flowVars, lifeVars>>
    BY <1>4 DEF ApplySetting
  <2>2. Configurable
    BY <2>1 DEF FlowInv, PhasesInv, NoCallInFlight
  <2>3. \A q \in Configurers : q # p => configuring'[q] = configuring[q]
    BY <1>4 DEF ApplySetting, ConfigTyped
  <2> QED BY <2>1, <2>2, <2>3, ConfigStep
<1> QED BY <1>1, <1>2, <1>3, <1>4

LEMMA ConnectWireFlow ==
    ASSUME ConfigTyped, FlowInv, NEW p \in Configurers, NEW ws \in WireLists, ConnectWire(p, ws),
           \A w \in ToSet(wires) : outChan[w] # conduitOut
    PROVE  FlowInv'
<1>1. /\ ws \in Seq(Stages) /\ \A i, j \in 1..Len(ws) : ws[i] = ws[j] => i = j
      /\ wires' = wires \o ws /\ ws # <<>> /\ ToSet(ws) \cap ToSet(wires) = {} /\ Configurable
      /\ UNCHANGED <<wireIn, outChan, conduitOut, chans>>
      /\ UNCHANGED <<conduitQueued, submitted, delivered, conduit, closedChans, alive, ended, toStop, forwarder, conduitPanic>>
  BY WireListsTyped DEF ConnectWire, MayCall, flowVars, lifeVars, IsInjective
<1>2. /\ wires \in Seq(Stages) /\ Len(wires) \in Nat /\ Len(ws) \in Nat /\ Len(wires') = Len(wires) + Len(ws)
      /\ \A i \in 1..Len(wires) : wires'[i] = wires[i] /\ wires[i] \in Stages /\ wires[i] \in ToSet(wires)
      /\ \A i \in 1..Len(ws) : wires'[Len(wires) + i] = ws[i] /\ ws[i] \in ToSet(ws)
  BY <1>1 DEF ConfigTyped, ToSet
<1>3. PhasesInv'
  <2>1. \A i, j \in 1..Len(wires') : wires'[i] = wires'[j] => i = j
    <3> SUFFICES ASSUME NEW i \in 1..Len(wires'), NEW j \in 1..Len(wires'), wires'[i] = wires'[j] PROVE i = j
      OBVIOUS
    <3>1. ASSUME NEW k \in 1..Len(wires')
          PROVE  k \in 1..Len(wires) \/ (k - Len(wires) \in 1..Len(ws) /\ wires'[k] = ws[k - Len(wires)])
      <4>1. CASE k > Len(wires)
        <5>1. k - Len(wires) \in 1..Len(ws) /\ Len(wires) + (k - Len(wires)) = k
          BY <1>2, <4>1
        <5> QED BY <1>2, <5>1
      <4>2. CASE ~(k > Len(wires))
        <5>1. k \in Nat /\ k >= 1 /\ Len(wires) \in Nat
          BY <1>2
        <5>2. k \in 1..Len(wires)
          BY <4>2, <5>1
        <5> QED BY <5>2
      <4> QED BY <4>1, <4>2
    <3>2. CASE i \in 1..Len(wires) /\ j \in 1..Len(wires)
      BY <1>2, <3>2 DEF FlowInv, PhasesInv
    <3>3. CASE i \in 1..Len(wires) /\ j \notin 1..Len(wires)
      BY <1>1, <1>2, <3>1, <3>3
    <3>4. CASE i \notin 1..Len(wires) /\ j \in 1..Len(wires)
      BY <1>1, <1>2, <3>1, <3>4
    <3>5. CASE i \notin 1..Len(wires) /\ j \notin 1..Len(wires)
      <4>1. i - Len(wires) = j - Len(wires)
        <5> DEFINE a == i - Len(wires)
                   b == j - Len(wires)
        <5>1. a \in 1..Len(ws) /\ b \in 1..Len(ws) /\ ws[a] = ws[b]
          BY <3>1, <3>5
        <5> HIDE DEF a, b
        <5>2. a = b
          BY <1>1, <5>1
        <5> QED BY <5>2 DEF a, b
      <4> QED BY <1>2, <4>1
    <3> QED BY <3>2, <3>3, <3>4, <3>5
  <2> QED BY <1>1, <2>1 DEF FlowInv, PhasesInv, Configurable
<1>4. GraphInv'
  <2>1. \A w \in Stages : outChan[w] = Chan(w, 1)
    <3>1. wires # <<>> => wires[Len(wires)] \in ToSet(wires)
      BY <1>2
    <3> QED BY <3>1 DEF FlowInv, GraphInv
  <2>2. ASSUME NEW i \in 2..Len(wires) PROVE i \in 2..Len(wires') /\ wires'[i] = wires[i] /\ wires'[i - 1] = wires[i - 1]
    <3>1. i \in 1..Len(wires) /\ i - 1 \in 1..Len(wires) /\ i \in 2..Len(wires) + Len(ws)
      BY <1>2
    <3> QED BY <1>2, <3>1
  <2>3. \A w \in Stages : \/ wireIn[w] = Chan(w, 0)
                          \/ \E i \in 2..Len(wires') : w = wires'[i] /\ wireIn[w] = Chan(wires'[i - 1], 1)
    BY <2>2 DEF FlowInv, GraphInv
  <2>4. outChan' \in [Stages -> Channels] /\ wireIn' \in [Stages -> Channels] /\ wireIn' = wireIn /\ outChan' = outChan
    BY <1>1 DEF FlowInv, GraphInv
  <2> QED BY <2>1, <2>3, <2>4 DEF GraphInv
<1>5. LinkedInv'
  <2>1. configuring'[p].at = "attach"
    <3> DEFINE call == [NoCall EXCEPT !.at = "attach", !.todo = ws, !.kinds = Settings]
    <3>1. configuring' = [configuring EXCEPT ![p] = call]
      BY DEF ConnectWire
    <3>2. call.at = "attach"
      BY NewCalls
    <3> HIDE DEF call
    <3> QED BY <3>1, <3>2 DEF ConfigTyped
  <2> QED BY <2>1 DEF LinkedInv
<1>6. PassedInv'
  <2>1. (\A ch \in Channels : conduitQueued'[ch] = <<>>) /\ closedChans' = {} /\ delivered' = {}
    BY <1>1 DEF FlowInv, PassedInv
  <2>2. conduitQueued' \in [Channels -> Seq(Seq(Stages))]
    BY <1>1 DEF FlowInv, PassedInv
  <2>3. \A ch \in Channels : 1..Len(conduitQueued'[ch]) = {}
    BY <2>1
  <2> QED BY <2>1, <2>2, <2>3 DEF PassedInv
<1>7. ClosedInv'
  <2>1. closedChans' = {}
    BY <1>1 DEF FlowInv, PassedInv
  <2> QED BY <1>1, <2>1 DEF FlowInv, ClosedInv
<1> QED BY <1>3, <1>4, <1>5, <1>6, <1>7 DEF FlowInv

LEMMA ReturnsFlow ==
    ASSUME ConfigTyped, FlowInv, NEW p \in Configurers, ConnectWireReturns(p)
    PROVE  FlowInv'
<1>1. /\ configuring[p].at = "chain" /\ ChainWires(wires, conduitOut) /\ UNCHANGED <<wires, conduitOut, chans>>
      /\ UNCHANGED <<conduitQueued, submitted, delivered, conduit, closedChans, alive, ended, toStop, forwarder, conduitPanic>>
  BY DEF ConnectWireReturns, flowVars, lifeVars
<1>2. Configurable /\ PhasesInv /\ GraphInv
  BY <1>1 DEF FlowInv, PhasesInv, NoCallInFlight
<1>3. PhasesInv'
  BY <1>1, <1>2 DEF PhasesInv, Configurable
<1>4. ChainWires(wires, conduitOut')
  BY <1>1
<1>5. \/ conduitOut = NoChan /\ conduitOut' = NoChan
      \/ \E n \in 0..MaxRestarts + 1 : conduitOut' = Chan("conduit", n)
  <2>1. CASE chans \in 1..MaxRestarts + 1 /\ conduitOut = Chan("conduit", chans - 1)
    <3>1. chans - 1 \in 0..MaxRestarts + 1
      BY <2>1, ConduitAssumption
    <3> QED BY <1>1, <2>1, <3>1
  <2> QED BY <1>1, <1>2, <2>1 DEF PhasesInv
<1>6. /\ GraphInv'
      /\ \A i \in 2..Len(wires) : wireIn'[wires[i]] = Chan(wires[i - 1], 1)
      /\ conduitOut' # NoChan /\ wires # <<>> => outChan'[wires[Len(wires)]] = conduitOut'
  BY <1>1, <1>2, <1>4, <1>5, Chaining
<1>7. LinkedInv'
  BY <1>1, <1>3, <1>6 DEF LinkedInv, Linked, PhasesInv
<1>8. PassedInv'
  BY <1>1 DEF FlowInv, PassedInv, Configurable
<1>9. ClosedInv'
  BY <1>1 DEF FlowInv, ClosedInv
<1> QED BY <1>3, <1>6, <1>7, <1>8, <1>9 DEF FlowInv

LEMMA NewConduitFlow ==
    ASSUME ConfigTyped, FlowInv, NewConduit
    PROVE  FlowInv'
<1>1. /\ conduit = "building" /\ conduit' = "ready" /\ NoCallInFlight /\ ChainWires(wires, conduitOut') /\ EnsureDefaults
      /\ UNCHANGED <<wires, configuring>>
      /\ UNCHANGED <<conduitQueued, submitted, delivered, closedChans, alive, ended, toStop, forwarder, conduitPanic>>
  BY DEF NewConduit, flowVars
<1>2. Configurable /\ Configurable' /\ PhasesInv /\ GraphInv
  BY <1>1 DEF FlowInv, Configurable
<1>3. chans' \in 1..MaxRestarts + 1 /\ conduitOut' = Chan("conduit", chans' - 1) /\ conduitOut' # NoChan
  <2>1. CASE conduitOut = NoChan
    <3>1. chans = 0
      <4>1. \A n \in Nat : Chan("conduit", n) # NoChan
        BY DEF Chan, NoChan
      <4> QED BY <1>2, <2>1, <4>1, ConduitAssumption DEF PhasesInv
    <3>2. chans' = 1 /\ conduitOut' = Chan("conduit", 0)
      BY <1>1, <2>1, <3>1 DEF EnsureDefaults
    <3> QED BY <3>2, ConduitAssumption DEF Chan, NoChan
  <2>2. CASE conduitOut # NoChan
    BY <1>1, <1>2, <2>2 DEF EnsureDefaults, PhasesInv
  <2> QED BY <2>1, <2>2
<1>4. PhasesInv'
  BY <1>1, <1>2, <1>3 DEF PhasesInv
<1>5. \E n \in 0..MaxRestarts + 1 : conduitOut' = Chan("conduit", n)
  <2>1. chans' - 1 \in 0..MaxRestarts + 1
    <3>1. \A c \in 1..MaxRestarts + 1 : c - 1 \in 0..MaxRestarts + 1
      BY ConduitAssumption
    <3> QED BY <1>3, <3>1
  <2> QED BY <1>3, <2>1
<1>6. /\ GraphInv'
      /\ \A i \in 2..Len(wires) : wireIn'[wires[i]] = Chan(wires[i - 1], 1)
      /\ conduitOut' # NoChan /\ wires # <<>> => outChan'[wires[Len(wires)]] = conduitOut'
  BY <1>1, <1>2, <1>5, Chaining
<1>7. LinkedInv'
  BY <1>1, <1>3, <1>6 DEF LinkedInv, Linked
<1>8. PassedInv'
  BY <1>1, <1>2 DEF FlowInv, PassedInv
<1>9. ClosedInv'
  BY <1>1 DEF FlowInv, ClosedInv
<1> QED BY <1>4, <1>6, <1>7, <1>8, <1>9 DEF FlowInv

LEMMA RestartFlow ==
    ASSUME ConfigTyped, FlowInv, RestartConduit
    PROVE  FlowInv'
<1>1. /\ conduit = "stopped" /\ conduit' = "run" /\ chans <= MaxRestarts /\ ChainWires(wires, conduitOut')
      /\ conduitOut' = Chan("conduit", chans) /\ chans' = chans + 1 /\ UNCHANGED <<wires, configuring>>
      /\ UNCHANGED <<conduitQueued, submitted, delivered, closedChans, alive, ended, toStop, conduitPanic>>
  BY DEF RestartConduit, flowVars
<1>2. ~Configurable /\ ~Configurable' /\ PhasesInv /\ GraphInv /\ NoCallInFlight /\ NoCallInFlight' /\ conduitOut # NoChan /\ wires # <<>>
  BY <1>1 DEF FlowInv, Configurable, PhasesInv, NoCallInFlight
<1>3. chans \in 1..MaxRestarts
  BY <1>1, <1>2, ConduitAssumption DEF PhasesInv
<1>4. chans' \in 1..MaxRestarts + 1 /\ conduitOut' = Chan("conduit", chans' - 1) /\ conduitOut' # NoChan
  <2>1. chans' - 1 = chans /\ chans' \in 1..MaxRestarts + 1
    BY <1>1, <1>3, ConduitAssumption
  <2>2. Chan("conduit", chans) # NoChan
    BY DEF Chan, NoChan
  <2> QED BY <1>1, <2>1, <2>2
<1>5. PhasesInv'
  BY <1>1, <1>2, <1>4 DEF PhasesInv
<1>6. \E n \in 0..MaxRestarts + 1 : conduitOut' = Chan("conduit", n)
  <2>1. chans \in 0..MaxRestarts + 1
    BY <1>3, ConduitAssumption
  <2> QED BY <1>1, <2>1
<1>7. /\ GraphInv'
      /\ \A i \in 2..Len(wires) : wireIn'[wires[i]] = Chan(wires[i - 1], 1)
      /\ conduitOut' # NoChan /\ wires # <<>> => outChan'[wires[Len(wires)]] = conduitOut'
  BY <1>1, <1>2, <1>6, Chaining
<1>8. LinkedInv'
  BY <1>1, <1>2, <1>4, <1>7 DEF LinkedInv, Linked
<1>9. PassedInv'
  BY <1>1, <1>2 DEF FlowInv, PassedInv
<1>10. ClosedInv'
  BY <1>1 DEF FlowInv, ClosedInv
<1> QED BY <1>5, <1>7, <1>8, <1>9, <1>10 DEF FlowInv

\* Start, Stop and the end of the forwarder leave the channels as they are.
LEMMA LifeFlow ==
    ASSUME ConfigTyped, FlowInv, StartConduit \/ StopConduit \/ StopWaited \/ ForwarderEnds
    PROVE  FlowInv'
<1>1. /\ UNCHANGED <<wires, settings, has, configuring, wireIn, outChan, conduitOut, chans, joinedLate>>
      /\ UNCHANGED <<conduitQueued, submitted, delivered, closedChans, alive, ended, conduitPanic>>
  BY DEF StartConduit, StopConduit, StopWaited, ForwarderEnds, configVars, flowVars
<1>2. /\ conduit' \in {"building", "ready", "run", "stopping", "stopped"}
      /\ conduit' = "building" <=> conduit = "building"
      /\ Configurable' => Configurable
      /\ ~Configurable' => NoCallInFlight /\ wires # <<>>
      /\ Configurable' => forwarder' # "run"
      /\ toStop' \in Seq(Stages)
  BY <1>1 DEF StartConduit, StopConduit, StopWaited, ForwarderEnds, Configurable, FlowInv, PhasesInv, ConfigTyped
<1>3. PhasesInv'
  BY <1>1, <1>2 DEF FlowInv, PhasesInv, NoCallInFlight
<1>4. GraphInv' /\ LinkedInv'
  BY <1>1, <1>2 DEF FlowInv, GraphInv, LinkedInv, Linked
<1>5. PassedInv' /\ ClosedInv'
  BY <1>1, <1>2 DEF FlowInv, PassedInv, ClosedInv
<1> QED BY <1>3, <1>4, <1>5 DEF FlowInv

LEMMA StopWireFlow ==
    ASSUME ConfigTyped, FlowInv, StopWire
    PROVE  FlowInv'
<1> DEFINE w == Head(toStop)
<1>1. /\ UNCHANGED <<wires, settings, has, configuring, wireIn, outChan, conduitOut, chans, joinedLate>>
      /\ UNCHANGED <<conduitQueued, submitted, delivered, conduit, forwarder>>
      /\ conduit = "stopping" /\ toStop # <<>> /\ toStop' = Tail(toStop)
      /\ alive' = alive \ {w} /\ ended' = ended \cup {w}
      /\ IF w \in ended THEN UNCHANGED <<closedChans, conduitPanic>>
         ELSE /\ closedChans' = closedChans \cup {outChan[w]}
              /\ conduitPanic' = (conduitPanic \/ outChan[w] \in closedChans)
  BY DEF StopWire, configVars, flowVars
<1>2. w \in Stages /\ toStop' \in Seq(Stages) /\ ~Configurable /\ ~Configurable'
  BY <1>1 DEF FlowInv, PhasesInv, Configurable
<1>3. PhasesInv'
  BY <1>1, <1>2 DEF FlowInv, PhasesInv, NoCallInFlight
<1>4. GraphInv' /\ LinkedInv'
  BY <1>1 DEF FlowInv, GraphInv, LinkedInv, Linked
<1>5. PassedInv'
  BY <1>1, <1>2 DEF FlowInv, PassedInv
<1>6. ClosedInv'
  <2>1. alive' = Stages \ ended' /\ ended' \subseteq Stages
    BY <1>1, <1>2 DEF FlowInv, ClosedInv
  <2>2. CASE w \in ended
    BY <1>1, <2>1, <2>2 DEF FlowInv, ClosedInv
  <2>3. CASE w \notin ended
    <3>1. outChan[w] \notin closedChans
      BY <1>2, <2>3, Open DEF FlowInv
    <3>2. ~conduitPanic'
      <4>1. ~conduitPanic
        BY DEF FlowInv, ClosedInv
      <4>2. conduitPanic' = (conduitPanic \/ outChan[w] \in closedChans)
        BY <1>1, <2>3
      <4> HIDE DEF w
      <4> QED BY ZenonT(20), <3>1, <4>1, <4>2
    <3>3. (\E v \in ended' : outChan[w] = Chan(v, 1)) \/ (outChan[w].of = "conduit" /\ wires[Len(wires)] \in ended')
      <4>1. CASE outChan[w] = Chan(w, 1)
        BY <1>1, <4>1
      <4>2. CASE w = wires[Len(wires)] /\ outChan[w] = conduitOut /\ conduitOut # NoChan
        <5>1. conduitOut.of = "conduit"
          BY <4>2, ChanFacts DEF FlowInv, PhasesInv
        <5> QED BY <1>1, <4>2, <5>1
      <4> QED BY <1>2, <4>1, <4>2 DEF FlowInv, GraphInv
    <3>4. closedChans' = closedChans \cup {outChan[w]} /\ wires' = wires /\ ended \subseteq ended'
      BY <1>1, <2>3
    <3>5. \A ch \in closedChans' : (\E v \in ended' : ch = Chan(v, 1)) \/ (ch.of = "conduit" /\ wires'[Len(wires')] \in ended')
      BY <3>3, <3>4 DEF FlowInv, ClosedInv
    <3> QED BY <2>1, <3>2, <3>5 DEF ClosedInv
  <2> QED BY <2>2, <2>3
<1> QED BY <1>3, <1>4, <1>5, <1>6 DEF FlowInv

\* What may be in a channel.
Fits(ch, elem) ==
    \/ ch = Chan(wires[1], 0) /\ elem = <<>>
    \/ \E i \in 1..Len(wires) : ch = Chan(wires[i], 1) /\ elem = SubSeq(wires, 1, i)
    \/ ch.of = "conduit" /\ elem = wires

LEMMA Taking ==
    ASSUME NEW S, NEW q \in Seq(S), q # <<>>
    PROVE  /\ Tail(q) \in Seq(S) /\ Head(q) = q[1] /\ 1 \in 1..Len(q)
           /\ \A k \in 1..Len(Tail(q)) : \E l \in 1..Len(q) : Tail(q)[k] = q[l]
<1>1. Len(q) \in Nat \ {0} /\ Len(Tail(q)) = Len(q) - 1 /\ Tail(q) \in Seq(S)
  OBVIOUS
<1>2. ASSUME NEW k \in 1..Len(Tail(q)) PROVE \E l \in 1..Len(q) : Tail(q)[k] = q[l]
  <2>1. k + 1 \in 1..Len(q) /\ Tail(q)[k] = q[k + 1]
    BY <1>1
  <2> QED BY <2>1
<1> QED BY <1>1, <1>2

LEMMA Putting ==
    ASSUME NEW S, NEW q \in Seq(S), NEW e \in S
    PROVE  /\ Append(q, e) \in Seq(S)
           /\ \A k \in 1..Len(Append(q, e)) : Append(q, e)[k] = e \/ \E l \in 1..Len(q) : Append(q, e)[k] = q[l]
<1>1. Len(q) \in Nat /\ Len(Append(q, e)) = Len(q) + 1 /\ Append(q, e) \in Seq(S)
  OBVIOUS
<1>2. ASSUME NEW k \in 1..Len(Append(q, e)), Append(q, e)[k] # e PROVE \E l \in 1..Len(q) : Append(q, e)[k] = q[l]
  <2>1. k # Len(q) + 1
    BY <1>2
  <2>2. k \in 1..Len(q) /\ Append(q, e)[k] = q[k]
    BY <1>1, <2>1
  <2> QED BY <2>2
<1> QED BY <1>1, <1>2

LEMMA FirstPassed ==
    ASSUME NEW ws \in Seq(Stages), ws # <<>>
    PROVE  Append(<<>>, ws[1]) = SubSeq(ws, 1, 1) /\ Append(<<>>, ws[1]) \in Seq(Stages)
  OBVIOUS

LEMMA NextPassed ==
    ASSUME NEW ws \in Seq(Stages), NEW i \in 2..Len(ws)
    PROVE  Append(SubSeq(ws, 1, i - 1), ws[i]) = SubSeq(ws, 1, i) /\ Append(SubSeq(ws, 1, i - 1), ws[i]) \in Seq(Stages)
  OBVIOUS

LEMMA AllPassed == ASSUME NEW ws \in Seq(Stages) PROVE SubSeq(ws, 1, Len(ws)) = ws
  OBVIOUS

\* A step that takes from a channel, puts into one, or both.
LEMMA ElementsFit ==
    ASSUME ConfigTyped, FlowInv, ~Configurable,
           UNCHANGED <<wires, settings, has, configuring, wireIn, outChan, conduitOut, chans, joinedLate>>,
           UNCHANGED <<conduit, closedChans, alive, ended, toStop, forwarder, conduitPanic>>,
           conduitQueued' \in [Channels -> Seq(Seq(Stages))],
           \A ch \in Channels : \A k \in 1..Len(conduitQueued'[ch]) :
               Fits(ch, conduitQueued'[ch][k]) \/ \E l \in 1..Len(conduitQueued[ch]) : conduitQueued'[ch][k] = conduitQueued[ch][l],
           \A elem \in delivered' : elem = wires
    PROVE  FlowInv'
<1>1. ~Configurable'
  BY DEF Configurable
<1>2. \A ch \in Channels : \A k \in 1..Len(conduitQueued'[ch]) : Fits(ch, conduitQueued'[ch][k])
  <2>1. \A ch \in Channels : \A l \in 1..Len(conduitQueued[ch]) : Fits(ch, conduitQueued[ch][l])
    BY DEF FlowInv, PassedInv, Fits
  <2> QED BY <2>1
<1>3. PassedInv'
  BY <1>1, <1>2 DEF PassedInv, Fits
<1>4. PhasesInv' /\ GraphInv'
  BY <1>1 DEF FlowInv, PhasesInv, GraphInv, NoCallInFlight
<1>5. LinkedInv' /\ ClosedInv'
  BY DEF FlowInv, LinkedInv, Linked, ClosedInv
<1> QED BY <1>3, <1>4, <1>5 DEF FlowInv

LEMMA ElementPut ==
    ASSUME ConfigTyped, FlowInv, ~Configurable,
           UNCHANGED <<wires, settings, has, configuring, wireIn, outChan, conduitOut, chans, joinedLate>>,
           UNCHANGED <<conduit, closedChans, alive, ended, toStop, forwarder, conduitPanic>>, delivered' = delivered,
           NEW ch \in Channels, NEW elem \in Seq(Stages), Fits(ch, elem), NEW rest \in [Channels -> Seq(Seq(Stages))],
           \A c \in Channels : \A k \in 1..Len(rest[c]) : \E l \in 1..Len(conduitQueued[c]) : rest[c][k] = conduitQueued[c][l],
           conduitQueued' = [rest EXCEPT ![ch] = Append(rest[ch], elem)]
    PROVE  FlowInv'
<1>1. \A e \in delivered : e = wires
  BY DEF FlowInv, PassedInv
<1>2. conduitQueued' \in [Channels -> Seq(Seq(Stages))]
  BY Putting
<1>3. \A c \in Channels : conduitQueued'[c] = IF c = ch THEN Append(rest[ch], elem) ELSE rest[c]
  OBVIOUS
<1>4. \A c \in Channels : \A k \in 1..Len(conduitQueued'[c]) :
          Fits(c, conduitQueued'[c][k]) \/ \E l \in 1..Len(conduitQueued[c]) : conduitQueued'[c][k] = conduitQueued[c][l]
  <2> SUFFICES ASSUME NEW c \in Channels, NEW k \in 1..Len(conduitQueued'[c])
               PROVE  Fits(c, conduitQueued'[c][k]) \/ \E l \in 1..Len(conduitQueued[c]) : conduitQueued'[c][k] = conduitQueued[c][l]
    OBVIOUS
  <2>1. CASE c = ch
    <3>1. conduitQueued'[c] = Append(rest[ch], elem) /\ rest[ch] \in Seq(Seq(Stages))
      BY <1>3, <2>1
    <3>2. conduitQueued'[c][k] = elem \/ \E l \in 1..Len(rest[c]) : conduitQueued'[c][k] = rest[c][l]
      BY <2>1, <3>1, Putting
    <3>3. CASE \E l \in 1..Len(rest[c]) : conduitQueued'[c][k] = rest[c][l]
      BY <3>3
    <3> QED BY <2>1, <3>2, <3>3
  <2>2. CASE c # ch
    BY <1>3, <2>2
  <2> QED BY <2>1, <2>2
<1> QED BY <1>1, <1>2, <1>4, ElementsFit

LEMMA ElementTaken ==
    ASSUME ConfigTyped, FlowInv, ~Configurable,
           UNCHANGED <<wires, settings, has, configuring, wireIn, outChan, conduitOut, chans, joinedLate>>,
           UNCHANGED <<conduit, closedChans, alive, ended, toStop, forwarder, conduitPanic>>, \A e \in delivered' : e = wires,
           NEW ch \in Channels, conduitQueued[ch] # <<>>,
           conduitQueued' = [conduitQueued EXCEPT ![ch] = Tail(conduitQueued[ch])]
    PROVE  FlowInv'
<1>1. conduitQueued \in [Channels -> Seq(Seq(Stages))]
  BY DEF FlowInv, PassedInv
<1>2. conduitQueued' \in [Channels -> Seq(Seq(Stages))]
  BY <1>1, Taking
<1>3. \A c \in Channels : conduitQueued'[c] = IF c = ch THEN Tail(conduitQueued[ch]) ELSE conduitQueued[c]
  BY <1>1
<1>4. \A c \in Channels : \A k \in 1..Len(conduitQueued'[c]) :
          \E l \in 1..Len(conduitQueued[c]) : conduitQueued'[c][k] = conduitQueued[c][l]
  BY <1>1, <1>3, Taking
<1> QED BY <1>2, <1>4, ElementsFit

LEMMA ElementFlow ==
    ASSUME ConfigTyped, FlowInv, SubmitElement \/ Forward \/ \E w \in Stages : WireWorks(w) \/ WireDrops(w)
    PROVE  FlowInv'
<1>1. UNCHANGED <<wires, settings, has, configuring, wireIn, outChan, conduitOut, chans, joinedLate>>
  BY DEF SubmitElement, Forward, WireWorks, WireDrops, configVars
<1>2. ~Configurable /\ UNCHANGED <<conduit, closedChans, alive, ended, toStop, forwarder>>
  BY DEF SubmitElement, Forward, WireWorks, WireDrops, Configurable, FlowInv, PhasesInv, lifeVars
<1>3. /\ wires # <<>> /\ Linked /\ Len(wires) \in Nat \ {0} /\ wires \in Seq(Stages)
      /\ \A i, j \in 1..Len(wires) : wires[i] = wires[j] => i = j
  BY <1>2 DEF FlowInv, PhasesInv, LinkedInv, NoCallInFlight, ConfigTyped, Configurable
<1>4. /\ conduitQueued \in [Channels -> Seq(Seq(Stages))]
      /\ wireIn \in [Stages -> Channels] /\ outChan \in [Stages -> Channels]
      /\ \A ch \in Channels : \A k \in 1..Len(conduitQueued[ch]) : Fits(ch, conduitQueued[ch][k])
      /\ ~conduitPanic /\ \A elem \in delivered : elem = wires
  BY DEF FlowInv, PassedInv, GraphInv, ClosedInv, Fits
<1>5. conduitOut \in Channels /\ conduitOut.of = "conduit"
  <2>1. chans \in 1..MaxRestarts + 1 /\ conduitOut = Chan("conduit", chans - 1)
    BY <1>2 DEF FlowInv, PhasesInv, Configurable
  <2>2. chans - 1 \in 0..MaxRestarts + 1
    BY <2>1, ConduitAssumption
  <2> QED BY <2>1, <2>2, ChanFacts
<1>6. wireIn[wires[1]] = Chan(wires[1], 0) /\ wires[1] \in Stages
  <2>1. wires[1] \in Stages /\ \A i \in 2..Len(wires) : wires[1] # wires[i]
    BY <1>3
  <2> QED BY <2>1 DEF FlowInv, GraphInv
<1>7. CASE SubmitElement
  <2> DEFINE ch == wireIn[wires[1]]
  <2>1. conduitQueued' = [conduitQueued EXCEPT ![ch] = Append(conduitQueued[ch], <<>>)] /\ delivered' = delivered /\ conduitPanic' = conduitPanic
    BY <1>7 DEF SubmitElement, lifeVars
  <2>2. ch \in Channels /\ <<>> \in Seq(Stages) /\ Fits(ch, <<>>)
    BY <1>4, <1>6 DEF Fits
  <2>3. \A c \in Channels : \A k \in 1..Len(conduitQueued[c]) : \E l \in 1..Len(conduitQueued[c]) : conduitQueued[c][k] = conduitQueued[c][l]
    OBVIOUS
  <2> HIDE DEF ch
  <2> QED BY <1>1, <1>2, <1>4, <2>1, <2>2, <2>3, ElementPut
<1>8. CASE Forward
  <2>1. /\ conduitQueued[conduitOut] # <<>>
        /\ conduitQueued' = [conduitQueued EXCEPT ![conduitOut] = Tail(conduitQueued[conduitOut])]
        /\ delivered' = delivered \cup {Head(conduitQueued[conduitOut])} /\ conduitPanic' = conduitPanic
    BY <1>8 DEF Forward, lifeVars
  <2>2. Fits(conduitOut, Head(conduitQueued[conduitOut]))
    BY <1>4, <1>5, <2>1, Taking
  <2>3. Head(conduitQueued[conduitOut]) = wires
    <3>1. \A w \in Stages, n \in Nat : conduitOut # Chan(w, n)
      BY <1>5, ChanFacts, ConduitAssumption
    <3>2. \A i \in 1..Len(wires) : wires[i] \in Stages
      BY <1>3
    <3> QED BY <1>6, <2>2, <3>1, <3>2 DEF Fits
  <2> QED BY <1>1, <1>2, <1>4, <1>5, <2>1, <2>3, ElementTaken
<1>9. ASSUME NEW w \in Stages, WireDrops(w) PROVE FlowInv'
  <2> DEFINE ch == wireIn[w]
  <2>1. /\ conduitQueued[ch] # <<>> /\ conduitQueued' = [conduitQueued EXCEPT ![ch] = Tail(conduitQueued[ch])]
        /\ delivered' = delivered /\ conduitPanic' = conduitPanic
    BY <1>9 DEF WireDrops, lifeVars
  <2>2. ch \in Channels
    BY <1>4
  <2> HIDE DEF ch
  <2> QED BY <1>1, <1>2, <1>4, <2>1, <2>2, ElementTaken
<1>10. ASSUME NEW w \in Stages, WireWorks(w) PROVE FlowInv'
  <2> DEFINE in == wireIn[w]
             out == outChan[w]
             elem == Append(Head(conduitQueued[in]), w)
             rest == [conduitQueued EXCEPT ![in] = Tail(conduitQueued[in])]
  <2>1. out \notin closedChans
    <3>1. w \notin ended
      BY <1>10 DEF WireWorks, FlowInv, ClosedInv
    <3> QED BY <3>1, Open DEF FlowInv
  <2>2. /\ conduitQueued[in] # <<>> /\ conduitQueued' = [rest EXCEPT ![out] = Append(rest[out], elem)]
        /\ delivered' = delivered /\ conduitPanic' = conduitPanic /\ w \in ToSet(wires)
    BY <1>10, <2>1 DEF WireWorks
  <2>3. PICK i \in 1..Len(wires) : wires[i] = w
    <3>1. DOMAIN wires = 1..Len(wires)
      BY <1>3
    <3> QED BY <2>2, <3>1 DEF ToSet
  <2>4. in \in Channels /\ out \in Channels
    BY <1>4
  <2>5. Fits(in, Head(conduitQueued[in])) /\ Head(conduitQueued[in]) \in Seq(Stages)
    BY <1>4, <2>2, <2>4, Taking
  <2>6. elem = SubSeq(wires, 1, i) /\ elem \in Seq(Stages)
    <3> DEFINE head == Head(conduitQueued[in])
    <3>1. \A j \in 1..Len(wires) : wires[j] \in Stages
      BY <1>3
    <3>2. CASE i = 1
      <4>1. in = Chan(wires[1], 0)
        BY <1>6, <2>3, <3>2
      <4>2. \A j \in 1..Len(wires) : in # Chan(wires[j], 1)
        BY <1>6, <3>1, <4>1, ChanFacts
      <4>3. in.of # "conduit"
        BY <1>6, <4>1, ChanFacts, ConduitAssumption
      <4>4. head = <<>>
        BY <2>5, <4>2, <4>3 DEF Fits
      <4> HIDE DEF head
      <4> QED BY <1>3, <2>3, <3>2, <4>4, FirstPassed DEF head
    <3>3. CASE i # 1
      <4>1. i \in 2..Len(wires) /\ i - 1 \in 1..Len(wires)
        BY <1>3, <3>3
      <4>2. in = Chan(wires[i - 1], 1) /\ wires[i - 1] \in Stages
        BY <1>3, <2>3, <3>1, <4>1 DEF Linked
      <4>3. in # Chan(wires[1], 0)
        BY <1>6, <4>2, ChanFacts
      <4>4. in.of # "conduit"
        BY <4>2, ChanFacts, ConduitAssumption
      <4>5. PICK j \in 1..Len(wires) : in = Chan(wires[j], 1) /\ head = SubSeq(wires, 1, j)
        BY <2>5, <4>3, <4>4 DEF Fits
      <4>6. wires[j] = wires[i - 1]
        BY <3>1, <4>2, <4>5, ChanFacts
      <4>7. j = i - 1
        BY <1>3, <4>1, <4>6
      <4>8. head = SubSeq(wires, 1, i - 1)
        BY <4>5, <4>7
      <4> HIDE DEF head
      <4> QED BY <1>3, <2>3, <4>1, <4>8, NextPassed DEF head
    <3> QED BY <3>2, <3>3
  <2>7. Fits(out, elem)
    <3> HIDE DEF elem
    <3>1. CASE out = Chan(w, 1)
      BY <2>3, <2>6, <3>1 DEF Fits
    <3>2. CASE w = wires[Len(wires)] /\ out = conduitOut
      <4>1. i = Len(wires)
        BY <1>3, <2>3, <3>2
      <4>2. elem = wires
        BY <1>3, <2>6, <4>1, AllPassed
      <4> QED BY <1>5, <3>2, <4>2 DEF Fits
    <3> QED BY <3>1, <3>2 DEF FlowInv, GraphInv
  <2>8. /\ rest \in [Channels -> Seq(Seq(Stages))]
        /\ \A c \in Channels : \A k \in 1..Len(rest[c]) : \E l \in 1..Len(conduitQueued[c]) : rest[c][k] = conduitQueued[c][l]
    <3> HIDE DEF in
    <3>1. rest \in [Channels -> Seq(Seq(Stages))] /\ \A c \in Channels : rest[c] = IF c = in THEN Tail(conduitQueued[in]) ELSE conduitQueued[c]
      BY <1>4, <2>2, <2>4, Taking
    <3> HIDE DEF rest
    <3>2. ASSUME NEW c \in Channels, NEW k \in 1..Len(rest[c]) PROVE \E l \in 1..Len(conduitQueued[c]) : rest[c][k] = conduitQueued[c][l]
      <4>1. CASE c = in
        <5>1. rest[c] = Tail(conduitQueued[in]) /\ conduitQueued[in] \in Seq(Seq(Stages)) /\ conduitQueued[in] # <<>>
          BY <1>4, <2>2, <2>4, <3>1, <4>1
        <5> QED BY <4>1, <5>1, Taking
      <4>2. CASE c # in
        BY <3>1, <4>2
      <4> QED BY <4>1, <4>2
    <3> QED BY <3>1, <3>2
  <2> HIDE DEF in, out, elem, rest
  <2> QED BY <1>1, <1>2, <2>2, <2>4, <2>6, <2>7, <2>8, ElementPut
<1> QED BY <1>7, <1>8, <1>9, <1>10

LEMMA ConduitInvKept == ConduitInv /\ [ConduitNext]_conduitVars => ConduitInv'
<1> SUFFICES ASSUME ConduitInv, [ConduitNext]_conduitVars PROVE ConduitInv'
  OBVIOUS
<1>1. ConfigTyped /\ SettingsInv
  BY DEF ConduitInv
<1>2. CASE ConduitNext
  <2>1. ConfigTyped' /\ SettingsInv'
    BY <1>1, <1>2, SettingsKept
  <2>2. ASSUME ~joinedLate' PROVE FlowInv'
    <3>1. ASSUME NEW p \in Configurers, NEW ws \in WireLists, ConnectWire(p, ws) PROVE FlowInv'
      <4>1. joinedLate' = (joinedLate \/ \E w \in ToSet(wires) : outChan[w] = conduitOut)
        BY <3>1 DEF ConnectWire
      <4>2. ~joinedLate /\ \A w \in ToSet(wires) : outChan[w] # conduitOut
        BY ZenonT(20), <2>2, <4>1
      <4>3. FlowInv
        BY <4>2 DEF ConduitInv
      <4> QED BY <1>1, <3>1, <4>2, <4>3, ConnectWireFlow
    <3>2. CASE joinedLate' = joinedLate
      <4>1. FlowInv
        BY <2>2, <3>2 DEF ConduitInv
      <4>2. ASSUME NEW p \in Configurers, NEW s \in Settings, ConnectSetting(p, s) \/ AttachWire(p, s) PROVE FlowInv'
        BY <1>1, <4>1, <4>2, ConfigFlow
      <4>3. ASSUME NEW p \in Configurers, SnapshotWires(p) \/ ApplySetting(p) PROVE FlowInv'
        BY <1>1, <4>1, <4>3, ConfigFlow
      <4>4. ASSUME NEW p \in Configurers, ConnectWireReturns(p) PROVE FlowInv'
        BY <1>1, <4>1, <4>4, ReturnsFlow
      <4>5. NewConduit => FlowInv'
        BY <1>1, <4>1, NewConduitFlow
      <4>6. RestartConduit => FlowInv'
        BY <1>1, <4>1, RestartFlow
      <4>7. StartConduit \/ StopConduit \/ StopWaited \/ ForwarderEnds => FlowInv'
        BY <1>1, <4>1, LifeFlow
      <4>8. StopWire => FlowInv'
        BY <1>1, <4>1, StopWireFlow
      <4>9. (SubmitElement \/ Forward \/ \E w \in Stages : WireWorks(w) \/ WireDrops(w)) => FlowInv'
        BY <1>1, <4>1, ElementFlow
      <4> QED BY <1>2, <3>1, <4>2, <4>3, <4>4, <4>5, <4>6, <4>7, <4>8, <4>9 DEF ConduitNext
    <3>3. (\E p \in Configurers, ws \in WireLists : ConnectWire(p, ws)) \/ joinedLate' = joinedLate
      <4>1. \A p \in Configurers, s \in Settings : ConnectSetting(p, s) \/ AttachWire(p, s) => joinedLate' = joinedLate
        BY DEF ConnectSetting, AttachWire
      <4>2. \A p \in Configurers : SnapshotWires(p) \/ ApplySetting(p) \/ ConnectWireReturns(p) => joinedLate' = joinedLate
        BY DEF SnapshotWires, ApplySetting, ConnectWireReturns
      <4>3. NewConduit \/ RestartConduit => joinedLate' = joinedLate
        BY DEF NewConduit, RestartConduit
      <4>4. StartConduit \/ StopConduit \/ StopWire \/ StopWaited \/ SubmitElement \/ Forward \/ ForwarderEnds
            => joinedLate' = joinedLate
        BY DEF StartConduit, StopConduit, StopWire, StopWaited, SubmitElement, Forward, ForwarderEnds, configVars
      <4>5. \A w \in Stages : WireWorks(w) \/ WireDrops(w) => joinedLate' = joinedLate
        BY DEF WireWorks, WireDrops, configVars
      <4> QED BY <1>2, <4>1, <4>2, <4>3, <4>4, <4>5 DEF ConduitNext
    <3> QED BY <3>1, <3>2, <3>3
  <2> QED BY <2>1, <2>2 DEF ConduitInv
<1>3. CASE UNCHANGED conduitVars
  <2>1. UNCHANGED <<wires, settings, has, configuring, wireIn, outChan, conduitOut, chans, joinedLate>>
        /\ UNCHANGED <<conduitQueued, submitted, delivered>>
        /\ UNCHANGED <<conduit, closedChans, alive, ended, toStop, forwarder, conduitPanic>>
    BY <1>3 DEF conduitVars, configVars, flowVars, lifeVars
  <2>2. ConfigTyped' /\ SettingsInv'
    BY <1>1, <2>1 DEF ConfigTyped, SettingsInv, WillGive
  <2>3. FlowInv => PhasesInv' /\ GraphInv' /\ LinkedInv'
    BY <2>1 DEF FlowInv, PhasesInv, GraphInv, LinkedInv, Linked, Configurable, NoCallInFlight
  <2>4. FlowInv => PassedInv' /\ ClosedInv'
    BY <2>1 DEF FlowInv, PassedInv, ClosedInv, Configurable
  <2>5. ~joinedLate' => ~joinedLate
    BY <2>1
  <2> QED BY <2>2, <2>3, <2>4, <2>5 DEF ConduitInv, FlowInv
<1> QED BY <1>2, <1>3

\* Settings connected by any number of goroutines reach the wires that one of them connects,
\* in whatever order; and in a conduit where no wire joined after another had the conduit's
\* output, elements leave having passed every wire in order, through Stop and Restart, and
\* no wire sends to a closed channel or closes one twice.
THEOREM ConduitSafe == ConduitSpec => []ConduitSound
<1>1. ConduitInv => ConduitSound
  <2> SUFFICES ASSUME ConduitInv PROVE ConduitSound
    OBVIOUS
  <2>1. SettingsReachWires
    <3>1. NoCallInFlight => \A p \in Configurers : \A w, s : ~WillGive(p, w, s)
      BY DEF NoCallInFlight, WillGive
    <3> QED BY <3>1 DEF SettingsReachWires, ConduitInv, SettingsInv
  <2>2. PassesStagesInOrder
    BY DEF PassesStagesInOrder, ConduitInv, FlowInv, ClosedInv, PassedInv
  <2> QED BY <2>1, <2>2 DEF ConduitSound
<1> QED BY <1>1, ConduitInvInit, ConduitInvKept, PTL DEF ConduitSpec
=============================================================================
