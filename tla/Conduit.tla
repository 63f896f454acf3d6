------------------------------- MODULE Conduit ------------------------------
(* A conduit: an ordered list of wires that it chains together, gives its    *)
(* own settings to, starts and stops. What is modelled is the graph of       *)
(* channels the Connect calls build, the race between a setting and a wire   *)
(* that are connected at the same time, and the elements that then flow.     *)
(*                                                                           *)
(* A wire is what the conduit sees of it: the channels it reads and writes,  *)
(* its context, and an output that its first Stop closes (see WireLifecycle  *)
(* for the wire itself). One goroutine connects wires, others settings.      *)
EXTENDS Naturals, Sequences, SequencesExt, FiniteSets

CONSTANTS
    Stages,        \* the wires
    Configurers,   \* goroutines that call the Connect operations
    WireConfigurer,\* the one of them that connects wires
    Settings,      \* what is passed on to wires: "sensor", ..., "size"
    MaxElements,   \* bound: elements submitted
    MaxRestarts    \* bound: calls of Restart

ASSUME ConduitAssumption ==
    /\ IsFiniteSet(Stages) /\ {"none", "conduit"} \cap Stages = {}
    /\ MaxRestarts \in Nat

VARIABLES
    conduit,     \* "building" (the options of NewConduit), "ready", "run", "stopping", "stopped"
    wires,       \* the conduit's list
    settings,    \* the conduit's own settings
    has,         \* has[w]: the settings of a wire
    configuring, \* a goroutine's Connect call
    wireIn, outChan, conduitOut,  \* of the wires, of the conduit
    chans,       \* channels the conduit has made for its output
    conduitQueued,      \* elements in each channel; an element is the wires it has passed
    closedChans,
    alive,       \* wires whose context has not ended
    ended,       \* wires whose terminateOnce is used
    toStop,      \* wires the Stop in progress has still to stop
    forwarder,   \* the goroutine that passes elements on to NextConduit
    submitted,
    delivered,   \* elements taken from the conduit's output
    joinedLate,  \* history: a wire was connected when another had the output channel
    conduitPanic \* a send or a close hit a closed channel

configVars == <<wires, settings, has, configuring, wireIn, outChan, conduitOut, chans, joinedLate>>
flowVars == <<conduitQueued, submitted, delivered>>
lifeVars == <<conduit, closedChans, alive, ended, toStop, forwarder, conduitPanic>>
conduitVars == <<configVars, flowVars, lifeVars>>

Chan(of, no) == [of |-> of, no |-> no]
NoChan == Chan("none", 0)
Channels == {Chan(w, n) : w \in Stages, n \in 0..1} \cup {Chan("conduit", n) : n \in 0..MaxRestarts + 1}
NoCall == [at |-> "idle", what |-> "none", todo |-> <<>>, kinds |-> {}]

ConduitInit ==
    /\ conduit = "building" /\ wires = <<>> /\ settings = {}
    /\ has = [w \in Stages |-> {}] /\ configuring = [p \in Configurers |-> NoCall]
    /\ wireIn = [w \in Stages |-> Chan(w, 0)] /\ outChan = [w \in Stages |-> Chan(w, 1)]
    /\ conduitOut = NoChan /\ chans = 0
    /\ conduitQueued = [ch \in Channels |-> <<>>] /\ closedChans = {}
    /\ alive = Stages /\ ended = {} /\ toStop = <<>> /\ forwarder = "none"
    /\ submitted = 0 /\ delivered = {} /\ joinedLate = FALSE /\ conduitPanic = FALSE

Configurable == conduit \in {"building", "ready"}
NoCallInFlight == \A p \in Configurers : configuring[p].at = "idle"
MayCall(p) == Configurable /\ configuring[p].at = "idle" /\ (conduit = "building" => NoCallInFlight)

-----------------------------------------------------------------------------
(* ConnectSensor, ConnectLogger, ConnectGenerator, ConnectCircuitBreaker,    *)
(* ConnectSurgeProtector, SetConcurrencyControl: store, then spread.         *)

EnsureDefaults ==
    IF conduitOut = NoChan
    THEN conduitOut' = Chan("conduit", chans) /\ chans' = chans + 1
    ELSE UNCHANGED <<conduitOut, chans>>

ConnectSetting(p, s) ==
    /\ MayCall(p) /\ s \notin settings
    /\ settings' = settings \cup {s}
    /\ configuring' = [configuring EXCEPT ![p] = [NoCall EXCEPT !.at = "snapshot", !.what = s]]
    /\ IF s = "size" THEN EnsureDefaults ELSE UNCHANGED <<conduitOut, chans>>
    /\ UNCHANGED <<wires, has, wireIn, outChan, joinedLate, flowVars, lifeVars>>

SnapshotWires(p) ==
    /\ configuring[p].at = "snapshot"
    /\ configuring' = [configuring EXCEPT ![p].at = "each", ![p].todo = wires]
    /\ UNCHANGED <<wires, settings, has, wireIn, outChan, conduitOut, chans, joinedLate, flowVars, lifeVars>>

ApplySetting(p) ==
    LET call == configuring[p]
    IN  /\ call.at = "each"
        /\ IF call.todo = <<>>
           THEN configuring' = [configuring EXCEPT ![p] = NoCall] /\ UNCHANGED has
           ELSE /\ has' = [has EXCEPT ![Head(call.todo)] = @ \cup {call.what}]
                /\ configuring' = [configuring EXCEPT ![p].todo = Tail(@)]
        /\ UNCHANGED <<wires, settings, wireIn, outChan, conduitOut, chans, joinedLate, flowVars, lifeVars>>

-----------------------------------------------------------------------------
(* ConnectWire. *)

ConnectWire(p, ws) ==
    /\ MayCall(p) /\ p = WireConfigurer
    /\ ws # <<>> /\ ToSet(ws) \cap ToSet(wires) = {}
    /\ wires' = wires \o ws
    /\ joinedLate' = (joinedLate \/ \E w \in ToSet(wires) : outChan[w] = conduitOut)
    /\ configuring' = [configuring EXCEPT ![p] =
           [NoCall EXCEPT !.at = "attach", !.todo = ws, !.kinds = Settings]]
    /\ UNCHANGED <<settings, has, wireIn, outChan, conduitOut, chans, flowVars, lifeVars>>

\* A loop that attaches the first of the new wires only.
MutAttachWire(p, s) ==
    LET call == configuring[p]
    IN  /\ call.at = "attach" /\ s \in call.kinds
        /\ has' = IF s \in settings THEN [has EXCEPT ![Head(call.todo)] = @ \cup {s}] ELSE has
        /\ configuring' = [configuring EXCEPT ![p] =
               IF call.kinds # {s} THEN [call EXCEPT !.kinds = @ \ {s}] ELSE [call EXCEPT !.at = "chain"]]
        /\ UNCHANGED <<wires, settings, wireIn, outChan, conduitOut, chans, joinedLate, flowVars, lifeVars>>

\* attachWire: the settings the conduit has when each kind is looked at.
AttachWire(p, s) ==
    LET call == configuring[p]
    IN  /\ call.at = "attach" /\ s \in call.kinds
        /\ has' = IF s \in settings THEN [has EXCEPT ![Head(call.todo)] = @ \cup {s}] ELSE has
        /\ configuring' = [configuring EXCEPT ![p] =
               CASE call.kinds # {s} -> [call EXCEPT !.kinds = @ \ {s}]
                 [] call.kinds = {s} /\ Len(call.todo) > 1 ->
                        [call EXCEPT !.kinds = Settings, !.todo = Tail(@)]
                 [] OTHER -> [call EXCEPT !.at = "chain"]]
        /\ UNCHANGED <<wires, settings, wireIn, outChan, conduitOut, chans, joinedLate, flowVars, lifeVars>>

\* chainWires: each input is what its predecessor writes to, then the last
\* wire writes to the conduit's output, if that exists.
ChainWires(ws, out) ==
    /\ wireIn' = [w \in Stages |->
           IF \E i \in 2..Len(ws) : ws[i] = w
           THEN outChan[ws[(CHOOSE i \in 2..Len(ws) : ws[i] = w) - 1]] ELSE wireIn[w]]
    /\ outChan' = IF ws # <<>> /\ out # NoChan THEN [outChan EXCEPT ![Last(ws)] = out] ELSE outChan

ConnectWireReturns(p) ==
    /\ configuring[p].at = "chain"
    /\ ChainWires(wires, conduitOut)
    /\ configuring' = [configuring EXCEPT ![p] = NoCall]
    /\ UNCHANGED <<wires, settings, has, conduitOut, chans, joinedLate, flowVars, lifeVars>>

\* NewConduit after its options: ensureDefaults, chainWires.
NewConduit ==
    /\ conduit = "building" /\ NoCallInFlight
    /\ conduit' = "ready"
    /\ EnsureDefaults
    /\ ChainWires(wires, conduitOut')
    /\ UNCHANGED <<wires, settings, has, configuring, joinedLate, flowVars,
                   closedChans, alive, ended, toStop, forwarder, conduitPanic>>

-----------------------------------------------------------------------------
(* Start, Stop, Restart. *)

\* The wires' workers, and the forwarder to the next conduit.
StartConduit ==
    /\ conduit = "ready" /\ NoCallInFlight /\ wires # <<>>
    /\ conduit' = "run" /\ forwarder' = "run"
    /\ UNCHANGED <<configVars, flowVars, closedChans, alive, ended, toStop, conduitPanic>>

StopConduit ==
    /\ conduit = "run"
    /\ conduit' = "stopping" /\ toStop' = wires
    /\ UNCHANGED <<configVars, flowVars, closedChans, alive, ended, forwarder, conduitPanic>>

\* Wire.Stop: its context, and once the close of what it writes to.
StopWire ==
    /\ conduit = "stopping" /\ toStop # <<>>
    /\ LET w == Head(toStop)
       IN  /\ alive' = alive \ {w} /\ ended' = ended \cup {w}
           /\ IF w \in ended THEN UNCHANGED <<closedChans, conduitPanic>>
              ELSE /\ closedChans' = closedChans \cup {outChan[w]}
                   /\ conduitPanic' = (conduitPanic \/ outChan[w] \in closedChans)
    /\ toStop' = Tail(toStop)
    /\ UNCHANGED <<configVars, flowVars, conduit, forwarder>>

\* The conduit's context ends, or its output is closed and empty.
ForwarderEnds ==
    /\ forwarder = "run"
    /\ conduit = "stopping" \/ (conduitOut \in closedChans /\ conduitQueued[conduitOut] = <<>>)
    /\ forwarder' = "none"
    /\ UNCHANGED <<configVars, flowVars, conduit, closedChans, alive, ended, toStop, conduitPanic>>

StopWaited ==
    /\ conduit = "stopping" /\ toStop = <<>> /\ forwarder = "none"
    /\ conduit' = "stopped"
    /\ UNCHANGED <<configVars, flowVars, closedChans, alive, ended, toStop, forwarder, conduitPanic>>

\* Restart goes on from Stop: a new output, the wires chained anew and started;
\* their contexts have ended and stay so.
RestartConduit ==
    /\ conduit = "stopped" /\ chans <= MaxRestarts
    /\ conduitOut' = Chan("conduit", chans) /\ chans' = chans + 1
    /\ ChainWires(wires, conduitOut')
    /\ conduit' = "run" /\ forwarder' = "run"
    /\ UNCHANGED <<wires, settings, has, configuring, joinedLate, flowVars,
                   closedChans, alive, ended, toStop, conduitPanic>>

-----------------------------------------------------------------------------
(* Elements. *)

SubmitElement ==
    /\ conduit = "run" /\ submitted < MaxElements /\ wires[1] \in alive
    /\ submitted' = submitted + 1
    /\ conduitQueued' = [conduitQueued EXCEPT ![wireIn[wires[1]]] = Append(@, <<>>)]
    /\ UNCHANGED <<configVars, delivered, lifeVars>>

\* A worker of wire w.
WireWorks(w) ==
    /\ conduit \in {"run", "stopping"} /\ w \in ToSet(wires) \cap alive
    /\ conduitQueued[wireIn[w]] # <<>>
    /\ LET elem == Append(Head(conduitQueued[wireIn[w]]), w)
           rest == [conduitQueued EXCEPT ![wireIn[w]] = Tail(@)]
       IN  /\ Len(elem) <= Cardinality(Stages) + 1
           /\ IF outChan[w] \in closedChans
              THEN conduitPanic' = TRUE /\ conduitQueued' = rest
              ELSE conduitQueued' = [rest EXCEPT ![outChan[w]] = Append(@, elem)] /\ UNCHANGED conduitPanic
    /\ UNCHANGED <<configVars, submitted, delivered, conduit, closedChans, alive, ended, toStop, forwarder>>

\* A worker (the standard loop) of a wire that was started again takes an element, sees that its
\* context has ended and lets the element go.
WireDrops(w) ==
    /\ conduit = "run" /\ w \in ToSet(wires) \ alive /\ conduitQueued[wireIn[w]] # <<>>
    /\ conduitQueued' = [conduitQueued EXCEPT ![wireIn[w]] = Tail(@)]
    /\ UNCHANGED <<configVars, submitted, delivered, lifeVars>>

Forward ==
    /\ forwarder = "run" /\ conduitQueued[conduitOut] # <<>>
    /\ delivered' = delivered \cup {Head(conduitQueued[conduitOut])}
    /\ conduitQueued' = [conduitQueued EXCEPT ![conduitOut] = Tail(@)]
    /\ UNCHANGED <<configVars, submitted, lifeVars>>

-----------------------------------------------------------------------------

WireLists == {ws \in SeqOf(Stages, Cardinality(Stages)) : IsInjective(ws)}

ConduitNext ==
    /\ ~conduitPanic
    /\ \/ \E p \in Configurers :
             \/ \E s \in Settings : ConnectSetting(p, s) \/ AttachWire(p, s)
             \/ \E ws \in WireLists : ConnectWire(p, ws)
             \/ SnapshotWires(p) \/ ApplySetting(p) \/ ConnectWireReturns(p)
       \/ NewConduit \/ StartConduit \/ StopConduit \/ StopWire \/ StopWaited \/ RestartConduit
       \/ SubmitElement \/ Forward \/ ForwarderEnds
       \/ \E w \in Stages : WireWorks(w) \/ WireDrops(w)

\* Stop runs to its end and goroutines are scheduled; nobody has to call Stop.
ConduitFairness == WF_conduitVars(~conduitPanic /\ (StopWire \/ StopWaited \/ ForwarderEnds))
ConduitSpec == ConduitInit /\ [][ConduitNext]_conduitVars /\ ConduitFairness

-----------------------------------------------------------------------------
(* Properties. *)

\* Whatever the order in which settings and wires are connected, and however the
\* calls overlap, when they have returned every wire has every setting: each call
\* stores its own part before it looks at the other's.
SettingsReachWires == NoCallInFlight => \A w \in ToSet(wires) : settings \subseteq has[w]

\* An element that leaves the conduit has passed every wire once and in order, and
\* stopping hits no closed channel, if all wires were connected before the first
\* of them was given the conduit's output (conduit_chain is about the others).
PassesStagesInOrder ==
    ~joinedLate => ~conduitPanic /\ \A elem \in delivered : elem = wires

\* What configuring and running a conduit keep together.
ConduitSound == SettingsReachWires /\ PassesStagesInOrder

\* PassesStagesInOrder without its condition, as the package's README has it.
EveryStageInOrder == \A elem \in delivered : elem = wires

\* A Stop is under way; it returns: wires stop and the forwarder heeds the context.
ConduitStopPending == conduit = "stopping" /\ ~conduitPanic
=============================================================================
