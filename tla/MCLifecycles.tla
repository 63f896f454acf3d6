----------------------------- MODULE MCLifecycles -----------------------------
(* Instances of what is started, stopped and started again: the wire, the *)
(* generator and the conduit, and the meter, whose Monitor ends by itself. *)
(* A behaviour exercises one of them; the others rest in their initial     *)
(* state.                                                                  *)
EXTENDS WireLifecycle, Generator, Conduit, Meter

CONSTANTS c1, c2, p1, p2, w1, w2, w3

VARIABLE part

TwoControllers == {c1, c2}
OneController == {c1}
ThreeStages == {w1, w2, w3}
TwoConfigurers == {p1, p2}

LifecyclesVars == <<part, wireLifeVars, genVars, conduitVars, meterVars>>

LifecyclesInit ==
    /\ part \in {"life", "generator", "conduit", "meter"}
    /\ LifeInit
    /\ GenInit /\ (part # "generator" => hasBreaker)
    /\ ConduitInit
    /\ MeterInit /\ (part # "meter" => tolerant)

LifecyclesNext ==
    /\ UNCHANGED part
    /\ \/ part = "life" /\ LifeNext /\ UNCHANGED <<genVars, conduitVars, meterVars>>
       \/ part = "generator" /\ GenNext /\ UNCHANGED <<wireLifeVars, conduitVars, meterVars>>
       \/ part = "conduit" /\ ConduitNext /\ UNCHANGED <<wireLifeVars, genVars, meterVars>>
       \/ part = "meter" /\ MeterNext /\ UNCHANGED <<wireLifeVars, genVars, conduitVars>>

\* Each component's own fairness. In the initial states only the meter has a
\* fair action that is enabled, so the others satisfy theirs while they rest.
LifecyclesFairness ==
    /\ LifeFairness /\ GenFairness /\ ConduitFairness
    /\ WF_meterVars(part = "meter" /\ MeterTick)
    /\ WF_meterVars(part = "meter" /\ MonitorStep)
    /\ WF_meterVars(part = "meter" /\ IdleTimeSeesData)

LifecyclesSpec == LifecyclesInit /\ [][LifecyclesNext]_LifecyclesVars /\ LifecyclesFairness

\* Again and again no call is under way: every Start, Stop and Restart of a wire,
\* every Stop of a generator and of a conduit returns, and so does Monitor.
LifecyclesSettle ==
    []<>~(CallPending \/ GenStopPending \/ ConduitStopPending \/ (part = "meter" /\ MonitorRuns))
=============================================================================
