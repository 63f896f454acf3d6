------------------------------- MODULE MCFlow -------------------------------
(* Instances of the parts that decide whether an element may pass: the     *)
(* circuit breaker, the rate limiter, the resister's queue and the surge   *)
(* protector in front of a wire.  A behaviour exercises one of them.       *)
EXTENDS CircuitBreaker, RateLimiter, Resister, SurgeWire, TLC

CONSTANTS c1, c2, d1, d2, i1, i2, i3, e1, e2, g1, g2, w1, b1, b2

VARIABLE part

TwoCallers == {c1, c2}
TwoRateCallers == {d1, d2}
Debounces == {-1, 2}
\* Capacities two, zero, negative and beyond int32, here of eight values.
RateLimits == {<<2, 2>>, <<1, 0>>, <<0, 2>>, <<-1, -1>>, <<5, 2>>}
ThreeIds == {i1, i2, i3}
TwoElements == {e1, e2}
TwoGoroutines == {g1, g2}
OneWire == <<w1>>
TwoBackups == <<b1, b2>>
NoBackups == <<>>

FlowVars == <<part, vars, rateVars, resisterVars, surgeVars>>

FlowInit ==
    /\ part \in {"breaker", "rate", "resister", "surge"}
    /\ Init /\ RateInit /\ ResisterInit /\ SurgeInit

FlowNext ==
    /\ UNCHANGED part
    /\ \/ part = "breaker" /\ Next /\ UNCHANGED <<rateVars, resisterVars, surgeVars>>
       \/ part = "rate" /\ RateNext /\ UNCHANGED <<vars, resisterVars, surgeVars>>
       \/ part = "resister" /\ ResisterNext /\ UNCHANGED <<vars, rateVars, surgeVars>>
       \/ part = "surge" /\ SurgeNext /\ UNCHANGED <<vars, rateVars, resisterVars>>

FlowSpec == FlowInit /\ [][FlowNext]_FlowVars

FlowSymmetry == Permutations(Callers) \cup Permutations(Goroutines)
=============================================================================
