------------------------------- MODULE MCWire -------------------------------
(* Small wires; Options says which components may be connected to them. *)
EXTENDS Wire, TLC

CONSTANTS e1, e2, e3, w1, w2, n1

ThreeElements == {e1, e2, e3}
TwoElements == {e1, e2}
TwoWorkers == {w1, w2}
OneWorker == {w1}
OneNeutral == {n1}
AllButFactory == {"insulator", "breaker", "encoder", "telemetry"}
FactoryOrInsulator == {"factory", "insulator"}
Symmetry == Permutations(Elements) \cup Permutations(Workers)
=============================================================================
