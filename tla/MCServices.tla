----------------------------- MODULE MCServices -----------------------------
(* Instances of the services around the data flow: authentication, the key  *)
(* and token caches, the log sink, the Kafka reader's offsets, the sensor,   *)
(* what payloads are wrapped in, and the configuration calls of every        *)
(* component.  A behaviour exercises one of them; the others rest in one     *)
(* initial state.                                                            *)
EXTENDS Authentication, KeyCache, TokenSource, RelaySink, KafkaReader, Sensor, Payload,
        Configuration, TLC

CONSTANTS r1, r2, c1, c2, c3, f1, p1, p2, w1, g1

VARIABLE part

AllOwners == {"grpc", "quic", "websocket", "webtransport", "httpJack", "wsJack"}
SomeOptions == {{}, {"introspection"}, {"jwt", "introspection"}}
Brought(headers, kindOf) == [headers |-> headers, token |-> kindOf]
SomeCallers == {Brought(TRUE, "opaque"), Brought(TRUE, "jwt"), Brought(FALSE, "opaque")}
TwoRequests == {r1, r2}
TwoCallers == {c1, c2}
ThreeCallers == {c1, c2, c3}
OneFlusher == {f1}
TwoPartitions == {p1, p2}
WireAndGenerator == {w1, g1}
OneWire == {w1}
OneCodedKey == [hex1 |-> "k1"]

ServiceVars == <<part, authVars, keyVars, tokenVars, sinkVars, kafkaVars, sensorVars, payloadVars, configurationVars>>

ServicesInit ==
    /\ part \in {"auth", "keys", "token", "sink", "kafka", "sensor", "gauge", "payload", "config"}
    /\ AuthInit
    /\ part # "auth" => owner = "grpc" /\ authRequired /\ accepts = {}
    /\ KeyInit /\ TokenInit /\ PayloadInit
    /\ SinkInit /\ (part # "sink" => dropOnFull)
    /\ KafkaInit /\ (part # "kafka" => policy = "auto" /\ startAt = "latest")
    /\ SensorInit /\ (part = "sensor" => followed # GaugeEvents)
    /\ part = "gauge" => followed = GaugeEvents /\ \A e \in followed : byUser[e] = 0
    /\ (part \notin {"sensor", "gauge"} => followed = {"Submit"} /\ byUser["Submit"] = 0)
    /\ ConfigInit
    /\ part # "config" => component = "Sensor" /\ operation = <<"locked", "ConnectMeter">>

\* While nobody registers, the two words of a header are the same in either order.
PointerFirst == \A c \in Emitters : emitting[c].len # -1 => emitting[c].ptr # -1

ServicesNext ==
    /\ UNCHANGED part
    /\ \/ part = "auth" /\ AuthNext
          /\ UNCHANGED <<keyVars, tokenVars, sinkVars, kafkaVars, sensorVars, payloadVars, configurationVars>>
       \/ part = "keys" /\ KeyNext
          /\ UNCHANGED <<authVars, tokenVars, sinkVars, kafkaVars, sensorVars, payloadVars, configurationVars>>
       \/ part = "token" /\ TokenNext
          /\ UNCHANGED <<authVars, keyVars, sinkVars, kafkaVars, sensorVars, payloadVars, configurationVars>>
       \/ part = "sink" /\ SinkNext
          /\ UNCHANGED <<authVars, keyVars, tokenVars, kafkaVars, sensorVars, payloadVars, configurationVars>>
       \/ part = "kafka" /\ KafkaNext
          /\ UNCHANGED <<authVars, keyVars, tokenVars, sinkVars, sensorVars, payloadVars, configurationVars>>
       \/ part = "sensor" /\ SensorNext /\ emitting'[c2] = emitting[c2]
          /\ UNCHANGED <<authVars, keyVars, tokenVars, sinkVars, kafkaVars, payloadVars, configurationVars>>
       \/ part = "gauge" /\ SensorNext /\ UNCHANGED registering /\ PointerFirst'
          /\ UNCHANGED <<authVars, keyVars, tokenVars, sinkVars, kafkaVars, payloadVars, configurationVars>>
       \/ part = "payload" /\ PayloadNext
          /\ UNCHANGED <<authVars, keyVars, tokenVars, sinkVars, kafkaVars, sensorVars, configurationVars>>
       \/ part = "config" /\ ConfigNext
          /\ UNCHANGED <<authVars, keyVars, tokenVars, sinkVars, kafkaVars, sensorVars, payloadVars>>

ServicesSpec == ServicesInit /\ [][ServicesNext]_ServiceVars

\* Requests are alike; every invariant quantifies over all of them.
ServicesSymmetry == Permutations(TwoRequests)
=============================================================================
