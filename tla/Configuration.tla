--------------------------- MODULE Configuration ----------------------------
(* How components are configured: a Connect or Set operation checks that the *)
(* component is not frozen (requireNotFrozen, requireNotStarted) and then    *)
(* changes a list or a field; Start, Listen or Serve sets the flag. The check *)
(* and the change are two steps, and nothing holds a lock around both.       *)
(*                                                                           *)
(* The tables give the operations of each file by what they change: "locked" *)
(* extend a list (or a map) under its lock, "bare" extend a list without     *)
(* one, "field" assign.                                                      *)
EXTENDS Naturals, FiniteSets

CONSTANTS
    ConfigCallers,  \* goroutines, each with one call of one operation
    MaxConfigRuns   \* bound: starts

ForwardConnect ==
    [locked |-> {"ConnectLogger"}, bare |-> {"ConnectInput"}, field |-> {}]
ForwardConfig ==
    [locked |-> {}, bare |-> {"SetTargets"}, field |-> {"SetComponentMetadata",
     "SetPerformanceOptions", "SetSecurityOptions", "SetTLSConfig", "SetPassthrough"}]
ForwardAuth ==
    [locked |-> {}, bare |-> {}, field |-> {"SetAuthenticationOptions", "SetOAuth2",
     "SetStaticHeaders", "SetDynamicHeaders", "SetAuthRequired"}]
ReceivingConnect ==
    [locked |-> {"ConnectLogger"}, bare |-> {"ConnectOutput"}, field |-> {}]
ReceivingConfig ==
    [locked |-> {}, bare |-> {}, field |-> {"SetAddress", "SetDataChannel",
     "SetDecryptionKey", "SetComponentMetadata", "SetTLSConfig", "SetPassthrough",
     "SetGRPCWebConfig"}]
ReceivingAuth ==
    [locked |-> {}, bare |-> {}, field |-> {"SetAuthenticationOptions",
     "SetAuthInterceptor", "SetAuthInterceptors", "SetStaticHeaders",
     "SetDynamicAuthValidator", "SetAuthRequired"}]
QuicForward ==
    [locked |-> {"ConnectLogger"}, bare |-> {"ConnectInput"}, field |-> {"SetTargets",
     "SetComponentMetadata", "SetPerformanceOptions", "SetSecurityOptions",
     "SetTLSConfig", "SetPassthrough", "SetAuthenticationOptions", "SetOAuth2",
     "SetStaticHeaders", "SetDynamicHeaders", "SetAuthRequired", "SetAckMode",
     "SetAckEveryN", "SetMaxInFlight", "SetOmitPayloadMetadata", "SetStreamSendBuffer",
     "SetMaxFrameBytes", "SetDropOnFull"}]
QuicReceiving ==
    [locked |-> {"ConnectLogger"}, bare |-> {"ConnectOutput"}, field |->
     {"SetComponentMetadata", "SetAddress", "SetDataChannel", "SetTLSConfig",
     "SetPassthrough", "SetDecryptionKey", "SetAuthenticationOptions",
     "SetStaticHeaders", "SetDynamicAuthValidator", "SetAuthRequired",
     "SetMaxFrameBytes"}]
WebSocketForward ==
    [locked |-> {}, bare |-> {"ConnectInput", "ConnectLogger"}, field |-> {"SetTargets",
     "SetComponentMetadata", "SetTLSConfig", "SetPerformanceOptions",
     "SetSecurityOptions", "SetAuthenticationOptions", "SetOAuth2", "SetStaticHeaders",
     "SetDynamicHeaders", "SetAuthRequired", "SetPassthrough", "SetPayloadFormat",
     "SetPayloadType", "SetAckMode", "SetAckEveryN", "SetMaxInFlight",
     "SetOmitPayloadMetadata", "SetStreamSendBuffer", "SetMaxMessageBytes",
     "SetDropOnFull"}]
WebSocketReceiving ==
    [locked |-> {}, bare |-> {"ConnectOutput", "ConnectLogger"}, field |->
     {"SetComponentMetadata", "SetAddress", "SetPath", "SetTLSConfig",
     "SetDecryptionKey", "SetAuthenticationOptions", "SetStaticHeaders",
     "SetDynamicAuthValidator", "SetAuthRequired", "SetPassthrough", "SetBufferSize",
     "SetMaxMessageBytes"}]
WebTransportForward ==
    [locked |-> {}, bare |-> {"ConnectInput", "ConnectLogger"}, field |-> {"SetTargets",
     "SetComponentMetadata", "SetTLSConfig", "SetPerformanceOptions",
     "SetSecurityOptions", "SetAuthenticationOptions", "SetOAuth2", "SetStaticHeaders",
     "SetDynamicHeaders", "SetAuthRequired", "SetPassthrough", "SetPayloadFormat",
     "SetPayloadType", "SetAckMode", "SetAckEveryN", "SetMaxInFlight",
     "SetOmitPayloadMetadata", "SetStreamSendBuffer", "SetMaxFrameBytes",
     "SetDropOnFull", "SetUseDatagrams"}]
WebTransportReceiving ==
    [locked |-> {}, bare |-> {"ConnectOutput", "ConnectLogger"}, field |->
     {"SetComponentMetadata", "SetAddress", "SetPath", "SetTLSConfig",
     "SetDecryptionKey", "SetAuthenticationOptions", "SetStaticHeaders",
     "SetDynamicAuthValidator", "SetAuthRequired", "SetPassthrough", "SetBufferSize",
     "SetMaxFrameBytes", "SetEnableDatagrams"}]
GeneratorConnect ==
    [locked |-> {"ConnectLogger", "ConnectPlug", "ConnectToComponent"}, bare |->
     {"ConnectSensor"}, field |-> {"ConnectCircuitBreaker"}]
PlugConnect ==
    [locked |-> {"AddAdapterFunc", "ConnectAdapter", "ConnectLogger"}, bare |->
     {"ConnectSensor"}, field |-> {}]
WireConnect ==
    [locked |-> {"ConnectLogger", "ConnectSensor"}, bare |-> {"ConnectGenerator",
     "ConnectTransformer"}, field |-> {"ConnectCircuitBreaker", "ConnectSurgeProtector"}]
WireConfig ==
    [locked |-> {}, bare |-> {}, field |-> {"SetComponentMetadata",
     "SetConcurrencyControl", "SetEncoder", "SetInsulator", "SetOutputBuffer",
     "SetErrorChannel", "SetInputChannel", "SetOutputChannel", "SetTransformerFactory"}]
HttpJackConfig ==
    [locked |-> {"AddHeader"}, bare |-> {}, field |-> {"SetAddress", "SetServerConfig",
     "SetTimeout", "SetTLSConfig"}]
HttpJackConnect ==
    [locked |-> {"ConnectLogger", "ConnectSensor"}, bare |-> {}, field |-> {}]
HttpJackAuth ==
    [locked |-> {}, bare |-> {}, field |-> {"SetAuthenticationOptions",
     "SetStaticHeaders", "SetDynamicAuthValidator", "SetAuthRequired"}]
SocketJackConfig ==
    [locked |-> {"AddHeader"}, bare |-> {}, field |-> {"SetAddress", "SetEndpoint",
     "SetAllowedOrigins", "SetTokenQueryParam", "SetMessageFormat", "SetReadLimit",
     "SetWriteTimeout", "SetIdleTimeout", "SetSendBuffer", "SetMaxConnections",
     "SetTLSConfig"}]
SocketJackAuth ==
    [locked |-> {}, bare |-> {}, field |-> {"SetAuthenticationOptions",
     "SetStaticHeaders", "SetDynamicAuthValidator", "SetAuthRequired"}]
SocketJackConnect ==
    [locked |-> {"ConnectLogger", "ConnectSensor", "ConnectOutput"}, bare |-> {}, field
     |-> {}]
SurgeConnect ==
    [locked |-> {"ConnectComponent", "AttachBackup", "ConnectLogger", "ConnectSensor"},
     bare |-> {}, field |-> {"ConnectResister"}]
BreakerConnect ==
    [locked |-> {"ConnectNeutralWire", "ConnectSensor", "ConnectLogger"}, bare |-> {},
     field |-> {}]
ResisterConnect ==
    [locked |-> {"ConnectLogger", "ConnectSensor"}, bare |-> {}, field |-> {}]
KafkaConnect ==
    [locked |-> {"ConnectSensor", "ConnectLogger"}, bare |-> {"ConnectInput"}, field |->
     {}]
S3Connect ==
    [locked |-> {"ConnectSensor", "ConnectLogger"}, bare |-> {"ConnectInput"}, field |->
     {}]
HttpClientConfig ==
    [locked |-> {"AddHeader"}, bare |-> {}, field |-> {"SetRequestConfig",
     "SetInterval", "SetTimeout", "SetMaxRetries", "SetOAuth2Config", "SetBasicAuth"}]
SocketClientConfig ==
    [locked |-> {"AddHeader"}, bare |-> {}, field |-> {"SetURL", "SetHeaders",
     "SetMessageFormat", "SetReadLimit", "SetWriteTimeout", "SetIdleTimeout",
     "SetTLSConfig"}]
SensorConnect ==
    [locked |-> {"ConnectLogger", "ConnectMeter"}, bare |-> {}, field |-> {}]

\* The operations of a component, and how long its flag stays set.
Files ==
    [ForwardRelay |-> {ForwardConnect, ForwardConfig, ForwardAuth},
     ReceivingRelay |-> {ReceivingConnect, ReceivingConfig, ReceivingAuth},
     QuicForwardRelay |-> {QuicForward}, QuicReceivingRelay |-> {QuicReceiving},
     WebSocketForwardRelay |-> {WebSocketForward}, WebSocketReceivingRelay |-> {WebSocketReceiving},
     WebTransportForwardRelay |-> {WebTransportForward},
     WebTransportReceivingRelay |-> {WebTransportReceiving},
     Plug |-> {PlugConnect}, Generator |-> {GeneratorConnect}, Wire |-> {WireConnect, WireConfig},
     HTTPServer |-> {HttpJackConfig, HttpJackConnect, HttpJackAuth},
     WebSocketServer |-> {SocketJackConfig, SocketJackAuth, SocketJackConnect},
     SurgeProtector |-> {SurgeConnect}, CircuitBreaker |-> {BreakerConnect},
     Resister |-> {ResisterConnect}, KafkaClient |-> {KafkaConnect}, S3Client |-> {S3Connect},
     HTTPClient |-> {HttpClientConfig}, WebSocketClient |-> {SocketClientConfig},
     Sensor |-> {SensorConnect}]

FrozenUntilStop == {"Wire", "Generator"}
FrozenByServe == {"HTTPServer", "WebSocketServer"}
NeverFrozen == {"SurgeProtector", "CircuitBreaker", "Resister", "KafkaClient", "S3Client",
                "HTTPClient", "WebSocketClient", "Sensor"}

VARIABLES
    component,   \* the component
    operation,   \* the operation under test: its name and kind
    flag,        \* configFrozen or started
    configRun,   \* "idle", "snapshot" (a jack's Serve before its flag), "run", "ending"
    configStarts,     \* starts so far
    value,       \* the list or field: the callers whose argument it holds
    used,        \* what a jack's Serve works with
    calling,     \* a caller's call
    setBefore,      \* history: callers whose call had returned when the latest start began
    admitted     \* history: what was carried when the flag was set

configurationVars == <<component, operation, flag, configRun, configStarts, value, used, calling, setBefore, admitted>>

Kinds == {"locked", "bare", "field"}
ConfigInit ==
    /\ component \in DOMAIN Files
    /\ operation \in {<<kind, op>> : kind \in Kinds, op \in UNION {UNION {f.locked, f.bare, f.field} : f \in Files[component]}}
    /\ \E f \in Files[component] : operation[2] \in f[operation[1]]
    /\ flag = FALSE /\ configRun = "idle" /\ configStarts = 0
    /\ value = {} /\ used = {} /\ setBefore = {} /\ admitted = {}
    /\ calling = [p \in ConfigCallers |-> [at |-> "new", seen |-> {}]]

Kind == operation[1]
Returned == {p \in ConfigCallers : calling[p].at = "returned"}
InFlight == {p \in ConfigCallers : calling[p].at \in {"checked", "append"}}
\* What is stored, or may still be by calls past their check: an append stores
\* what it read along with its own argument.
Carried == value \cup InFlight \cup UNION {calling[p].seen : p \in InFlight}
CallGoes(p, place) == calling' = [calling EXCEPT ![p].at = place]

-----------------------------------------------------------------------------
(* A call. *)

\* requireNotFrozen, requireNotStarted: panics when the flag is set.
RequireNotFrozen(p) ==
    /\ calling[p].at = "new"
    /\ CallGoes(p, IF flag THEN "panicked" ELSE "checked")
    /\ UNCHANGED <<component, operation, flag, configRun, configStarts, value, used, setBefore, admitted>>

\* An append reads the list and stores a longer one; a lock makes that one step.
MutLocked == FALSE

Locked == Kind = "locked"

AppendLocked(p) ==
    /\ calling[p].at = "checked" /\ Locked
    /\ value' = value \cup {p}
    /\ CallGoes(p, "returned")
    /\ UNCHANGED <<component, operation, flag, configRun, configStarts, used, setBefore, admitted>>

AppendLoads(p) ==
    /\ calling[p].at = "checked" /\ Kind # "field" /\ ~Locked
    /\ calling' = [calling EXCEPT ![p] = [at |-> "append", seen |-> value]]
    /\ UNCHANGED <<component, operation, flag, configRun, configStarts, value, used, setBefore, admitted>>

AppendStores(p) ==
    /\ calling[p].at = "append"
    /\ value' = calling[p].seen \cup {p}
    /\ CallGoes(p, "returned")
    /\ UNCHANGED <<component, operation, flag, configRun, configStarts, used, setBefore, admitted>>

Assign(p) ==
    /\ calling[p].at = "checked" /\ Kind = "field"
    /\ value' = {p}
    /\ CallGoes(p, "returned")
    /\ UNCHANGED <<component, operation, flag, configRun, configStarts, used, setBefore, admitted>>

-----------------------------------------------------------------------------
(* The component. *)

\* Start, Listen and Freeze set the flag first; a component without one just runs.
StartSetsFlag ==
    /\ configRun = "idle" /\ component \notin FrozenByServe /\ configStarts < MaxConfigRuns
    /\ flag' = (component \notin NeverFrozen)
    /\ configRun' = "run" /\ configStarts' = configStarts + 1 /\ setBefore' = Returned
    /\ admitted' = Carried
    /\ UNCHANGED <<component, operation, value, used, calling>>

\* A jack's Serve copies its configuration first and sets the flag then.
ServeSnapshots ==
    /\ configRun = "idle" /\ component \in FrozenByServe /\ configStarts < MaxConfigRuns
    /\ used' = value
    /\ configRun' = "snapshot" /\ configStarts' = configStarts + 1 /\ setBefore' = Returned
    /\ UNCHANGED <<component, operation, flag, value, calling, admitted>>

ServeFreezes ==
    /\ configRun = "snapshot"
    /\ flag' = TRUE /\ configRun' = "run" /\ admitted' = Carried
    /\ UNCHANGED <<component, operation, configStarts, value, used, calling, setBefore>>

\* Stop clears the flag, where it does, before the workers have ended.
StopClearsFlag ==
    /\ configRun = "run"
    /\ flag' = IF component \in FrozenUntilStop THEN FALSE ELSE flag
    /\ configRun' = "ending"
    /\ UNCHANGED <<component, operation, configStarts, value, used, calling, setBefore, admitted>>

StopEnds ==
    /\ configRun = "ending"
    /\ configRun' = "idle"
    /\ UNCHANGED <<component, operation, flag, configStarts, value, used, calling, setBefore, admitted>>

ConfigNext ==
    \/ \E p \in ConfigCallers :
          RequireNotFrozen(p) \/ AppendLocked(p) \/ AppendLoads(p) \/ AppendStores(p) \/ Assign(p)
    \/ StartSetsFlag \/ ServeSnapshots \/ ServeFreezes \/ StopClearsFlag \/ StopEnds

ConfigSpec == ConfigInit /\ [][ConfigNext]_configurationVars

-----------------------------------------------------------------------------
(* Properties. *)

\* What a Connect under a lock has added stays added, whichever calls overlap;
\* the bare appends (ConnectInput and ConnectOutput of the relays, for example)
\* may lose an argument when two calls overlap. A jack serves what was set by
\* calls that had returned when Serve was called.
ConnectedKept ==
    Kind = "locked" =>
        /\ Returned \subseteq value
        /\ configRun = "run" /\ component \in FrozenByServe => setBefore \subseteq used

\* However calls and starts overlap, a running component that freezes holds only
\* what it held when the flag was set, or what calls that were past their check
\* then brought or had read: a third append may bring back what a second dropped.
FrozenStays == configRun = "run" /\ component \notin NeverFrozen => value \subseteq admitted

\* What configuring promises: nothing connected is lost, nothing frozen changes.
ConfigSound == ConnectedKept /\ FrozenStays
=============================================================================
