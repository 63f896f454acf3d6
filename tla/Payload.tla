------------------------------ MODULE Payload ------------------------------
(***************************************************************************)
(* What a record goes through between the two ends of a relay, and between *)
(* the writer and the reader of a store.                                   *)
(*   relay  encode, compress, seal; the options travel in the metadata of  *)
(*          the payload or, when that is left out, in the defaults of the  *)
(*          stream, which a datagram does not have; passthrough relays may *)
(*          stand in between; the receiver opens, decompresses and decodes *)
(*          (WrapPayload of forwardrelay for gRPC and QUIC, of relaycodec  *)
(*          for WebSocket and WebTransport; UnwrapPayload of               *)
(*          receivingrelay for all four).                                  *)
(*   store  objects of s3client and rows of postgresclient, sealed on the  *)
(*          client's side or not.                                          *)
(*                                                                         *)
(* A payload is the sequence of its layers, the innermost first: the       *)
(* encoding, <<"zip", algorithm>>, <<"aes", key>>.  A layer comes off only *)
(* with the algorithm or the key that put it on.  Both ends use the same   *)
(* Go type; its kind is what the codecs tell apart.  Options that are nil, *)
(* disabled or of another suite mean the same everywhere: "off".           *)
(***************************************************************************)
EXTENDS Naturals, Sequences, SequencesExt

CONSTANTS
    RelayKinds,    \* subset of {"grpc", "quic", "ws", "wt", "web"}: "web" is a gRPC-Web client
    StoreKinds,    \* subset of {"s3", "postgres"}
    PayloadKinds,  \* subset of {"struct", "proto", "bytes"}
    Algorithms,    \* compression algorithms, with "none" and unknown ones
    RawKeys,       \* key strings of 16, 24 or 32 bytes
    CodedKeys,     \* [longer hex or base64 string -> the raw key it codes]
    BadKeys,       \* key strings of no use
    MaxHops        \* passthrough relays in between

ASSUME PayloadAssumption ==
    /\ RelayKinds \subseteq {"grpc", "quic", "ws", "wt", "web"} /\ MaxHops \in Nat
    /\ StoreKinds \subseteq {"s3", "postgres"}
    /\ \A k \in DOMAIN CodedKeys : CodedKeys[k] \in RawKeys
    /\ "" \notin RawKeys \cup DOMAIN CodedKeys

VARIABLES
    carrier,       \* "" until a sender or writer is chosen, then its kind
    origin,        \* configuration of the sender or the writer
    hops,          \* passthrough relays still ahead
    envelope,      \* what is on the wire or in the store
    defaults,      \* defaults of the stream the envelope travels on
    reader,        \* configuration of the end that read it
    reading        \* "", "item", "garbled" or "error"

payloadVars == <<carrier, origin, hops, envelope, defaults, reader, reading>>

NoMeta == [perf |-> "off", sec |-> "off", type |-> "", set |-> FALSE]
Nothing == [layers |-> <<>>, enc |-> "", typeName |-> "", meta |-> NoMeta]
Failed == [Nothing EXCEPT !.enc = "failed"]
AllKeys == RawKeys \cup DOMAIN CodedKeys \cup BadKeys \cup {""}
Compressed(alg) == alg \notin {"off", "none", "unknown"}

----------------------------------------------------------------------------
(* The sending end. *)

\* Exactly one of the two: AES-GCM enabled with a key, or neither.
validateEncryptionRequirement(sec, key) == (sec = "aes") <=> (key # "")

\* The sender also takes a key as hex or base64 of its bytes; "" stands for an error.
normalizeAESKey(key) ==
    IF key \in RawKeys THEN key
    ELSE IF key \in DOMAIN CodedKeys THEN CodedKeys[key] ELSE ""

\* An algorithm that is none of the five leaves the data as it is.
compressData(layers, alg) ==
    IF Compressed(alg) THEN Append(layers, <<"zip", alg>>) ELSE layers

encryptData(layers, sec, key) ==
    IF sec = "aes" THEN Append(layers, <<"aes", key>>) ELSE layers

\* forwardrelay always encodes with gob and says nothing of the encoding.
GobPayload == [code |-> "gob", type |-> "octets", enc |-> ""]

\* relaycodec encodes by the configured format; a gRPC-Web client sends JSON.
EncodePayload(s) ==
    IF s.kind \in {"grpc", "quic"} THEN GobPayload
    ELSE IF s.kind = "web" THEN [code |-> "json", type |-> "", enc |-> ""]
    ELSE CASE s.format = "json"  -> [code |-> "json", type |-> "json", enc |-> ""]
           [] s.format = "proto" -> [code |-> "proto", type |-> "protobuf", enc |-> "proto"]
           [] s.format = "bytes" -> [code |-> "bytes", type |-> "octets", enc |-> ""]
           [] OTHER              -> [code |-> "gob", type |-> "octets", enc |-> "gob"]

Encodable(s) == \/ s.kind \in {"grpc", "quic"} \/ s.format \in {"json", "gob"}
                \/ <<s.format, s.target>> \in {<<"proto", "proto">>, <<"bytes", "bytes">>}

WrapPayload(s) ==
    LET e == EncodePayload(s)
        packed == compressData(<< <<e.code, s.target>> >>, s.perf)
    IN IF ~Encodable(s) \/ ~validateEncryptionRequirement(s.sec, s.key)
          \/ (s.sec = "aes" /\ normalizeAESKey(s.key) = "")
       THEN Failed
       ELSE [layers |-> encryptData(packed, s.sec, normalizeAESKey(s.key)),
             enc |-> e.enc, typeName |-> s.typeName,
             meta |-> [perf |-> s.perf, sec |-> s.sec, type |-> e.type, set |-> TRUE]]

\* The defaults a relay sends when it opens a stream.
QuicDefaults(s) == [perf |-> s.perf, sec |-> s.sec, type |-> "octets", set |-> TRUE]

WsDefaults(s) ==
    [QuicDefaults(s) EXCEPT !.type = IF s.kind = "web" THEN ""
                                     ELSE CASE s.format = "json"  -> "json"
                                            [] s.format = "proto" -> "protobuf"
                                            [] OTHER              -> "octets"]

buildStreamDefaults(s) == IF s.kind \in {"grpc", "quic"} THEN QuicDefaults(s) ELSE WsDefaults(s)

\* gRPC always leaves the metadata out, the others when told to.
Omitted(s, wp) == IF s.kind = "grpc" \/ s.omit THEN [wp EXCEPT !.meta = NoMeta] ELSE wp

Senders ==
    { s \in [kind : RelayKinds, format : {"json", "gob", "proto", "bytes"}, target : PayloadKinds,
             perf : Algorithms \cup {"off"}, sec : {"off", "aes"}, key : AllKeys,
             omit : BOOLEAN, datagram : BOOLEAN, typeName : {"", "same", "other"}] :
         /\ s.datagram => s.kind = "wt"
         /\ s.kind \in {"grpc", "quic"} => s.format = "gob" /\ s.typeName = ""
         /\ s.format # "proto" => s.typeName = ""
         /\ s.kind = "web" => s.format = "json"
         /\ s.kind = "grpc" => ~s.omit }

\* The defaults of the stream reach the receiver of what is sent on the stream; a
\* WebTransport datagram is the bare payload, and its receiver uses none.
DefaultsSeen(datagram, ofStream) == IF datagram THEN NoMeta ELSE ofStream

\* A Submit of an item on a relay that is no passthrough.
Submit(s) ==
    /\ carrier' = "relay" /\ origin' = s
    /\ defaults' = DefaultsSeen(s.datagram, buildStreamDefaults(s))
    /\ envelope' = Omitted(s, WrapPayload(s))
    /\ reading' = IF WrapPayload(s) = Failed THEN "error" ELSE ""
    /\ hops' \in 0 .. MaxHops
    /\ UNCHANGED reader

----------------------------------------------------------------------------
(* The receiving end. *)

\* The metadata a receiver uses: the payload's own or the stream's defaults.
EffectiveMeta(wp, dflt) == IF wp.meta.set THEN wp.meta ELSE dflt

\* With gRPC-Web a payload of no content type is read as JSON.
applyGRPCWebContentTypeDefaults(wp, meta) ==
    IF meta.type = "" /\ wp.enc \in {"", "gob"}
    THEN [perf |-> meta.perf, sec |-> meta.sec, type |-> "json", set |-> TRUE]
    ELSE meta

MetaSeen(wp, dflt, web) ==
    IF web THEN applyGRPCWebContentTypeDefaults(wp, EffectiveMeta(wp, dflt))
    ELSE EffectiveMeta(wp, dflt)

\* A passthrough relay hands the payload, with the metadata it used, to a
\* passthrough forward relay, which sends it as it is.
asPassthroughPayload(wp) == wp

\* The stream a passthrough relay opens has no options of its own.
PassthroughDefaults == [perf |-> "off", sec |-> "off", type |-> "octets", set |-> TRUE]

\* A datagram arrives at a WebTransport relay, which knows nothing of gRPC-Web.
Hop(web, datagram) ==
    /\ carrier = "relay" /\ reading = "" /\ hops > 0
    /\ (web => defaults.set) /\ (datagram => "wt" \in RelayKinds)
    /\ envelope' = asPassthroughPayload([envelope EXCEPT !.meta = MetaSeen(envelope, defaults, web)])
    /\ defaults' = DefaultsSeen(datagram, PassthroughDefaults)
    /\ hops' = hops - 1
    /\ UNCHANGED <<carrier, origin, reader, reading>>

\* The key is used as it stands; <<>> stands for an error.
decryptData(layers, sec, key) ==
    IF sec # "aes" THEN layers
    ELSE IF key \in RawKeys /\ Last(layers) = <<"aes", key>> THEN Front(layers) ELSE <<>>

decompressData(layers, alg) ==
    IF layers = <<>> \/ ~Compressed(alg) THEN layers
    ELSE IF Last(layers) = <<"zip", alg>> THEN Front(layers) ELSE <<>>

\* Raw bytes that happen to read as JSON, and bytes of another encoding read
\* as protobuf, are an error or decode to something else.
JSONOutcomes(layers) ==
    IF Len(layers) # 1 THEN {"error"}
    ELSE CASE layers[1][1] = "json" -> {"item"} [] layers[1][1] = "bytes" -> {"error", "garbled"}
           [] OTHER -> {"error"}

decodeProtoInto(layers, typeName, target) ==
    IF target # "proto" \/ typeName = "other" \/ layers = <<>> THEN {"error"}
    ELSE IF layers = << <<"proto", target>> >> THEN {"item"} ELSE {"error", "garbled"}

GobOutcomes(layers, target) ==
    IF layers = << <<"gob", target>> >> THEN {"item"}
    ELSE IF target = "proto" THEN {"error"}
    ELSE IF Len(layers) = 1 /\ <<layers[1][1], target>> # <<"json", "bytes">> THEN JSONOutcomes(layers)
    ELSE {"error"}

MutUnwrapPayload(wp, key, target) ==
    LET plain == decompressData(decryptData(wp.layers, wp.meta.sec, key), wp.meta.perf)
        enc == IF wp.enc # "" THEN wp.enc ELSE IF target = "proto" THEN "proto" ELSE "gob"
    IN IF wp.meta.type = "json" /\ target # "proto" THEN JSONOutcomes(plain)
       ELSE IF enc = "gob" THEN GobOutcomes(plain, target)
       ELSE decodeProtoInto(plain, wp.typeName, target)

UnwrapPayload(wp, key, target) ==
    LET plain == decompressData(decryptData(wp.layers, wp.meta.sec, key), wp.meta.perf)
        enc == IF wp.enc # "" THEN wp.enc ELSE IF target = "proto" THEN "proto" ELSE "gob"
    IN IF key # "" /\ wp.meta.sec # "aes" THEN {"error"}
       ELSE IF wp.meta.type = "json" /\ target # "proto" THEN JSONOutcomes(plain)
       ELSE IF enc = "gob" THEN GobOutcomes(plain, target)
       ELSE decodeProtoInto(plain, wp.typeName, target)

\* The last receiver, with or without gRPC-Web.
Receive(key, web) ==
    /\ carrier = "relay" /\ reading = "" /\ hops = 0 /\ (web => defaults.set)
    /\ LET seen == [envelope EXCEPT !.meta = MetaSeen(envelope, defaults, web)]
       IN reading' \in UnwrapPayload(seen, key, origin.target)
    /\ reader' = [key |-> key, require |-> key # "", web |-> web]
    /\ UNCHANGED <<carrier, origin, hops, envelope, defaults>>

----------------------------------------------------------------------------
(* The stores. *)

\* A key of the stores is the hex string of 32 bytes.
parseAESGCMKeyHex(key) == key \in RawKeys

\* Writers and readers of a store with a configuration they accept; mode is
\* set when a key, the mode or the requirement is.  A Postgres row says
\* whether it is sealed when its table has the column for it.
StoreConfigs(kind) ==
    { c \in [kind : {kind}, key : RawKeys \cup {""}, mode : BOOLEAN, require : BOOLEAN,
             gzip : BOOLEAN, column : BOOLEAN, format : {"json", "bytes"}] :
         /\ c.key # "" => c.mode /\ parseAESGCMKeyHex(c.key)
         /\ kind = "s3" => c.column /\ c.format = "json" /\ (c.require => c.mode)
         /\ kind = "postgres" => ~c.gzip }

validateWriterSecurityConfig(c) == c.mode => c.key # ""
validateReaderSecurityConfig(c) == c.require => c.key # ""
resolveWriterEncryption(c) == (c.require \/ c.mode) => c.key # ""
resolveReaderEncryption(c) == (c.require \/ c.mode) => c.key # ""

encryptAESGCM(layers, key) == Append(layers, <<"aes", key>>)
decryptAESGCM(layers, key) == IF Last(layers) = <<"aes", key>> THEN Front(layers) ELSE <<>>

encodePayload(c) == << <<c.format, "struct">> >>

StoredAs(layers, enc, meta) == [layers |-> layers, enc |-> enc, typeName |-> "", meta |-> meta]

\* applyCSE: the content encoding moves into the metadata of a sealed object.
applyCSE(c, layers) ==
    IF ~c.mode THEN StoredAs(layers, IF c.gzip THEN "gzip" ELSE "", NoMeta)
    ELSE StoredAs(encryptAESGCM(layers, c.key), "",
                  [perf |-> IF c.gzip THEN "gzip" ELSE "off", sec |-> "aes", type |-> "octets", set |-> TRUE])

PutObject(c) ==
    applyCSE(c, IF c.gzip THEN Append(encodePayload(c), <<"zip", "gzip">>) ELSE encodePayload(c))

\* The row carries its flag only when the column exists.
RowFlag(c) == [NoMeta EXCEPT !.sec = IF c.column THEN "aes" ELSE "off"]

InsertRow(c) ==
    IF c.mode THEN StoredAs(encryptAESGCM(encodePayload(c), c.key), "", RowFlag(c))
    ELSE StoredAs(encodePayload(c), "", NoMeta)

Write(c) ==
    /\ carrier' = c.kind /\ origin' = c
    /\ IF c.kind = "s3" THEN validateWriterSecurityConfig(c) ELSE resolveWriterEncryption(c)
    /\ envelope' = IF c.kind = "s3" THEN PutObject(c) ELSE InsertRow(c)
    /\ UNCHANGED <<hops, defaults, reader, reading>>

\* A line or a row is decoded by the reader's format.
DecodeStored(layers, format) ==
    IF layers = <<>> THEN "error"
    ELSE IF layers = << <<format, "struct">> >> THEN "item"
    ELSE IF format = "bytes" THEN "garbled" ELSE "error"

\* Also the check of a row's flag in Fetch of postgresclient.
decryptIfNeeded(c, obj) ==
    IF obj.meta.sec # "aes" THEN IF c.require THEN <<>> ELSE obj.layers
    ELSE IF c.key = "" THEN <<>> ELSE decryptAESGCM(obj.layers, c.key)

\* The encoding is the object's own or the one kept in the metadata.
Unzipped(obj, layers) ==
    decompressData(layers, IF obj.meta.sec = "aes" THEN obj.meta.perf
                           ELSE IF obj.enc = "gzip" THEN "gzip" ELSE "off")

Fetch(c) ==
    /\ reading = ""
    /\ IF c.kind = "s3" THEN validateReaderSecurityConfig(c) ELSE resolveReaderEncryption(c)
    /\ LET seen == IF c.column THEN envelope ELSE [envelope EXCEPT !.meta = NoMeta]
       IN reading' = DecodeStored(Unzipped(seen, decryptIfNeeded(c, seen)), c.format)
    /\ reader' = c
    /\ UNCHANGED <<carrier, origin, hops, envelope, defaults>>

----------------------------------------------------------------------------
PayloadInit ==
    /\ carrier = "" /\ origin = [kind |-> ""] /\ hops = 0 /\ envelope = Nothing
    /\ defaults = NoMeta /\ reader = [kind |-> ""] /\ reading = ""

PayloadNext ==
    \/ carrier = "" /\ \E s \in Senders : Submit(s)
    \/ \E web, datagram \in BOOLEAN : Hop(web, datagram)
    \/ \E key \in AllKeys, web \in BOOLEAN : Receive(key, web)
    \/ carrier = "" /\ \E kind \in StoreKinds : \E c \in StoreConfigs(kind) : Write(c)
    \/ carrier \in StoreKinds /\ \E c \in StoreConfigs(carrier) : Fetch(c)

PayloadSpec == PayloadInit /\ [][PayloadNext]_payloadVars

----------------------------------------------------------------------------
\* What a receiving relay of the same type can read at all: not raw bytes, and
\* a protobuf message only when it was sent as one.
Readable(s) ==
    /\ s.format # "bytes" /\ s.typeName # "other"
    /\ s.target = "proto" => s.kind \in {"ws", "wt"} /\ s.format = "proto"

\* A datagram sent without its metadata, which is the default, says of itself
\* neither that it is compressed or sealed nor that raw bytes travel as JSON.
Undescribed(s) ==
    /\ s.datagram /\ s.omit
    /\ Compressed(s.perf) \/ s.sec = "aes" \/ <<s.format, s.target>> = <<"json", "bytes">>

(* Two ends that hold the same key understand each other: whatever the     *)
(* transport, the format, the compression, whether the metadata is left    *)
(* out, and however many passthrough relays the payload crosses, a payload *)
(* that was wrapped is delivered as the item it was made of; so is an      *)
(* object or a row read with the format, key and column it was written     *)
(* with.  The exception is a WebTransport datagram whose metadata is left  *)
(* out although it is needed: that one is never delivered as the item.     *)
MatchedDelivers ==
    /\ carrier = "relay" /\ "key" \in DOMAIN reader /\ Readable(origin)
          /\ reader.key = normalizeAESKey(origin.key) /\ (origin.kind = "web" => reader.web)
       => IF Undescribed(origin) THEN reading # "item" ELSE reading = "item"
    /\ carrier \in StoreKinds /\ "key" \in DOMAIN reader
          /\ reader.key = origin.key /\ reader.format = origin.format
          /\ (origin.mode => reader.column /\ origin.column)
       => reading = "item"

(* An end that has a decryption key, or that requires encryption, hands on *)
(* nothing but what was sealed with its own key: a plain payload, one      *)
(* whose defaults got lost on the way, or one sealed with another key, is  *)
(* refused.                                                                *)
KeyedRefusesPlain ==
    "require" \in DOMAIN reader /\ reader.require /\ reading \in {"item", "garbled"}
       => <<"aes", reader.key>> \in Range(envelope.layers)

\* What the two ends of a payload's way promise each other.
PayloadSound == MatchedDelivers /\ KeyedRefusesPlain
=============================================================================
