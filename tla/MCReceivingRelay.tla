-------------------------- MODULE MCReceivingRelay --------------------------
EXTENDS ReceivingRelay, TLC

CONSTANTS s1, u1

OneStream == {s1}
OneUnary == {u1}
Intervals == {0, 2}

AllTransports == {"grpc", "quic", "websocket", "webtransport"}
=============================================================================
