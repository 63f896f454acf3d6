--------------------------- MODULE MCForwardRelay ---------------------------
EXTENDS ForwardRelay, TLC

CONSTANTS r1, o1, k1, k2

OneReader == {r1}
OneOutsider == {o1}
TwoStoppers == {k1, k2}
OneTarget == <<"a">>

AllVariants == {<<"grpc", "block">>, <<"quic", "drop">>, <<"websocket", "error">>,
                <<"webtransport", "datagram">>}

=============================================================================
