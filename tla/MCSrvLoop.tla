----------------------------- MODULE MCSrvLoop ------------------------------
EXTENDS SrvLoop

Pkt(level, pn, frames) == [level |-> level, pn |-> pn, frames |-> frames]
Crypto(msg, off, len) == [t |-> "CRYPTO", msg |-> msg, off |-> off, len |-> len]
Req(req, off, len, fin) == [t |-> "REQUEST", req |-> req, off |-> off, len |-> len, fin |-> fin]

Hello == Pkt(INITIAL, 0, <<Frame("PADDING"), Crypto(CLIENT_HELLO, 0, 3)>>)
HelloRest == Pkt(INITIAL, 1, <<Crypto(CLIENT_HELLO, 3, 2)>>)   \* runs past the buffer
HsAck == Pkt(HANDSHAKE, 0, <<Frame("ACK")>>)
Fin1 == Pkt(HANDSHAKE, 1, <<Crypto(FINISHED, 0, 1)>>)
Fin2 == Pkt(HANDSHAKE, 5, <<Crypto(FINISHED, 1, 1)>>)
Uni == Pkt(ONERTT, 0, <<Frame("UNI")>>)
Post1 == Pkt(ONERTT, 1, <<Req(1, 0, 1, FALSE), Req(1, 1, 1, TRUE)>>)
Head2 == Pkt(ONERTT, 2, <<Frame("ACK"), Req(2, 0, 1, FALSE)>>)
Body2 == Pkt(ONERTT, 3, <<Req(2, 1, 1, TRUE)>>)
Long3 == Pkt(ONERTT, 4, <<Req(3, 0, 1, FALSE), Req(3, 1, 2, FALSE), Req(3, 3, 1, TRUE)>>)

\* Every packet alone, and the coalescings a client makes.
ClientDatagrams ==
  {<<p>> : p \in {Hello, HelloRest, HsAck, Fin1, Fin2, Uni, Post1, Head2, Body2, Long3}}
  \cup {<<Hello, HsAck>>, <<Fin1, Fin2>>, <<Fin2, Post1>>, <<Post1, Head2>>, <<Head2, Body2>>}

AnyRoom == SUBSET {HANDSHAKE, ONERTT}
FullRoom == {{HANDSHAKE, ONERTT}}
=============================================================================
