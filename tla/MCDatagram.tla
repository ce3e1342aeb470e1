------------------------------ MODULE MCDatagram ------------------------------
\* Datagram for TLC: one byte is a valid header by itself, another decodes to
\* a header of the wrong version, and anything else does not decode.
EXTENDS Datagram

Bytes3 == {"sep", "good", "old"}

SomeDatagrams == UNION {[1 .. n -> Bytes3] : n \in 1 .. receiveBufferSize}

Unmarshal(h) ==
  CASE h = <<"good">> -> [Format |-> "JSON", Version |-> 1]
    [] h = <<"old">>  -> [Format |-> "json", Version |-> 0]
    [] OTHER          -> [Format |-> "", Version |-> 0]
=============================================================================
