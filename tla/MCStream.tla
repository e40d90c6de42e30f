------------------------------ MODULE MCStream ------------------------------
(* Instances of Stream with short headers: bytes of four values, a length    *)
(* of up to 4 in two bytes.                                                  *)
EXTENDS Stream, SequencesExt

MCLayout == [data    |-> [at |-> 3, guard |-> 3, fixed |-> 7, max |-> 11],
             upgrade |-> [at |-> 2, guard |-> 1, fixed |-> 6, max |-> 10]]

\* A packet with its content, and with something in front of its length field
Pack(kind, front, content) ==
  LET n == Len(content) IN
    [kind  |-> kind,
     bytes |-> <<HeadFlag>> \o [i \in 1 .. MCLayout[kind].at - 1 |-> front]
               \o <<n % Radix, n \div Radix>> \o content \o <<0, EndFlag>>]

Junk(bytes) == [kind |-> "junk", bytes |-> bytes]

Short1 == Pack("data", 0, <<1>>)
Long   == Pack("data", 0, <<0, 0, 0, 0>>)
FalseHead  == Pack("data", 0, <<HeadFlag, 0, 0>>)
Early  == Pack("data", HeadFlag, <<>>)
USmall == Pack("upgrade", 0, <<1>>)
ULong  == Pack("upgrade", 1, <<0, 0, 0, 0>>)

\* The bytes of some packets and junk
Spell(units) ==
  FlattenSeq([u \in 1 .. Len(units) |->
    [k \in 1 .. Len(units[u].bytes) |->
      [b |-> units[u].bytes[k], u |-> u, k |-> k, n |-> Len(units[u].bytes), kind |-> units[u].kind]]])

MCTexts == {Spell(t) : t \in {
            <<Long, Short1, FalseHead>>, <<Junk(<<1, HeadFlag, 0>>), FalseHead, Early>>, <<FalseHead, Long, Short1>>,
            <<Short1, ULong, USmall>>, <<ULong, USmall, ULong>>, <<Early, Junk(<<HeadFlag>>), Long>>,
            <<Long, Early, Short1>>}}

MCBufLen == [tcp |-> 20, serial |-> 9]
MCSegs   == [tcp |-> {1, 4, 9}, serial |-> {1, 2, 5}]
=============================================================================
