------------------------------- MODULE Stream -------------------------------
(***************************************************************************)
(* Packets out of a byte stream: tcp_stream_handler with its two parsers,   *)
(* and uart_pkt_handler, which does the same for the serial port with a     *)
(* smaller buffer.  The bytes of the packets come in segments of any size;  *)
(* they are appended to packed_data, of which netbuf_len bytes count and    *)
(* the rest is what earlier packets left there.                            *)
(*                                                                         *)
(* A byte is its value b, the unit u it belongs to (a packet or junk, of n   *)
(* bytes) and its place k there.  A checksum is right for the bytes of a     *)
(* whole packet and for no others.                                          *)
(* The parsers are told apart by Layout: where the length field is, how     *)
(* many bytes they ask for before they read it, what they add to it, and    *)
(* the longest packet they believe in.  The source has the four numbers as  *)
(* 17, 17, 22, 300 for data and 7, 5, 11, 267 for upgrade packets.          *)
(***************************************************************************)
EXTENDS Integers, Sequences, FiniteSetsExt

CONSTANTS Kinds,      \* "data", "upgrade"
          Layout,     \* Layout[k]: at, guard, fixed, max
          HeadFlag, EndFlag,  \* 0x68, 0x16
          Radix,      \* values of a byte
          Texts,      \* what may be sent: units one after the other
          BufLen,     \* size of packed_data of each port
          Segs,       \* lengths of the segments of each port
          MaxSwitch   \* changes of device_state to and from DEVICE_STATE_UPGRADE

Ports == {"tcp", "serial"}

Chars == [b : 0 .. Radix - 1, u : Nat, k : Nat, n : Nat, kind : Kinds \cup {"junk"}]

\* The byte at p is one of a whole unit
InUnit(t, p) ==
  LET c == t[p]  s == p - c.k IN
    /\ c.k \in 1 .. c.n /\ 0 <= s /\ s + c.n <= Len(t)
    /\ \A j \in 1 .. c.n : LET d == t[s + j] IN
         d.u = c.u /\ d.k = j /\ d.n = c.n /\ d.kind = c.kind

\* A packet as the platform makes it: its length field says how long it is
WellFormed(t, p) ==
  LET c == t[p]  s == p - c.k  lay == Layout[c.kind] IN
    /\ c.n \in lay.fixed .. lay.max
    /\ t[s + 1].b = HeadFlag /\ t[s + c.n].b = EndFlag
    /\ t[s + lay.at + 1].b + Radix * t[s + lay.at + 2].b + lay.fixed = c.n

\* Units follow one another and are numbered in their order
IsText(t) ==
  /\ t \in Seq(Chars)
  /\ \A p \in 1 .. Len(t) : InUnit(t, p) /\ (t[p].kind # "junk" => WellFormed(t, p))
  /\ \A p, q \in 1 .. Len(t) : p < q =>
       t[p].u < t[q].u \/ (t[p].u = t[q].u /\ q - p = t[q].k - t[p].k)

ASSUME StreamAssumption ==
  /\ Layout \in [Kinds -> [at : Nat, guard : Nat, fixed : Nat, max : Nat]]
  /\ \A k \in Kinds : /\ Layout[k].guard <= Layout[k].at + 2
                      /\ Layout[k].at + 4 <= Layout[k].fixed /\ Layout[k].fixed <= Layout[k].max
  /\ "data" \in Kinds /\ "junk" \notin Kinds
  /\ Radix \in Nat \ {0} /\ {HeadFlag, EndFlag} \subseteq 0 .. Radix - 1
  /\ \A t \in Texts : IsText(t)
  /\ BufLen \in [Ports -> Nat \ {0}] /\ Segs \in [Ports -> SUBSET (Nat \ {0})] /\ MaxSwitch \in Nat
  \* packed_data[256] for more than a header, packed_data[1024] for less than
  \* a packet and a segment
  /\ Layout["data"].at + 1 < BufLen["serial"]
  /\ \A k \in Kinds, n \in Segs["tcp"] : Layout[k].max - 1 + n <= BufLen["tcp"]

VARIABLES port, text,    \* the port and what is sent to it (constant)
          mem, len,      \* packed_data as positions in text, netbuf_len or serialbuf_len
          arrived,       \* bytes received
          mode,          \* the parser device_state selects
          pc, found,     \* where the handler is; the packet to be passed on
          out,           \* packets given to MsgDeal_Send: for which service, and whether it was sent
          lost,          \* packets whose head was dropped, and why (history)
          refused,       \* packets some bytes of which did not come or fit (history)
          switches       \* bound

vars == <<port, text, mem, len, arrived, mode, pc, found, out, lost, refused, switches>>

Buf == BufLen[port]

Init ==
  /\ port \in Ports /\ text \in Texts
  /\ port = "serial" => \A p \in 1 .. Len(text) : text[p].kind # "upgrade"
  /\ mem = [i \in 0 .. Buf - 1 |-> 0] /\ len = 0 /\ arrived = 0
  /\ mode = "data" /\ pc = "idle" /\ found = 0
  /\ out = <<>> /\ lost = {} /\ refused = {} /\ switches = 0

-----------------------------------------------------------------------------
\* packed_data is zero at the start
Byte(i) == IF mem[i] = 0 THEN 0 ELSE text[mem[i]].b

\* _SearchFlag
Flags  == {i \in 0 .. len - 1 : Byte(i) = HeadFlag}
Offset == Min(Flags)

L == Layout[mode]

\* _GetTotalLen, _GetUpgradeTotalLen: both bytes are read whether they have
\* arrived or not; behind the end of packed_data they may be anything
TotalLens ==
  IF Offset + L.at + 1 < Buf THEN {Byte(Offset + L.at) + Radix * Byte(Offset + L.at + 1) + L.fixed}
                             ELSE {L.fixed, L.max + 1}

\* _CheckPackValid, _CheckUpgradePackValid
Valid(n) ==
  LET first == text[mem[Offset]] IN
    /\ first.k = 1 /\ first.n = n /\ first.kind = mode
    /\ \A i \in 0 .. n - 1 : mem[Offset + i] = mem[Offset] + i

\* Fault: any length is believed
ShortOrLong(n) == Offset + n > len

\* Fault: the last byte may be missing
FitsAlmost(n) == n <= L.max /\ Offset + n <= len + 1

\* The checks a packet of total length n passes up to the end of the buffer
Short(n) == n <= L.max /\ Offset + n > len
Fits(n)  == n <= L.max /\ Offset + n <= len

\* memcpy to the front; what is behind stays
Shift(n) ==
  /\ mem' = [i \in 0 .. Buf - 1 |-> IF i < len - n THEN mem[i + n] ELSE mem[i]]
  /\ len' = len - n

-----------------------------------------------------------------------------
\* Fault: a segment is appended whether it fits or not
ReceiveAll(n) ==
  /\ pc = "idle" /\ arrived + n <= Len(text)
  /\ mem' = [i \in 0 .. Buf - 1 |-> IF i \in len .. len + n - 1 THEN arrived + 1 + i - len ELSE mem[i]]
  /\ len' = len + n /\ arrived' = arrived + n
  /\ pc' = "parse"
  /\ UNCHANGED <<port, text, mode, found, out, lost, refused, switches>>

\* A segment (a pbuf) is appended
Receive(n) ==
  /\ pc = "idle" /\ arrived + n <= Len(text)
  /\ len + n <= Buf
  /\ mem' = [i \in 0 .. Buf - 1 |-> IF i \in len .. len + n - 1 THEN arrived + 1 + i - len ELSE mem[i]]
  /\ len' = len + n /\ arrived' = arrived + n
  /\ pc' = "parse"
  /\ UNCHANGED <<port, text, mode, found, out, lost, refused, switches>>

\* A segment that does not fit is dropped, over TCP with what is there
Overflow(n) ==
  /\ pc = "idle" /\ arrived + n <= Len(text)
  /\ len + n > Buf
  /\ len' = IF port = "tcp" THEN 0 ELSE len
  /\ arrived' = arrived + n
  /\ refused' = refused \cup {text[p].u : p \in arrived + 1 .. arrived + n}
                        \cup IF port = "tcp" THEN {text[mem[i]].u : i \in 0 .. len - 1} ELSE {}
  /\ UNCHANGED <<port, text, mem, mode, pc, found, out, lost, switches>>

\* The connection is lost inside a packet and made again; what came of the
\* packet stays in packed_data, the platform begins with another one
Reconnect ==
  /\ port = "tcp" /\ pc = "idle"
  /\ arrived \in 1 .. Len(text) - 1 /\ text[arrived].k < text[arrived].n
  /\ arrived' = arrived + text[arrived].n - text[arrived].k
  /\ refused' = refused \cup {text[arrived].u}
  /\ UNCHANGED <<port, text, mem, len, mode, pc, found, out, lost, switches>>

\* No 0x68: everything is dropped
NoHead ==
  /\ pc = "parse" /\ len > 0 /\ Flags = {}
  /\ len' = 0 /\ pc' = "idle"
  /\ UNCHANGED <<port, text, mem, arrived, mode, found, out, lost, refused, switches>>

\* Not enough yet: what is in front of the 0x68 is dropped, if there is any
Wait ==
  /\ pc = "parse" /\ Flags # {}
  /\ \/ Offset + L.guard > len
     \/ \E n \in TotalLens : Short(n)
  /\ Shift(Offset)
  /\ pc' = IF Offset = 0 THEN "idle" ELSE "parse"
  /\ UNCHANGED <<port, text, arrived, mode, found, out, lost, refused, switches>>

\* Fault: a packet that is wrong is dropped whole
DropWhole ==
  /\ pc = "parse" /\ Flags # {} /\ Offset + L.guard <= len
  /\ \E n \in TotalLens :
       /\ Fits(n) /\ ~(Byte(Offset + n - 1) = EndFlag /\ Valid(n))
       /\ Shift(Offset + n)
  /\ pc' = IF len' = 0 THEN "idle" ELSE "parse"
  /\ UNCHANGED <<port, text, arrived, mode, found, out, lost, refused, switches>>

\* Too long, without 0x16 at its end or with a wrong checksum: the 0x68 is
\* dropped and what is behind it looked at again
Drop ==
  /\ pc = "parse" /\ Flags # {} /\ Offset + L.guard <= len
  /\ \E n \in TotalLens : \/ n > L.max
                          \/ Fits(n) /\ ~(Byte(Offset + n - 1) = EndFlag /\ Valid(n))
  /\ LET head == text[mem[Offset]] IN
       lost' = IF head.k = 1 /\ head.kind # "junk"
               THEN lost \cup {[u |-> head.u, have |-> len - Offset, own |-> head.kind = mode]}
               ELSE lost
  /\ Shift(Offset + 1)
  /\ pc' = IF len' = 0 THEN "idle" ELSE "parse"
  /\ UNCHANGED <<port, text, arrived, mode, found, out, refused, switches>>

\* A packet is there
Find ==
  /\ pc = "parse" /\ Flags # {} /\ Offset + L.guard <= len
  /\ \E n \in TotalLens :
       /\ Fits(n) /\ Byte(Offset + n - 1) = EndFlag /\ Valid(n)
       /\ found' = n
  /\ pc' = "found"
  /\ UNCHANGED <<port, text, mem, len, arrived, mode, out, lost, refused, switches>>

\* device_state is asked again for where it goes.  MsgDeal_Send fails for want
\* of a block or of a place in the queue; that is only logged, and the buffer is
\* shifted whether the message was sent or not
Deliver ==
  /\ pc = "found"
  /\ \E sent \in BOOLEAN : out' = Append(out, [u |-> text[mem[Offset]].u, to |-> mode, sent |-> sent])
  /\ Shift(Offset + found)
  /\ found' = 0
  /\ pc' = IF len' = 0 THEN "idle" ELSE "parse"
  /\ UNCHANGED <<port, text, arrived, mode, lost, refused, switches>>

\* set_device_state of another task
Switch ==
  /\ port = "tcp" /\ switches < MaxSwitch
  /\ switches' = switches + 1
  /\ mode' \in Kinds \ {mode}
  /\ UNCHANGED <<port, text, mem, len, arrived, pc, found, out, lost, refused>>

Next == \/ \E n \in Segs[port] : Receive(n) \/ Overflow(n)
        \/ Reconnect \/ NoHead \/ Wait \/ Drop \/ Find \/ Deliver \/ Switch

Spec == Init /\ [][Next]_vars

-----------------------------------------------------------------------------
Units == {text[p].u : p \in 1 .. Len(text)}
Packets == {text[p].u : p \in {q \in 1 .. Len(text) : text[q].kind # "junk"}}

\* Types, and the bytes that count are received ones
TypeOK ==
  /\ len \in 0 .. Buf /\ arrived \in 0 .. Len(text)
  /\ mem \in [0 .. Buf - 1 -> 0 .. arrived]
  /\ \A i \in 0 .. len - 1 : mem[i] # 0
  /\ mode \in Kinds /\ pc \in {"idle", "parse", "found"} /\ (pc # "idle" => len > 0)
  /\ \E k \in Kinds : found \in 0 .. Layout[k].max
  /\ out \in Seq([u : Packets, to : Kinds, sent : BOOLEAN]) /\ refused \subseteq Units /\ switches \in 0 .. MaxSwitch
  /\ \A x \in lost : x.u \in Packets

\* MsgDeal_Send took it, or did not
Sent(u)   == \E i \in 1 .. Len(out) : out[i].u = u /\ out[i].sent
Unsent(u) == \E i \in 1 .. Len(out) : out[i].u = u /\ ~out[i].sent

\* The bytes of a packet are all among those that count
Held(u) == \A p \in 1 .. Len(text) : text[p].u = u => \E i \in 0 .. len - 1 : mem[i] = p

\* A packet that has come is sent to its service, in order and once, or still
\* held, whatever junk, false heads and lost packets came before it
\* (tcp_service.c:217-267, 328-399, service_shell.c:162-206).  Three things
\* excuse its loss: some of it never came or did not fit, its head was looked at
\* by the other parser or before its length field was there, or it was parsed
\* whole, given to MsgDeal_Send in its turn and refused there.
HealthyIsKept ==
  /\ \A i, j \in 1 .. Len(out) : i < j => out[i].u < out[j].u
  /\ pc = "idle" => \A p \in 1 .. arrived :
       LET x == text[p] IN
         (x.k = x.n /\ x.kind # "junk") =>
            \/ Sent(x.u) \/ Held(x.u)
            \/ x.u \in refused
            \/ \E y \in lost : y.u = x.u /\ (~y.own \/ y.have < Layout[x.kind].at + 2)
            \/ Unsent(x.u)

\* The length that is read too early (the guard of tcp_service.c:230 and 289
\* asks for fewer bytes) is that of an earlier packet and does no harm: on a
\* stream of nothing but packets of one kind, under its parser, the first loss is that of
\* a packet cut between the two bytes of its length field.
FirstLossIsSplit ==
  (/\ refused = {} /\ \A y \in lost : y.own
   /\ \A p \in 1 .. Len(text) : text[p].kind = mode)
  => \A x \in lost : (\A y \in lost : x.u <= y.u) => x.have = Layout[mode].at + 1

\* What the parser leaves in packed_data is shorter than a packet may be, so
\* over TCP the next segment always fits and the device never stops hearing.
\* The serial port's buffer is shorter than the longest packet.
RoomLeft == (port = "tcp" /\ pc = "idle") => \A n \in Segs[port] : len + n <= Buf
=============================================================================
