--------------------------- MODULE DownloadProofs ---------------------------
(***************************************************************************)
(* Proofs about the way of an application from the network to the flash:    *)
(* packets out of the stream of bytes (Stream), whose buffer always has room *)
(* for the next segment, and pages out of the packets (Upgrade).            *)
(***************************************************************************)
EXTENDS Stream, Upgrade, WellFoundedInduction, TLAPS

TextInv ==
  /\ port \in Ports /\ text \in Texts /\ text \in Seq(Chars)
  /\ \A p \in 1 .. Len(text) : text[p].k <= text[p].n /\ p + text[p].n - text[p].k <= Len(text)

\* The packet that was found is still where it was, whatever device_state is
FoundInv == pc = "found" => /\ Flags # {} /\ Offset + found <= len
                            /\ text[mem[Offset]].kind # "junk"

\* What waits for more bytes is less than a packet
RoomInv == (port = "tcp" /\ pc = "idle") => len = 0 \/ \E k \in Kinds : len < Layout[k].max

IInv == TextInv /\ TypeOK /\ FoundInv /\ RoomInv

-----------------------------------------------------------------------------
(* Arithmetic                                                              *)

LEMMA ZeroIn == ASSUME NEW x \in Nat, x # 0 PROVE 0 \in 0 .. x - 1
OBVIOUS

LEMMA NextTo == ASSUME NEW a \in Nat, NEW b \in Nat, ~(a + 2 <= b), ~(b <= a) PROVE b = a + 1
OBVIOUS

LEMMA PlacesInField ==
  ASSUME NEW s \in Nat, NEW at \in Nat, NEW p \in Nat, s = p - (at + 1)
  PROVE  s + at + 1 = p /\ s + at + 2 = p + 1 /\ p + 1 # 0
OBVIOUS

LEMMA SameStart ==
  ASSUME NEW p \in Nat, NEW q \in Nat, NEW j \in Nat, NEW k \in Nat, q - p = k - j
  PROVE  p - j = q - k
OBVIOUS

LEMMA Opposite ==
  ASSUME NEW p \in Nat, NEW q \in Nat, NEW j \in Nat, NEW k \in Nat, p - q = j - k
  PROVE  q - p = k - j
OBVIOUS

LEMMA FieldInBuffer ==
  ASSUME NEW o \in Nat, NEW at \in Nat, NEW l \in Nat, o + at + 2 <= l
  PROVE  o + (at + 1) - 1 < l /\ o + (at + 2) - 1 < l
OBVIOUS

-----------------------------------------------------------------------------
LEMMA BufSize == ASSUME TextInv PROVE Buf \in Nat \ {0}
BY StreamAssumption DEF TextInv, Buf

LEMMA Least ==
  ASSUME NEW S \in SUBSET Nat, S # {}
  PROVE  Min(S) \in S /\ \A y \in S : Min(S) <= y
<1>1. PICK x \in S : \A y \in S : ~(<<y, x>> \in OpToRel(<, Nat))
  BY NatLessThanWellFounded, WFMin
<1>2. \A y \in S : x <= y
  <2> SUFFICES ASSUME NEW y \in S, ~(x <= y) PROVE FALSE
    OBVIOUS
  <2>1. y < x /\ <<y, x>> \in Nat \X Nat
    OBVIOUS
  <2>2. <<y, x>> \in OpToRel(<, Nat)
    BY <2>1, Zenon DEF OpToRel
  <2> QED BY <1>1, <2>2
<1>3. \E z \in S : \A y \in S : z <= y
  BY <1>2
<1> QED BY <1>3 DEF Min

LEMMA OffsetIn ==
  ASSUME len \in Nat, Flags # {}
  PROVE  Offset \in 0 .. len - 1
<1>1. Flags \in SUBSET Nat /\ Flags \subseteq 0 .. len - 1
  BY DEF Flags
<1> QED BY <1>1, Least DEF Offset

\* A length is a number, whatever bytes it is read from
LEMMA LengthIsNat ==
  ASSUME IInv, Flags # {}, NEW n \in TotalLens
  PROVE  n \in Nat
<1>1. Offset \in Nat /\ Layout[mode].at \in Nat /\ Layout[mode].fixed \in Nat /\ Layout[mode].max \in Nat
  <2>1. len \in Nat /\ mode \in Kinds
    BY BufSize DEF IInv, TypeOK
  <2>2. Offset \in Nat
    BY <2>1, OffsetIn
  <2> QED BY <2>1, <2>2, StreamAssumption
<1>2. ASSUME NEW i \in 0 .. Buf - 1 PROVE Byte(i) \in Nat
  <2>1. mem[i] \in 0 .. arrived /\ arrived \in 0 .. Len(text) /\ Len(text) \in Nat
    BY BufSize DEF IInv, TypeOK, TextInv
  <2>2. CASE mem[i] # 0
    <3>1. mem[i] \in 1 .. Len(text)
      BY <2>1, <2>2
    <3>2. text[mem[i]] \in Chars
      BY <3>1 DEF IInv, TextInv
    <3> QED BY <2>2, <3>2, StreamAssumption DEF Byte, Chars
  <2> QED BY <2>2 DEF Byte
<1>3. CASE Offset + L.at + 1 < Buf
  <2>1. Byte(Offset + L.at) \in Nat /\ Byte(Offset + L.at + 1) \in Nat
    BY <1>1, <1>2, <1>3, BufSize DEF L, IInv
  <2>2. Radix * Byte(Offset + L.at + 1) \in Nat
    BY <2>1, StreamAssumption
  <2>3. n = Byte(Offset + L.at) + Radix * Byte(Offset + L.at + 1) + L.fixed
    BY <1>3 DEF TotalLens
  <2> QED BY <1>1, <2>1, <2>2, <2>3 DEF L
<1>4. CASE ~(Offset + L.at + 1 < Buf)
  BY <1>1, <1>4 DEF TotalLens, L
<1> QED BY <1>3, <1>4

\* Bytes that count are bytes of the text
LEMMA CharAt ==
  ASSUME IInv, NEW i \in 0 .. len - 1
  PROVE  mem[i] \in 1 .. Len(text) /\ text[mem[i]] \in Chars /\ text[mem[i]].u \in Units
         /\ (text[mem[i]].kind # "junk" => text[mem[i]].u \in Packets)
<1>1. mem[i] \in 0 .. arrived /\ mem[i] # 0 /\ arrived \in 0 .. Len(text) /\ Len(text) \in Nat
  BY BufSize DEF IInv, TypeOK, TextInv
<1>2. mem[i] \in 1 .. Len(text)
  BY <1>1
<1> QED BY <1>2 DEF IInv, TextInv, Units, Packets

\* What is left after a shift counts as before
LEMMA ShiftType ==
  ASSUME IInv, NEW n \in 0 .. len, Shift(n)
  PROVE  /\ len' = len - n /\ len' \in 0 .. Buf
         /\ mem' \in [0 .. Buf - 1 -> 0 .. arrived]
         /\ \A i \in 0 .. len' - 1 : mem'[i] # 0
<1>1. /\ len \in 0 .. Buf /\ Buf \in Nat /\ mem \in [0 .. Buf - 1 -> 0 .. arrived]
      /\ \A i \in 0 .. len - 1 : mem[i] # 0
  BY BufSize DEF IInv, TypeOK
<1>2. len' = len - n /\ mem' = [i \in 0 .. Buf - 1 |-> IF i < len - n THEN mem[i + n] ELSE mem[i]]
  BY DEF Shift
<1>3. \A i \in 0 .. Buf - 1 : i < len - n => i + n \in 0 .. len - 1
  BY <1>1
<1>4. \A i \in 0 .. Buf - 1 : mem'[i] \in 0 .. arrived /\ (i < len' => mem'[i] # 0)
  BY <1>1, <1>2, <1>3
<1>5. mem' \in [0 .. Buf - 1 -> 0 .. arrived]
  BY <1>2, <1>4
<1> QED BY <1>1, <1>2, <1>4, <1>5

-----------------------------------------------------------------------------
LEMMA InitIInv == Init => IInv
<1> SUFFICES ASSUME Init PROVE IInv
  OBVIOUS
<1>1. TextInv
  <2>1. port \in Ports /\ text \in Texts /\ IsText(text)
    BY StreamAssumption DEF Init
  <2>2. text \in Seq(Chars) /\ \A p \in 1 .. Len(text) : InUnit(text, p)
    BY <2>1 DEF IsText
  <2>3. ASSUME NEW p \in 1 .. Len(text)
        PROVE  text[p].k <= text[p].n /\ p + text[p].n - text[p].k <= Len(text)
    <3>1. text[p] \in Chars /\ Len(text) \in Nat /\ text[p].k \in 1 .. text[p].n
          /\ p - text[p].k + text[p].n <= Len(text)
      BY <2>2 DEF InUnit
    <3>2. text[p].k \in Nat /\ text[p].n \in Nat
      BY <3>1 DEF Chars
    <3> QED BY <3>1, <3>2
  <2> QED BY <2>1, <2>2, <2>3 DEF TextInv
<1>2. mem = [i \in 0 .. Buf - 1 |-> 0] /\ Buf \in Nat \ {0} /\ len = 0 /\ arrived = 0 /\ Len(text) \in Nat
  BY <1>1, BufSize DEF Init, TextInv
<1>3. TypeOK
  <2>1. /\ len \in 0 .. Buf /\ arrived \in 0 .. Len(text) /\ mem \in [0 .. Buf - 1 -> 0 .. arrived]
        /\ \A i \in 0 .. len - 1 : mem[i] # 0
    BY <1>2
  <2>2. /\ mode \in Kinds /\ pc = "idle" /\ found = 0 /\ out = <<>> /\ refused = {} /\ lost = {}
        /\ switches \in 0 .. MaxSwitch
    BY StreamAssumption DEF Init
  <2>3. \E k \in Kinds : found \in 0 .. Layout[k].max
    BY <2>2, StreamAssumption
  <2>4. out \in Seq([u : Packets, to : Kinds, sent : BOOLEAN])
    BY <2>2
  <2> QED BY <2>1, <2>2, <2>3, <2>4 DEF TypeOK
<1>4. FoundInv /\ RoomInv
  BY DEF Init, FoundInv, RoomInv
<1> QED BY <1>1, <1>3, <1>4 DEF IInv

\* The parts of TypeOK that belong together
Bytes == /\ len \in 0 .. Buf /\ arrived \in 0 .. Len(text)
         /\ mem \in [0 .. Buf - 1 -> 0 .. arrived]
         /\ \A i \in 0 .. len - 1 : mem[i] # 0
Control == /\ mode \in Kinds /\ pc \in {"idle", "parse", "found"} /\ (pc # "idle" => len > 0)
           /\ \E k \in Kinds : found \in 0 .. Layout[k].max
History == /\ out \in Seq([u : Packets, to : Kinds, sent : BOOLEAN]) /\ refused \subseteq Units
           /\ switches \in 0 .. MaxSwitch
           /\ \A x \in lost : x.u \in Packets

LEMMA Parts == TypeOK <=> Bytes /\ Control /\ History
BY DEF TypeOK, Bytes, Control, History

LEMMA PartsNext == TypeOK' <=> Bytes' /\ Control' /\ History'
BY DEF TypeOK, Bytes, Control, History

LEMMA PacketsKept == ASSUME text' = text PROVE Units' = Units /\ Packets' = Packets
BY DEF Units, Packets

LEMMA HistoryKept ==
  ASSUME IInv, UNCHANGED <<text, out, lost, refused, switches>>
  PROVE  History'
BY PacketsKept DEF IInv, TypeOK, History

LEMMA TextKept == ASSUME IInv, UNCHANGED <<port, text>> PROVE TextInv'
BY DEF IInv, TextInv

LEMMA ReceiveStep ==
  ASSUME IInv, NEW n \in Segs[port], Receive(n) \/ Overflow(n)
  PROVE  IInv'
<1>0. /\ TextInv /\ Bytes /\ Control /\ History /\ FoundInv /\ RoomInv
      /\ Buf \in Nat \ {0} /\ Len(text) \in Nat /\ n \in Nat \ {0} /\ UNCHANGED <<port, text>> /\ pc = "idle"
  <2>1. /\ TextInv /\ Bytes /\ Control /\ History /\ FoundInv /\ RoomInv /\ Buf \in Nat \ {0}
    BY Parts, BufSize DEF IInv
  <2>2. Len(text) \in Nat /\ n \in Nat \ {0}
    <3>1. port \in Ports /\ text \in Seq(Chars)
      BY <2>1 DEF TextInv
    <3>2. Segs[port] \subseteq Nat \ {0}
      BY <3>1, StreamAssumption
    <3> QED BY <3>1, <3>2
  <2>3. UNCHANGED <<port, text>> /\ pc = "idle"
    BY DEF Receive, Overflow
  <2> QED BY <2>1, <2>2, <2>3
<1>1. CASE Receive(n)
  <2>1. /\ arrived + n <= Len(text) /\ len + n <= Buf /\ len' = len + n /\ arrived' = arrived + n
        /\ mem' = [i \in 0 .. Buf - 1 |-> IF i \in len .. len + n - 1 THEN arrived + 1 + i - len ELSE mem[i]]
        /\ pc' = "parse" /\ UNCHANGED <<mode, found, out, lost, refused, switches>>
    BY <1>1 DEF Receive
  <2>2. len \in Nat /\ arrived \in Nat /\ \A i \in 0 .. Buf - 1 : mem[i] \in 0 .. arrived
    BY <1>0 DEF Bytes
  <2>3. \A i \in 0 .. Buf - 1 : mem'[i] \in 0 .. arrived'
    <3> SUFFICES ASSUME NEW i \in 0 .. Buf - 1 PROVE mem'[i] \in 0 .. arrived'
      OBVIOUS
    <3>0. len \in Nat /\ arrived \in Nat /\ n \in Nat /\ i \in Nat /\ mem[i] \in 0 .. arrived /\ arrived' = arrived + n
      BY <1>0, <2>1, <2>2
    <3>1. CASE i \in len .. len + n - 1
      <4>1. mem'[i] = arrived + 1 + i - len
        BY <2>1, <3>1
      <4> QED BY <3>0, <3>1, <4>1
    <3>2. CASE ~(i \in len .. len + n - 1)
      <4>1. mem'[i] = mem[i]
        BY <2>1, <3>2
      <4> QED BY <3>0, <4>1
    <3> QED BY <3>1, <3>2
  <2>4. \A i \in 0 .. len' - 1 : mem'[i] # 0
    <3> SUFFICES ASSUME NEW i \in 0 .. len' - 1 PROVE mem'[i] # 0
      OBVIOUS
    <3>1. CASE i \in len .. len + n - 1
      BY <1>0, <2>1, <2>2, <3>1
    <3>2. CASE i < len
      <4>1. mem[i] # 0
        BY <2>2, <3>2, <1>0 DEF Bytes
      <4> QED BY <1>0, <2>1, <2>2, <3>2, <4>1
    <3> QED BY <1>0, <2>1, <2>2, <3>1, <3>2
  <2>5. Buf' = Buf
    BY <1>0 DEF Buf
  <2>6. mem' \in [0 .. Buf - 1 -> 0 .. arrived']
    BY <2>1, <2>3
  <2>7. Bytes'
    BY <1>0, <2>1, <2>2, <2>4, <2>5, <2>6 DEF Bytes
  <2>8. Control' /\ FoundInv' /\ RoomInv'
    BY <1>0, <2>1, <2>2 DEF Control, FoundInv, RoomInv
  <2> QED BY <1>0, <2>1, <2>7, <2>8, HistoryKept, TextKept, PartsNext DEF IInv
<1>2. CASE Overflow(n)
  <2>1. /\ arrived + n <= Len(text) /\ (len' = 0 \/ len' = len) /\ (port = "tcp" => len' = 0) /\ arrived' = arrived + n
        /\ UNCHANGED <<mem, pc, mode, found, out, lost, switches>>
        /\ refused' = refused \cup {text[p].u : p \in arrived + 1 .. arrived + n}
                        \cup IF port = "tcp" THEN {text[mem[i]].u : i \in 0 .. len - 1} ELSE {}
    BY <1>2 DEF Overflow
  <2>2. len \in Nat /\ arrived \in Nat
    BY <1>0 DEF Bytes
  <2>3. Buf' = Buf
    BY <1>0 DEF Buf
  <2>4. mem \in [0 .. Buf - 1 -> 0 .. arrived']
    BY <1>0, <2>1, <2>2 DEF Bytes
  <2>5. Bytes'
    <3>1. len' \in 0 .. Buf /\ arrived' \in 0 .. Len(text)
      BY <1>0, <2>1, <2>2 DEF Bytes
    <3>2. \A i \in 0 .. len' - 1 : mem[i] # 0
      BY <1>0, <2>1, <2>2 DEF Bytes
    <3> QED BY <1>0, <2>1, <2>3, <2>4, <3>1, <3>2 DEF Bytes
  <2>6. refused' \subseteq Units
    <3>1. {text[p].u : p \in arrived + 1 .. arrived + n} \subseteq Units
      BY <1>0, <2>1, <2>2 DEF Units
    <3>2. {text[mem[i]].u : i \in 0 .. len - 1} \subseteq Units
      BY CharAt
    <3> QED BY <1>0, <2>1, <3>1, <3>2 DEF History
  <2>7. History'
    BY <1>0, <2>1, <2>6, PacketsKept DEF History
  <2>8. Control' /\ FoundInv' /\ RoomInv'
    BY <1>0, <2>1, <2>2 DEF Control, FoundInv, RoomInv
  <2> QED BY <1>0, <2>5, <2>7, <2>8, TextKept, PartsNext DEF IInv
<1> QED BY <1>1, <1>2

LEMMA ReconnectStep == ASSUME IInv, Reconnect PROVE IInv'
<1>0. /\ TextInv /\ Bytes /\ Control /\ History /\ FoundInv /\ RoomInv
      /\ Buf \in Nat \ {0} /\ Len(text) \in Nat
  BY Parts, BufSize DEF IInv, TextInv
<1>1. /\ UNCHANGED <<port, text, mem, len, mode, pc, found, out, lost, switches>> /\ pc = "idle"
      /\ arrived \in 1 .. Len(text) - 1 /\ arrived' = arrived + text[arrived].n - text[arrived].k
      /\ refused' = refused \cup {text[arrived].u}
  BY DEF Reconnect
<1>2. arrived \in 1 .. Len(text) /\ text[arrived] \in Chars
  BY <1>0, <1>1 DEF TextInv
<1>3. arrived' \in arrived .. Len(text)
  <2>1. text[arrived].k \in Nat /\ text[arrived].n \in Nat
    BY <1>2 DEF Chars
  <2>2. text[arrived].k <= text[arrived].n /\ arrived + text[arrived].n - text[arrived].k <= Len(text)
    BY <1>0, <1>2 DEF TextInv
  <2> QED BY <1>0, <1>1, <2>1, <2>2
<1>4. mem \in [0 .. Buf - 1 -> 0 .. arrived']
  BY <1>0, <1>2, <1>3 DEF Bytes
<1>5. Bytes'
  BY <1>0, <1>1, <1>2, <1>3, <1>4 DEF Bytes, Buf
<1>6. History'
  <2>1. text[arrived].u \in Units
    BY <1>2 DEF Units
  <2> QED BY <1>0, <1>1, <2>1, PacketsKept DEF History
<1>7. Control' /\ FoundInv' /\ RoomInv'
  BY <1>0, <1>1 DEF Control, FoundInv, RoomInv
<1> QED BY <1>1, <1>5, <1>6, <1>7, TextKept, PartsNext DEF IInv

LEMMA ParseStep ==
  ASSUME IInv, NoHead \/ Wait \/ Drop
  PROVE  IInv'
<1>0. /\ TextInv /\ Bytes /\ Control /\ History /\ FoundInv /\ RoomInv
      /\ Buf \in Nat \ {0} /\ Len(text) \in Nat /\ len \in Nat
      /\ pc = "parse" /\ UNCHANGED <<port, text, arrived, mode, found, out, refused, switches>>
  BY Parts, BufSize DEF IInv, TextInv, Bytes, NoHead, Wait, Drop
<1>1. Buf' = Buf
  BY <1>0 DEF Buf
<1>2. CASE NoHead
  <2>1. len' = 0 /\ pc' = "idle" /\ mem' = mem /\ lost' = lost
    BY <1>2 DEF NoHead
  <2>2. Bytes' /\ Control' /\ FoundInv' /\ RoomInv'
    BY <1>0, <1>1, <2>1 DEF Bytes, Control, FoundInv, RoomInv
  <2> QED BY <1>0, <2>1, <2>2, HistoryKept, TextKept, PartsNext DEF IInv
<1>3. CASE Wait
  <2>1. /\ Flags # {} /\ Shift(Offset) /\ pc' = (IF Offset = 0 THEN "idle" ELSE "parse") /\ lost' = lost
        /\ \/ Offset + L.guard > len
           \/ \E n \in TotalLens : Short(n)
    BY <1>3 DEF Wait
  <2>2. Offset \in 0 .. len - 1
    BY <1>0, <2>1, OffsetIn
  <2>3. len' = len - Offset /\ Bytes'
    BY <1>0, <1>1, <2>1, <2>2, ShiftType DEF Bytes
  <2>4. Offset = 0 => len < L.max
    <3>1. mode \in Kinds /\ L.guard \in Nat /\ L.max \in Nat /\ L.guard <= L.max
      <4>1. /\ mode \in Kinds /\ Layout[mode] \in [at : Nat, guard : Nat, fixed : Nat, max : Nat]
            /\ Layout[mode].guard <= Layout[mode].at + 2
            /\ Layout[mode].at + 4 <= Layout[mode].fixed /\ Layout[mode].fixed <= Layout[mode].max
        BY <1>0, StreamAssumption DEF Control
      <4> QED BY <4>1 DEF L
    <3>2. CASE Offset + L.guard > len
      BY <1>0, <3>1, <3>2, <2>2
    <3>3. CASE \E n \in TotalLens : Short(n)
      <4>1. PICK n \in TotalLens : n <= L.max /\ Offset + n > len
        BY <3>3 DEF Short
      <4>2. n \in Nat
        BY <2>1, LengthIsNat
      <4> QED BY <1>0, <3>1, <2>2, <4>1, <4>2
    <3> QED BY <2>1, <3>2, <3>3
  <2>5. Control' /\ FoundInv'
    BY <1>0, <2>1, <2>2, <2>3 DEF Control, FoundInv
  <2>6. RoomInv'
    BY <1>0, <2>1, <2>2, <2>3, <2>4 DEF RoomInv, Control, L
  <2> QED BY <1>0, <2>1, <2>3, <2>5, <2>6, HistoryKept, TextKept, PartsNext DEF IInv
<1>4. CASE Drop
  <2>1. /\ Flags # {} /\ Shift(Offset + 1) /\ pc' = (IF len' = 0 THEN "idle" ELSE "parse")
        /\ lost' = IF text[mem[Offset]].k = 1 /\ text[mem[Offset]].kind # "junk"
                   THEN lost \cup {[u |-> text[mem[Offset]].u, have |-> len - Offset,
                                    own |-> text[mem[Offset]].kind = mode]}
                   ELSE lost
    BY <1>4 DEF Drop
  <2>2. Offset \in 0 .. len - 1
    BY <1>0, <2>1, OffsetIn
  <2>3. len' = len - (Offset + 1) /\ len' \in Nat /\ Bytes'
    <3>1. Offset + 1 \in 0 .. len
      BY <1>0, <2>2
    <3>2. /\ len' = len - (Offset + 1) /\ len' \in 0 .. Buf /\ mem' \in [0 .. Buf - 1 -> 0 .. arrived]
          /\ \A i \in 0 .. len' - 1 : mem'[i] # 0
      BY <2>1, <3>1, ShiftType
    <3>3. arrived \in 0 .. Len(text) /\ UNCHANGED <<text, arrived>>
      BY <1>0 DEF Bytes
    <3> QED BY <1>0, <1>1, <3>2, <3>3 DEF Bytes
  <2>4. \A x \in lost' : x.u \in Packets
    <3>1. text[mem[Offset]].kind # "junk" => text[mem[Offset]].u \in Packets
      BY <2>2, CharAt
    <3> QED BY <1>0, <2>1, <3>1 DEF History
  <2>5. History'
    BY <1>0, <2>4, PacketsKept DEF History
  <2>6. Control' /\ FoundInv' /\ RoomInv'
    BY <1>0, <2>1, <2>3 DEF Control, FoundInv, RoomInv
  <2> QED BY <1>0, <2>3, <2>5, <2>6, TextKept, PartsNext DEF IInv
<1> QED BY <1>2, <1>3, <1>4

LEMMA PassStep ==
  ASSUME IInv, Find \/ Deliver \/ Switch
  PROVE  IInv'
<1>0. /\ TextInv /\ Bytes /\ Control /\ History /\ FoundInv /\ RoomInv
      /\ Buf \in Nat \ {0} /\ Len(text) \in Nat /\ len \in Nat /\ UNCHANGED <<port, text, arrived>>
  BY Parts, BufSize DEF IInv, TextInv, Bytes, Find, Deliver, Switch
<1>1. CASE Find
  <2>1. PICK n \in TotalLens : Fits(n) /\ Valid(n) /\ found' = n
    BY <1>1 DEF Find
  <2>2. /\ Flags # {} /\ pc = "parse" /\ pc' = "found"
        /\ UNCHANGED <<mem, len, mode, out, lost, refused, switches>>
    BY <1>1 DEF Find
  <2>3. n \in Nat /\ n <= L.max /\ Offset + n <= len /\ text[mem[Offset]].kind = mode
    BY <2>1, <2>2, LengthIsNat DEF Fits, Valid
  <2>4. Bytes' /\ Control'
    <3>1. mode \in Kinds /\ Layout[mode].max \in Nat
      BY <1>0, StreamAssumption DEF Control
    <3>2. found' \in 0 .. Layout[mode].max
      BY <2>1, <2>3, <3>1 DEF L
    <3> QED BY <1>0, <2>2, <3>1, <3>2 DEF Bytes, Control, Buf
  <2>5. Flags' = Flags /\ Offset' = Offset
    BY <1>0, <2>2 DEF Flags, Offset, Byte
  <2>6. FoundInv' /\ RoomInv'
    BY <1>0, <2>1, <2>2, <2>3, <2>5, StreamAssumption DEF FoundInv, RoomInv, Control
  <2> QED BY <1>0, <2>2, <2>4, <2>6, HistoryKept, TextKept, PartsNext DEF IInv
<1>2. CASE Deliver
  <2>1. PICK s \in BOOLEAN :
        /\ pc = "found" /\ Shift(Offset + found) /\ found' = 0 /\ pc' = (IF len' = 0 THEN "idle" ELSE "parse")
        /\ out' = Append(out, [u |-> text[mem[Offset]].u, to |-> mode, sent |-> s])
        /\ UNCHANGED <<mode, lost, refused, switches>>
    BY <1>2 DEF Deliver
  <2>2. Flags # {} /\ Offset + found <= len /\ text[mem[Offset]].kind # "junk" /\ found \in Nat
    BY <1>0, <2>1, StreamAssumption DEF FoundInv, Control
  <2>3. Offset \in 0 .. len - 1
    BY <1>0, <2>2, OffsetIn
  <2>4. len' \in Nat /\ Bytes'
    <3>1. Offset + found \in 0 .. len
      BY <1>0, <2>2, <2>3
    <3> QED BY <1>0, <2>1, <3>1, ShiftType DEF Bytes, Buf
  <2>5. [u |-> text[mem[Offset]].u, to |-> mode, sent |-> s] \in [u : Packets, to : Kinds, sent : BOOLEAN]
    BY <1>0, <2>2, <2>3, CharAt DEF Control
  <2>6. out' \in Seq([u : Packets, to : Kinds, sent : BOOLEAN])
    BY <1>0, <2>1, <2>5 DEF History
  <2>7. History'
    BY <1>0, <2>1, <2>6, PacketsKept DEF History
  <2>8. \E k \in Kinds : 0 \in 0 .. Layout[k].max
    BY StreamAssumption
  <2>9. Control' /\ FoundInv' /\ RoomInv'
    BY <1>0, <2>1, <2>4, <2>8 DEF Control, FoundInv, RoomInv
  <2> QED BY <1>0, <2>4, <2>7, <2>9, TextKept, PartsNext DEF IInv
<1>3. CASE Switch
  <2>1. /\ switches < MaxSwitch /\ switches' = switches + 1 /\ mode' \in Kinds
        /\ UNCHANGED <<mem, len, pc, found, out, lost, refused>>
    BY <1>3 DEF Switch
  <2>2. Bytes' /\ Control' /\ History'
    <3>1. Bytes' /\ Control'
      BY <1>0, <2>1 DEF Bytes, Control, Buf
    <3>2. switches' \in 0 .. MaxSwitch
      BY <1>0, <2>1, StreamAssumption DEF History
    <3> QED BY <1>0, <2>1, <3>1, <3>2, PacketsKept DEF History
  <2>3. Flags' = Flags /\ Offset' = Offset
    BY <1>0, <2>1 DEF Flags, Offset, Byte
  <2>4. FoundInv' /\ RoomInv'
    BY <1>0, <2>1, <2>3 DEF FoundInv, RoomInv
  <2> QED BY <1>0, <2>2, <2>4, TextKept, PartsNext DEF IInv
<1> QED BY <1>1, <1>2, <1>3

LEMMA IInvStep == IInv /\ [Next]_vars => IInv'
<1> SUFFICES ASSUME IInv, [Next]_vars PROVE IInv'
  OBVIOUS
<1>1. CASE UNCHANGED vars
  <2>1. Flags' = Flags /\ Offset' = Offset /\ Buf' = Buf
    BY <1>1 DEF vars, Flags, Offset, Byte, Buf
  <2>2. Units' = Units /\ Packets' = Packets
    BY <1>1 DEF vars, Units, Packets
  <2>3. TypeOK'
    BY <1>1, <2>1, <2>2 DEF vars, IInv, TypeOK
  <2> QED BY <1>1, <2>1, <2>3 DEF vars, IInv, TextInv, FoundInv, RoomInv
<1> QED BY <1>1, ReceiveStep, ReconnectStep, ParseStep, PassStep DEF Next

LEMMA Invariance == Spec => []IInv
BY InitIInv, IInvStep, PTL DEF Spec

\* What counts in packed_data are bytes that were received, the packet that was
\* found lies in the buffer, and only packets are passed on.
THEOREM TypeCorrect == Spec => []TypeOK
<1>1. IInv => TypeOK
  BY DEF IInv
<1> QED BY <1>1, Invariance, PTL

\* Over TCP the parsers never leave so much in packed_data that the next
\* segment does not fit, whatever bytes come and however they are cut.
THEOREM TcpNeverFull == Spec => []RoomLeft
<1>1. IInv => RoomLeft
  <2> SUFFICES ASSUME IInv, port = "tcp", pc = "idle", NEW n \in Segs[port] PROVE len + n <= Buf
    BY DEF RoomLeft
  <2>1. \E k \in Kinds : len < Layout[k].max
    BY StreamAssumption DEF IInv, RoomInv
  <2>2. PICK k \in Kinds : len < Layout[k].max
    BY <2>1
  <2>3. Layout[k].max - 1 + n <= Buf /\ n \in Nat /\ Layout[k].max \in Nat
    BY StreamAssumption DEF IInv, TextInv, Ports, Buf
  <2>4. len \in Nat /\ Buf \in Nat
    BY BufSize DEF IInv, TypeOK
  <2> QED BY <2>2, <2>3, <2>4
<1> QED BY <1>1, Invariance, PTL

-----------------------------------------------------------------------------
(* What is passed on and what is lost                                      *)

Rising == \A i, j \in 0 .. len - 1 : i < j => mem[i] < mem[j]

\* What was given to MsgDeal_Send lies behind, and was given in order
OutInv == /\ \A i, j \in 1 .. Len(out) : i < j => out[i].u < out[j].u
          /\ \A i \in 1 .. Len(out) : \A p \in 1 .. Len(text) :
               text[p].u = out[i].u => p <= arrived /\ \A j \in 0 .. len - 1 : p < mem[j]

\* The packet that was found is a whole one
FoundIs == pc = "found" =>
  /\ text[mem[Offset]].k = 1 /\ text[mem[Offset]].n = found
  /\ \A i \in 0 .. found - 1 : mem[Offset + i] = mem[Offset] + i

\* The bytes of a unit that have arrived are in the buffer, from i on
From(u, i) == \A q \in 1 .. arrived : text[q].u = u => LET j == i + text[q].k - 1 IN j < len /\ mem[j] = q
InBuf(u)   == \E i \in 0 .. len - 1 : From(u, i)
Given(u)  == \E i \in 1 .. Len(out) : out[i].u = u
Excused(u, kd) == \E y \in lost : y.u = u /\ (~y.own \/ y.have < Layout[kd].at + 2)
Kept(u, kd)    == Given(u) \/ u \in refused \/ Excused(u, kd) \/ InBuf(u)

\* No packet whose first byte has arrived is missing without a reason
KeptInv == \A p \in 1 .. arrived, u \in Nat, kd \in Kinds :
             (text[p].u = u /\ text[p].kind = kd) => Kept(u, kd)

KInv == Rising /\ OutInv /\ FoundIs /\ KeptInv

-----------------------------------------------------------------------------
(* Lemmas about texts                                                      *)

LEMMA TextFacts == ASSUME TextInv PROVE IsText(text) /\ Len(text) \in Nat
BY StreamAssumption DEF TextInv

LEMMA UnitOf ==
  ASSUME TextInv, NEW p \in 1 .. Len(text)
  PROVE  /\ text[p] \in Chars /\ text[p].k \in Nat /\ text[p].n \in Nat /\ text[p].u \in Nat
         /\ 1 <= text[p].k /\ text[p].k <= text[p].n
         /\ p - text[p].k \in Nat /\ p - text[p].k + text[p].n <= Len(text)
         /\ \A j \in 1 .. text[p].n :
              /\ p - text[p].k + j \in 1 .. Len(text)
              /\ text[p - text[p].k + j].u = text[p].u /\ text[p - text[p].k + j].k = j
              /\ text[p - text[p].k + j].n = text[p].n /\ text[p - text[p].k + j].kind = text[p].kind
<1>1. text[p] \in Chars /\ InUnit(text, p) /\ Len(text) \in Nat
  BY TextFacts DEF IsText
<1>2. text[p].k \in Nat /\ text[p].n \in Nat /\ text[p].u \in Nat
  BY <1>1 DEF Chars
<1>3. /\ text[p].k \in 1 .. text[p].n /\ 0 <= p - text[p].k /\ p - text[p].k + text[p].n <= Len(text)
      /\ \A j \in 1 .. text[p].n :
              /\ text[p - text[p].k + j].u = text[p].u /\ text[p - text[p].k + j].k = j
              /\ text[p - text[p].k + j].n = text[p].n /\ text[p - text[p].k + j].kind = text[p].kind
  BY <1>1 DEF InUnit
<1>4. \A j \in 1 .. text[p].n : p - text[p].k + j \in 1 .. Len(text)
  BY <1>1, <1>2, <1>3
<1> QED BY <1>1, <1>2, <1>3, <1>4

\* Two bytes of a unit are as far apart as their places
LEMMA SameUnit ==
  ASSUME TextInv, NEW p \in 1 .. Len(text), NEW q \in 1 .. Len(text), text[p].u = text[q].u
  PROVE  /\ q - p = text[q].k - text[p].k /\ text[p].n = text[q].n /\ text[p].kind = text[q].kind
         /\ p - text[p].k = q - text[q].k
<1>0. /\ text[p].k \in Nat /\ text[p].n \in Nat /\ text[p].u \in Nat /\ 1 \in 1 .. text[p].n
      /\ text[q].k \in Nat /\ text[q].n \in Nat /\ text[q].u \in Nat /\ 1 \in 1 .. text[q].n
  <2>1. ASSUME NEW x \in 1 .. Len(text)
        PROVE  text[x].k \in Nat /\ text[x].n \in Nat /\ text[x].u \in Nat /\ 1 \in 1 .. text[x].n
    <3>1. /\ text[x].k \in Nat /\ text[x].n \in Nat /\ text[x].u \in Nat
          /\ 1 <= text[x].k /\ text[x].k <= text[x].n
      BY UnitOf
    <3> QED BY <3>1
  <2> QED BY <2>1
<1>n. p \in Nat /\ q \in Nat /\ text[p].k \in Nat /\ text[q].k \in Nat /\ text[p].u \in Nat
  <2>1. Len(text) \in Nat
    BY TextFacts
  <2> QED BY <1>0, <2>1
<1>1. q - p = text[q].k - text[p].k
  <2>0. \A x, y \in 1 .. Len(text) : x < y =>
          text[x].u < text[y].u \/ (text[x].u = text[y].u /\ y - x = text[y].k - text[x].k)
    BY TextFacts DEF IsText
  <2>1. CASE p < q
    <3>1. text[p].u < text[q].u \/ q - p = text[q].k - text[p].k
      BY <2>0, <2>1
    <3>2. ~(text[p].u < text[q].u)
      BY <1>n
    <3> QED BY <3>1, <3>2
  <2>2. CASE q < p
    <3>1. text[q].u < text[p].u \/ p - q = text[p].k - text[q].k
      BY <2>0, <2>2
    <3>2. ~(text[q].u < text[p].u)
      BY <1>n
    <3>3. p - q = text[p].k - text[q].k
      BY <3>1, <3>2
    <3> QED BY <1>n, <3>3, Opposite
  <2>3. CASE p = q
    BY <1>n, <2>3
  <2> QED BY <1>n, <2>1, <2>2, <2>3
<1>2. p - text[p].k = q - text[q].k
  BY <1>n, <1>1, SameStart
<1>3. text[p].n = text[q].n /\ text[p].kind = text[q].kind
  <2>1. /\ text[p - text[p].k + 1].n = text[p].n /\ text[p - text[p].k + 1].kind = text[p].kind
        /\ text[q - text[q].k + 1].n = text[q].n /\ text[q - text[q].k + 1].kind = text[q].kind
    <3>1. ASSUME NEW x \in 1 .. Len(text)
          PROVE  text[x - text[x].k + 1].n = text[x].n /\ text[x - text[x].k + 1].kind = text[x].kind
      <4>1. 1 \in 1 .. text[x].n
        <5>1. text[x].k \in Nat /\ text[x].n \in Nat /\ 1 <= text[x].k /\ text[x].k <= text[x].n
          BY UnitOf
        <5> QED BY <5>1
      <4> QED BY <4>1, UnitOf
    <3> QED BY <3>1
  <2> QED BY <1>2, <2>1
<1> QED BY <1>1, <1>2, <1>3

\* Earlier bytes are of earlier units or of the same
LEMMA Order ==
  ASSUME TextInv, NEW p \in 1 .. Len(text), NEW q \in 1 .. Len(text), p <= q
  PROVE  text[p].u <= text[q].u
<1>1. text[p].u \in Nat /\ text[q].u \in Nat
  BY UnitOf
<1>2. p < q => text[p].u <= text[q].u
  BY <1>1, TextFacts DEF IsText
<1> QED BY <1>1, <1>2

LEMMA Kindly == ASSUME NEW kd \in Kinds PROVE kd # "junk"
BY StreamAssumption

\* The numbers of a packet's layout and of its length field
LEMMA PacketOf ==
  ASSUME TextInv, NEW p \in 1 .. Len(text), text[p].kind \in Kinds
  PROVE  LET s == p - text[p].k  lay == Layout[text[p].kind] IN
           /\ {lay.at, lay.guard, lay.fixed, lay.max} \subseteq Nat
           /\ lay.guard <= lay.at + 2 /\ lay.at + 4 <= lay.fixed /\ lay.fixed <= lay.max
           /\ lay.fixed <= text[p].n /\ text[p].n <= lay.max
           /\ text[s + 1].b = HeadFlag /\ text[s + text[p].n].b = EndFlag
           /\ text[s + lay.at + 1].b + Radix * text[s + lay.at + 2].b + lay.fixed = text[p].n
<1>1. WellFormed(text, p)
  BY TextFacts, Kindly DEF IsText
<1>2. Layout[text[p].kind] \in [at : Nat, guard : Nat, fixed : Nat, max : Nat]
  BY StreamAssumption
<1>3. /\ Layout[text[p].kind].guard <= Layout[text[p].kind].at + 2
      /\ Layout[text[p].kind].at + 4 <= Layout[text[p].kind].fixed
      /\ Layout[text[p].kind].fixed <= Layout[text[p].kind].max
  BY StreamAssumption
<1>4. text[p].n \in Nat
  BY UnitOf
<1>5. LET s == p - text[p].k  lay == Layout[text[p].kind] IN
        /\ text[p].n \in lay.fixed .. lay.max
        /\ text[s + 1].b = HeadFlag /\ text[s + text[p].n].b = EndFlag
        /\ text[s + lay.at + 1].b + Radix * text[s + lay.at + 2].b + lay.fixed = text[p].n
  BY <1>1 DEF WellFormed
<1>6. Layout[text[p].kind].fixed <= text[p].n /\ text[p].n <= Layout[text[p].kind].max
  BY <1>2, <1>4, <1>5
<1> QED BY <1>2, <1>3, <1>5, <1>6
-----------------------------------------------------------------------------
(* Lemmas about the buffer                                                 *)

LEMMA BufferFacts ==
  ASSUME IInv
  PROVE  /\ len \in Nat /\ arrived \in Nat /\ arrived <= Len(text) /\ Len(text) \in Nat
         /\ len <= Buf /\ Buf \in Nat /\ mode \in Kinds
         /\ \A i \in 0 .. len - 1 : mem[i] \in 1 .. arrived /\ mem[i] \in 1 .. Len(text)
<1>1. /\ TextInv /\ Buf \in Nat \ {0} /\ Len(text) \in Nat /\ len \in 0 .. Buf /\ arrived \in 0 .. Len(text)
      /\ mem \in [0 .. Buf - 1 -> 0 .. arrived] /\ \A i \in 0 .. len - 1 : mem[i] # 0
      /\ mode \in Kinds
  BY BufSize DEF IInv, TypeOK, TextInv
<1>2. \A i \in 0 .. len - 1 : mem[i] \in 0 .. arrived
  BY <1>1
<1> QED BY <1>1, <1>2

LEMMA OffsetLeast ==
  ASSUME len \in Nat, Flags # {}
  PROVE  Offset \in 0 .. len - 1 /\ Byte(Offset) = HeadFlag /\ \A i \in Flags : Offset <= i
<1>1. Flags \in SUBSET Nat
  BY DEF Flags
<1>2. Offset \in Flags /\ \A i \in Flags : Offset <= i
  BY <1>1, Least DEF Offset
<1> QED BY <1>2 DEF Flags

\* The first byte of a packet that is in the buffer is where it begins there
LEMMA HeadIn ==
  ASSUME IInv, NEW p \in 1 .. arrived, text[p].kind \in Kinds, NEW i \in 0 .. len - 1, From(text[p].u, i)
  PROVE  /\ mem[i] = p - text[p].k + 1 /\ text[mem[i]].k = 1 /\ text[mem[i]].u = text[p].u
         /\ text[mem[i]].n = text[p].n /\ text[mem[i]].kind = text[p].kind
         /\ i \in Flags
<1>0. TextInv /\ p \in 1 .. Len(text) /\ arrived \in Nat /\ len \in Nat
  BY BufferFacts DEF IInv
<1>1. /\ text[p].k \in Nat /\ text[p].n \in Nat /\ 1 <= text[p].k /\ text[p].k <= text[p].n
      /\ p - text[p].k \in Nat
  BY <1>0, UnitOf
<1> DEFINE h == p - text[p].k + 1
<1>2. /\ h \in 1 .. arrived /\ text[h].k = 1 /\ text[h].u = text[p].u /\ text[h].n = text[p].n
      /\ text[h].kind = text[p].kind
  <2>1. 1 \in 1 .. text[p].n /\ h \in 1 .. arrived
    BY <1>0, <1>1
  <2> QED BY <1>0, <2>1, UnitOf
<1>3. mem[i + 1 - 1] = h
  BY <1>2 DEF From
<1>4. mem[i] = h
  BY <1>3
<1>5. text[h].b = HeadFlag
  BY <1>0, PacketOf
<1>6. Byte(i) = HeadFlag
  BY <1>2, <1>4, <1>5 DEF Byte
<1> QED BY <1>2, <1>4, <1>6 DEF Flags

\* What is behind the end of a packet that has not arrived is nothing
LEMMA TailOf ==
  ASSUME IInv, Rising, NEW p \in 1 .. arrived, NEW i \in 0 .. len - 1, From(text[p].u, i),
         arrived < p - text[p].k + text[p].n
  PROVE  len = i + arrived - (p - text[p].k)
<1>0. TextInv /\ p \in 1 .. Len(text) /\ arrived \in Nat /\ len \in Nat /\ arrived \in 1 .. arrived
  BY BufferFacts DEF IInv
<1>1. /\ text[p].k \in Nat /\ text[p].n \in Nat /\ 1 <= text[p].k /\ text[p].k <= text[p].n
      /\ p - text[p].k \in Nat
  BY <1>0, UnitOf
<1>2. PICK m \in 1 .. text[p].n : m = arrived - (p - text[p].k)
  <2>1. arrived - (p - text[p].k) \in 1 .. text[p].n
    <3>1. PICK s \in Nat, k \in Nat, n \in Nat : s = p - text[p].k /\ k = text[p].k /\ n = text[p].n /\ 1 <= k
      BY <1>1
    <3>2. s + k <= arrived /\ arrived < s + n /\ arrived \in Nat
      BY <1>0, <3>1
    <3>3. s < arrived
      BY <3>1, <3>2
    <3>4. arrived - s \in 1 .. n
      BY <3>2, <3>3
    <3> QED BY <3>1, <3>4
  <2> QED BY <2>1
<1>3. p - text[p].k + m = arrived
  BY <1>0, <1>1, <1>2
<1>4. text[arrived].u = text[p].u /\ text[arrived].k = m
  <2>1. text[p - text[p].k + m].u = text[p].u /\ text[p - text[p].k + m].k = m
    BY <1>0, UnitOf
  <2> QED BY <1>3, <2>1
<1>5. i + m - 1 < len /\ mem[i + m - 1] = arrived
  BY <1>0, <1>4 DEF From
<1>6. ~(i + m < len)
  <2> SUFFICES ASSUME i + m < len PROVE FALSE
    OBVIOUS
  <2>1. i + m - 1 \in 0 .. len - 1 /\ i + m \in 0 .. len - 1 /\ i + m - 1 < i + m
    BY <1>0
  <2>2. mem[i + m - 1] < mem[i + m] /\ mem[i + m] \in 1 .. arrived
    BY <2>1, BufferFacts DEF Rising
  <2> QED BY <1>0, <1>5, <2>2
<1> QED BY <1>0, <1>2, <1>5, <1>6

\* Where the bytes of a packet are that begins at i
LEMMA PlaceOf ==
  ASSUME IInv, Rising, NEW p \in 1 .. arrived, NEW i \in 0 .. len - 1, From(text[p].u, i),
         NEW m \in 1 .. text[p].n
  PROVE  /\ i + m - 1 < len <=> p - text[p].k + m <= arrived
         /\ i + m - 1 < len => mem[i + m - 1] = p - text[p].k + m
<1>0. TextInv /\ p \in 1 .. Len(text) /\ arrived \in Nat /\ len \in Nat
  BY BufferFacts DEF IInv
<1>1. /\ text[p].k \in Nat /\ text[p].n \in Nat /\ p - text[p].k \in Nat
      /\ text[p - text[p].k + m].u = text[p].u /\ text[p - text[p].k + m].k = m
  BY <1>0, UnitOf
<1>2. ASSUME p - text[p].k + m <= arrived
      PROVE  i + m - 1 < len /\ mem[i + m - 1] = p - text[p].k + m
  <2>1. p - text[p].k + m \in 1 .. arrived
    <3>1. PICK s \in Nat : s = p - text[p].k
      BY <1>1
    <3>2. m \in Nat /\ 1 <= m /\ s + m <= arrived
      BY <1>1, <1>2, <3>1
    <3>3. s + m \in 1 .. arrived
      BY <1>0, <3>2
    <3> QED BY <3>1, <3>3
  <2> QED BY <1>1, <2>1 DEF From
<1>3. ASSUME i + m - 1 < len PROVE p - text[p].k + m <= arrived
  <2>0. PICK s \in Nat, n \in Nat : s = p - text[p].k /\ n = text[p].n /\ m \in 1 .. n
    BY <1>1
  <2> SUFFICES ASSUME ~(s + m <= arrived) PROVE FALSE
    BY <2>0
  <2>1. arrived < s + n
    BY <1>0, <2>0
  <2>2. len = i + arrived - s
    BY <2>0, <2>1, TailOf
  <2>3. arrived \in Nat /\ len \in Nat /\ i \in Nat /\ m \in Nat
    BY <1>0, <2>0
  <2> QED BY <1>3, <2>2, <2>3
<1> QED BY <1>2, <1>3

LEMMA ShiftMem ==
  ASSUME IInv, NEW n \in 0 .. len, Shift(n)
  PROVE  len' = len - n /\ len' \in Nat
         /\ \A i \in 0 .. len' - 1 : i + n \in 0 .. len - 1 /\ mem'[i] = mem[i + n]
<1>1. len \in Nat /\ len <= Buf /\ Buf \in Nat
  BY BufferFacts
<1>2. len' = len - n /\ mem' = [i \in 0 .. Buf - 1 |-> IF i < len - n THEN mem[i + n] ELSE mem[i]]
  BY DEF Shift
<1>3. \A i \in 0 .. len' - 1 : i \in 0 .. Buf - 1 /\ i < len - n /\ i + n \in 0 .. len - 1
  BY <1>1, <1>2
<1> QED BY <1>1, <1>2, <1>3

\* A shift keeps the order, and what begins behind it
LEMMA ShiftKeeps ==
  ASSUME IInv, Rising, OutInv, NEW n \in 0 .. len, Shift(n), UNCHANGED <<text, arrived>>
  PROVE  /\ Rising'
         /\ \A x \in 1 .. Len(out) : \A p \in 1 .. Len(text) :
               text[p].u = out[x].u => p <= arrived /\ \A j \in 0 .. len' - 1 : p < mem'[j]
         /\ \A u, i : (i \in 0 .. len - 1 /\ From(u, i) /\ n <= i) => InBuf(u)'
<1>0. /\ len \in Nat /\ len' = len - n /\ len' \in Nat
      /\ \A i \in 0 .. len' - 1 : i + n \in 0 .. len - 1 /\ mem'[i] = mem[i + n]
  BY BufferFacts, ShiftMem
<1>1. Rising'
  <2> SUFFICES ASSUME NEW i \in 0 .. len' - 1, NEW j \in 0 .. len' - 1, i < j PROVE mem'[i] < mem'[j]
    BY DEF Rising
  <2>1. i + n \in 0 .. len - 1 /\ j + n \in 0 .. len - 1 /\ i + n < j + n
    BY <1>0
  <2> QED BY <1>0, <2>1 DEF Rising
<1>2. \A x \in 1 .. Len(out) : \A p \in 1 .. Len(text) :
               text[p].u = out[x].u => p <= arrived /\ \A j \in 0 .. len' - 1 : p < mem'[j]
  BY <1>0 DEF OutInv
<1>3. ASSUME NEW u, NEW i \in 0 .. len - 1, From(u, i), n <= i PROVE InBuf(u)'
  <2>1. i - n \in 0 .. len' - 1
    BY <1>0, <1>3
  <2>2. ASSUME NEW q \in 1 .. arrived, text[q].u = u
        PROVE  (i - n) + text[q].k - 1 < len' /\ mem'[(i - n) + text[q].k - 1] = q
    <3>1. TextInv /\ q \in 1 .. Len(text)
      BY BufferFacts DEF IInv
    <3>2. text[q].k \in Nat /\ 1 <= text[q].k
      BY <3>1, UnitOf
    <3>3. i + text[q].k - 1 < len /\ mem[i + text[q].k - 1] = q
      BY <1>3, <2>2 DEF From
    <3>4. (i - n) + text[q].k - 1 \in 0 .. len' - 1
          /\ ((i - n) + text[q].k - 1) + n = i + text[q].k - 1
      BY <1>0, <1>3, <3>2, <3>3
    <3> QED BY <1>0, <3>3, <3>4
  <2>3. \E x \in 0 .. len' - 1 : \A q \in 1 .. arrived' : text'[q].u = u =>
           x + text'[q].k - 1 < len' /\ mem'[x + text'[q].k - 1] = q
    BY <2>1, <2>2
  <2> QED BY <2>3 DEF InBuf, From
<1> QED BY <1>1, <1>2, <1>3

-----------------------------------------------------------------------------
(* The steps                                                               *)

\* The reasons for which a packet is missing do not go away
LEMMA ReasonsStay ==
  ASSUME IInv, refused \subseteq refused', lost \subseteq lost',
         out' = out \/ \E e : out' = Append(out, e)
  PROVE  \A u, kd : /\ Given(u) => Given(u)'
                    /\ u \in refused => u \in refused'
                    /\ Excused(u, kd) => Excused(u, kd)'
<1>1. out \in Seq([u : Packets, to : Kinds, sent : BOOLEAN]) /\ Len(out) \in Nat
  BY DEF IInv, TypeOK
<1>2. \A i \in 1 .. Len(out) : i \in 1 .. Len(out') /\ out'[i] = out[i]
  BY <1>1
<1> QED BY <1>2 DEF Given, Excused

\* What a step that receives nothing has to show: packets in the buffer are
\* kept or have their reason
LEMMA KeptStep ==
  ASSUME IInv, KeptInv, UNCHANGED <<text, arrived>>, refused \subseteq refused', lost \subseteq lost',
         out' = out \/ \E e : out' = Append(out, e),
         \A p \in 1 .. arrived, i \in 0 .. len - 1 :
           (text[p].kind \in Kinds /\ From(text[p].u, i)) => Kept(text[p].u, text[p].kind)'
  PROVE  KeptInv'
<1> SUFFICES ASSUME NEW p \in 1 .. arrived, NEW u \in Nat, NEW kd \in Kinds, text[p].u = u, text[p].kind = kd
             PROVE  Kept(u, kd)'
  BY DEF KeptInv
<1>1. Kept(u, kd)
  BY DEF KeptInv
<1>2. CASE InBuf(u)
  <2>1. PICK i \in 0 .. len - 1 : From(u, i)
    BY <1>2 DEF InBuf
  <2> QED BY <2>1
<1>3. CASE ~InBuf(u)
  BY <1>1, <1>3, ReasonsStay DEF Kept
<1> QED BY <1>2, <1>3

LEMMA KeepWait == ASSUME IInv, KInv, NoHead \/ Wait PROVE KInv'
<1>0. len \in Nat /\ Rising /\ OutInv /\ KeptInv
  BY BufferFacts DEF KInv
<1>1. CASE NoHead
  <2>1. /\ Flags = {} /\ len' = 0 /\ pc' = "idle"
        /\ UNCHANGED <<port, text, mem, arrived, mode, found, out, lost, refused, switches>>
    BY <1>1 DEF NoHead
  <2>2. Rising' /\ OutInv' /\ FoundIs'
    BY <1>0, <2>1 DEF Rising, OutInv, FoundIs
  <2>3. ASSUME NEW p \in 1 .. arrived, NEW i \in 0 .. len - 1, text[p].kind \in Kinds, From(text[p].u, i)
        PROVE FALSE
    BY <2>1, <2>3, HeadIn
  <2>4. KeptInv'
    BY <1>0, <2>1, <2>3, KeptStep
  <2> QED BY <2>2, <2>4 DEF KInv
<1>2. CASE Wait
  <2>1. /\ Flags # {} /\ Shift(Offset) /\ pc' # "found"
        /\ UNCHANGED <<port, text, arrived, mode, found, out, lost, refused, switches>>
    BY <1>2 DEF Wait
  <2>2. Offset \in 0 .. len /\ \A i \in Flags : Offset <= i
    BY <1>0, <2>1, OffsetLeast
  <2>3. Rising'
    BY <1>0, <2>1, <2>2, ShiftKeeps
  <2>4. OutInv'
    BY <1>0, <2>1, <2>2, ShiftKeeps DEF OutInv
  <2>5. ASSUME NEW p \in 1 .. arrived, NEW i \in 0 .. len - 1, text[p].kind \in Kinds, From(text[p].u, i)
        PROVE  Kept(text[p].u, text[p].kind)'
    <3>1. Offset <= i
      BY <2>2, <2>5, HeadIn
    <3>2. \A u : From(u, i) => InBuf(u)'
      BY <1>0, <2>1, <2>2, <3>1, ShiftKeeps
    <3>3. \A u, kd : From(u, i) => Kept(u, kd)'
      BY <3>2 DEF Kept
    <3> QED BY <2>1, <2>5, <3>3
  <2>6. KeptInv'
    BY <1>0, <2>1, <2>5, KeptStep
  <2> QED BY <2>1, <2>3, <2>4, <2>6 DEF KInv, FoundIs
<1> QED BY <1>1, <1>2

\* The length field of a packet at the front is its own once it is there
LEMMA OwnLength ==
  ASSUME IInv, Rising, NEW p \in 1 .. arrived, From(text[p].u, Offset), Offset \in 0 .. len - 1,
         text[p].kind = mode, Offset + L.at + 2 <= len
  PROVE  TotalLens = {text[p].n}
<1>0. TextInv /\ p \in 1 .. Len(text) /\ arrived \in Nat /\ len \in Nat /\ mode \in Kinds /\ len <= Buf /\ Buf \in Nat
  BY BufferFacts DEF IInv
<1>1. PICK s \in Nat, n \in Nat, at \in Nat : s = p - text[p].k /\ n = text[p].n /\ at = L.at
  <2>1. p - text[p].k \in Nat /\ text[p].n \in Nat /\ L.at \in Nat
    BY <1>0, UnitOf, StreamAssumption DEF L
  <2> QED BY <2>1
<1>2. text[s + at + 1].b + Radix * text[s + at + 2].b + L.fixed = n /\ at + 2 \in 1 .. n /\ at + 1 \in 1 .. n
  <2>1. text[s + at + 1].b + Radix * text[s + at + 2].b + L.fixed = n
    BY <1>0, <1>1, PacketOf DEF L
  <2>2. L.fixed \in Nat /\ at + 4 <= L.fixed /\ L.fixed <= n
    BY <1>0, <1>1, PacketOf DEF L
  <2> QED BY <1>1, <2>1, <2>2
<1>3. mem[Offset + at] = s + at + 1 /\ mem[Offset + at + 1] = s + at + 2
  <2>1. Offset + (at + 1) - 1 < len /\ Offset + (at + 2) - 1 < len
    <3>1. Offset \in Nat /\ Offset + at + 2 <= len
      BY <1>0, <1>1
    <3> QED BY <1>0, <1>1, <3>1, FieldInBuffer
  <2>2. mem[Offset + (at + 1) - 1] = s + (at + 1) /\ mem[Offset + (at + 2) - 1] = s + (at + 2)
    BY <1>0, <1>1, <1>2, <2>1, PlaceOf
  <2>3. \A o, z, a \in Nat : /\ o + (a + 1) - 1 = o + a /\ o + (a + 2) - 1 = o + a + 1
                             /\ z + (a + 1) = z + a + 1 /\ z + (a + 2) = z + a + 2
    OBVIOUS
  <2>4. Offset \in Nat
    BY <1>0
  <2> QED BY <1>1, <2>2, <2>3, <2>4
<1>4. Byte(Offset + at) = text[s + at + 1].b /\ Byte(Offset + at + 1) = text[s + at + 2].b
  BY <1>1, <1>3 DEF Byte
<1>5. Offset + at + 1 < Buf
  <2>1. Offset \in Nat /\ Offset + at + 2 <= len
    BY <1>0, <1>1
  <2> QED BY <1>0, <2>1
<1> QED BY <1>1, <1>2, <1>4, <1>5 DEF TotalLens

\* A packet at the front, under its parser and with its length field, is not dropped
LEMMA NotDropped ==
  ASSUME IInv, Rising, NEW p \in 1 .. arrived, From(text[p].u, Offset), Offset \in 0 .. len - 1,
         text[p].kind = mode, Offset + L.at + 2 <= len, NEW x \in TotalLens
  PROVE  ~(x > L.max) /\ ~(Fits(x) /\ ~(Byte(Offset + x - 1) = EndFlag /\ Valid(x)))
<1>0. TextInv /\ p \in 1 .. Len(text) /\ arrived \in Nat /\ len \in Nat /\ mode \in Kinds
  BY BufferFacts DEF IInv
<1>1. PICK s \in Nat, n \in Nat : s = p - text[p].k /\ n = text[p].n /\ 1 <= n
  <2>1. p - text[p].k \in Nat /\ text[p].n \in Nat /\ 1 <= text[p].n
    BY <1>0, UnitOf
  <2> QED BY <2>1
<1>2. x = n
  BY <1>1, OwnLength
<1>3. n <= L.max /\ L.max \in Nat
  BY <1>0, <1>1, PacketOf DEF L
<1>4. ASSUME Offset + n <= len PROVE Byte(Offset + n - 1) = EndFlag /\ Valid(n)
  <2>1. ASSUME NEW m \in 1 .. n PROVE mem[Offset + m - 1] = s + m
    <3>1. Offset + m - 1 < len
      BY <1>0, <1>1, <1>4
    <3> QED BY <1>0, <1>1, <3>1, PlaceOf
  <2>2. mem[Offset] = s + 1
    <3>1. 1 \in 1 .. n /\ Offset + 1 - 1 = Offset
      BY <1>0, <1>1
    <3> QED BY <2>1, <3>1
  <2>3. text[mem[Offset]].k = 1 /\ text[mem[Offset]].n = n /\ text[mem[Offset]].kind = mode
    BY <1>0, <1>1, HeadIn
  <2>4. \A i \in 0 .. n - 1 : mem[Offset + i] = mem[Offset] + i
    <3> SUFFICES ASSUME NEW i \in 0 .. n - 1 PROVE mem[Offset + i] = mem[Offset] + i
      OBVIOUS
    <3>1. \A o, z, j \in Nat : o + (j + 1) - 1 = o + j /\ z + (j + 1) = (z + 1) + j
      OBVIOUS
    <3>2. Offset \in Nat /\ i \in Nat /\ i + 1 \in 1 .. n
      BY <1>0, <1>1
    <3>3. mem[Offset + (i + 1) - 1] = s + (i + 1)
      BY <2>1, <3>2
    <3> QED BY <1>1, <2>2, <3>1, <3>2, <3>3
  <2>5. text[s + n].b = EndFlag
    BY <1>0, <1>1, PacketOf
  <2>6. n \in 1 .. n /\ s + n # 0
    BY <1>1
  <2>7. Byte(Offset + n - 1) = EndFlag
    BY <2>1, <2>5, <2>6 DEF Byte
  <2> QED BY <2>3, <2>4, <2>7 DEF Valid
<1> QED BY <1>1, <1>2, <1>3, <1>4 DEF Fits

LEMMA KeepDrop == ASSUME IInv, KInv, Drop PROVE KInv'
<1>0. len \in Nat /\ Rising /\ OutInv /\ KeptInv /\ mode \in Kinds
  BY BufferFacts DEF KInv
<1>1. /\ Flags # {} /\ Shift(Offset + 1) /\ pc' # "found" /\ lost \subseteq lost'
      /\ UNCHANGED <<port, text, arrived, mode, found, out, refused, switches>>
  BY DEF Drop
<1>2. Offset \in 0 .. len - 1 /\ \A i \in Flags : Offset <= i
  BY <1>0, <1>1, OffsetLeast
<1>3. Offset + 1 \in 0 .. len
  BY <1>0, <1>2
<1>4. Rising'
  BY <1>0, <1>1, <1>3, ShiftKeeps
<1>5. OutInv'
  BY <1>0, <1>1, <1>3, ShiftKeeps DEF OutInv
<1>6. ASSUME NEW p \in 1 .. arrived, NEW i \in 0 .. len - 1, text[p].kind \in Kinds, From(text[p].u, i)
      PROVE  Kept(text[p].u, text[p].kind)'
  <2>1. Offset <= i
    BY <1>2, <1>6, HeadIn
  <2>2. CASE Offset + 1 <= i
    <3>1. \A u : From(u, i) => InBuf(u)'
      BY <1>0, <1>1, <1>3, <2>2, ShiftKeeps
    <3>2. \A u, kd : From(u, i) => Kept(u, kd)'
      BY <3>1 DEF Kept
    <3> QED BY <1>1, <1>6, <3>2
  <2>3. CASE i = Offset
    <3>1. /\ text[mem[Offset]].k = 1 /\ text[mem[Offset]].u = text[p].u
          /\ text[mem[Offset]].kind = text[p].kind
      BY <1>6, <2>3, HeadIn
    <3>2. text[p].kind # "junk" /\ Layout[text[p].kind].at \in Nat
      BY <1>6, Kindly, StreamAssumption
    <3>3. [u |-> text[p].u, have |-> len - Offset, own |-> text[p].kind = mode] \in lost'
      BY <3>1, <3>2 DEF Drop
    <3>4. text[p].kind # mode \/ len - Offset < Layout[text[p].kind].at + 2
      <4> SUFFICES ASSUME text[p].kind = mode, ~(len - Offset < Layout[text[p].kind].at + 2) PROVE FALSE
        OBVIOUS
      <4>1. Offset + L.at + 2 <= len
        BY <1>0, <1>2, <3>2 DEF L
      <4>2. From(text[p].u, Offset)
        BY <1>6, <2>3
      <4>3. \A x \in TotalLens : ~(x > L.max) /\ ~(Fits(x) /\ ~(Byte(Offset + x - 1) = EndFlag /\ Valid(x)))
        BY <1>0, <1>2, <4>1, <4>2, NotDropped
      <4> QED BY <4>3 DEF Drop
    <3>5. \E y \in lost' : y.u = text[p].u /\ (~y.own \/ y.have < Layout[text[p].kind].at + 2)
      BY <3>3, <3>4
    <3>6. \A u, kd : (\E y \in lost' : y.u = u /\ (~y.own \/ y.have < Layout[kd].at + 2)) => Kept(u, kd)'
      BY DEF Kept, Excused
    <3> QED BY <1>1, <3>5, <3>6
  <2> QED BY <1>0, <1>2, <2>1, <2>2, <2>3
<1>7. KeptInv'
  BY <1>0, <1>1, <1>6, KeptStep
<1> QED BY <1>1, <1>4, <1>5, <1>7 DEF KInv, FoundIs

LEMMA KeepFind == ASSUME IInv, KInv, Find PROVE KInv'
<1>1. PICK n \in TotalLens : Valid(n) /\ found' = n
  BY DEF Find
<1>2. UNCHANGED <<port, text, mem, len, arrived, mode, out, lost, refused, switches>>
  BY DEF Find
<1>3. Offset' = Offset
  BY <1>2 DEF Flags, Offset, Byte
<1>4. FoundIs'
  BY <1>1, <1>2, <1>3 DEF FoundIs, Valid
<1>5. Rising' /\ OutInv'
  BY <1>2 DEF KInv, Rising, OutInv
<1>6. ASSUME NEW p \in 1 .. arrived, NEW i \in 0 .. len - 1, text[p].kind \in Kinds, From(text[p].u, i)
      PROVE  Kept(text[p].u, text[p].kind)'
  <2>1. \A u, kd : From(u, i) => Kept(u, kd)'
    BY <1>2 DEF Kept, InBuf, From
  <2> QED BY <1>2, <1>6, <2>1
<1>7. KeptInv'
  BY <1>2, <1>6, KeptStep DEF KInv
<1> QED BY <1>4, <1>5, <1>7 DEF KInv

LEMMA ElementOf == ASSUME NEW S, NEW q \in Seq(S), NEW x \in 1 .. Len(q) PROVE q[x] \in S
OBVIOUS

LEMMA KeepDeliver == ASSUME IInv, KInv, Deliver PROVE KInv'
<1>0. /\ len \in Nat /\ arrived \in Nat /\ TextInv /\ Rising /\ OutInv /\ KeptInv
      /\ out \in Seq([u : Packets, to : Kinds, sent : BOOLEAN]) /\ Len(out) \in Nat
  BY BufferFacts DEF KInv, IInv, TypeOK
<1>1. PICK s \in BOOLEAN :
      /\ pc = "found" /\ Shift(Offset + found) /\ pc' # "found"
      /\ out' = Append(out, [u |-> text[mem[Offset]].u, to |-> mode, sent |-> s])
      /\ UNCHANGED <<port, text, arrived, mode, lost, refused, switches>>
  BY DEF Deliver
<1>2. Flags # {} /\ Offset + found <= len /\ found \in Nat
  BY <1>1, StreamAssumption DEF IInv, FoundInv, TypeOK
<1>3. Offset \in 0 .. len - 1 /\ \A i \in Flags : Offset <= i
  BY <1>0, <1>2, OffsetLeast
<1>4. Offset + found \in 0 .. len
  BY <1>0, <1>2, <1>3
<1>5. PICK h \in 1 .. arrived : h = mem[Offset] /\ h \in 1 .. Len(text)
  BY <1>3, BufferFacts
<1>6. /\ text[h].k = 1 /\ text[h].n = found
      /\ \A i \in 0 .. found - 1 : mem[Offset + i] = h + i
  BY <1>1, <1>5 DEF KInv, FoundIs
<1>7. Rising'
  BY <1>0, <1>1, <1>4, ShiftKeeps
<1>8. /\ len' = len - (Offset + found) /\ len' \in Nat
      /\ \A i \in 0 .. len' - 1 : i + (Offset + found) \in 0 .. len - 1 /\ mem'[i] = mem[i + (Offset + found)]
  BY <1>1, <1>4, ShiftMem
<1>9. /\ Len(out') = Len(out) + 1 /\ \A i \in 1 .. Len(out) : out'[i] = out[i]
      /\ out'[Len(out) + 1] = [u |-> text[h].u, to |-> mode, sent |-> s]
  BY <1>0, <1>1, <1>5
<1>10. ASSUME NEW x \in 1 .. Len(out) PROVE out[x].u < text[h].u
  <2>1. out[x].u \in Packets
    <3>1. out[x] \in [u : Packets, to : Kinds, sent : BOOLEAN]
      BY <1>0, ElementOf
    <3> QED BY <3>1
  <2>2. PICK p \in 1 .. Len(text) : text[p].u = out[x].u
    BY <2>1 DEF Packets
  <2>3. p < h /\ text[h].u # out[x].u
    <3>1. \A q \in 1 .. Len(text) : text[q].u = out[x].u => \A j \in 0 .. len - 1 : q < mem[j]
      BY <1>0 DEF OutInv
    <3>2. \A q \in 1 .. Len(text) : text[q].u = out[x].u => q < h
      BY <1>3, <1>5, <3>1
    <3>3. ~(h < h)
      BY <1>0, <1>5
    <3> QED BY <1>5, <2>2, <3>2, <3>3
  <2>4. text[p].u <= text[h].u
    BY <1>0, <1>5, <2>3, Order
  <2>5. text[p].u \in Nat /\ text[h].u \in Nat
    BY <1>0, <1>5, UnitOf
  <2> QED BY <2>2, <2>3, <2>4, <2>5
<1>11. ASSUME NEW p \in 1 .. Len(text), text[p].u = text[h].u
       PROVE  p <= arrived /\ \A j \in 0 .. len' - 1 : p < mem'[j]
  <2>1. p - h = text[p].k - 1 /\ text[p].k <= found /\ found >= 1 /\ text[p].k \in Nat
    <3>1. p - h = text[p].k - text[h].k /\ text[p].n = text[h].n
      BY <1>0, <1>5, <1>11, SameUnit
    <3>2. text[p].k \in Nat /\ text[p].k <= text[p].n /\ 1 <= text[p].k /\ text[p].n \in Nat
      BY <1>0, UnitOf
    <3> QED BY <1>6, <3>1, <3>2
  <2>2. PICK e \in 0 .. len - 1 : e = Offset + (found - 1) /\ mem[e] = h + (found - 1)
    <3>1. found - 1 \in 0 .. found - 1 /\ Offset + (found - 1) \in 0 .. len - 1
      BY <1>0, <1>2, <1>3, <2>1
    <3> QED BY <1>6, <3>1
  <2>3. p <= mem[e] /\ mem[e] \in 1 .. arrived
    <3>1. mem[e] \in 1 .. arrived
      BY BufferFacts
    <3>2. PICK k \in Nat : k = text[p].k /\ p - h = k - 1 /\ k <= found
      BY <2>1
    <3>3. p \in Nat /\ h \in Nat /\ found \in Nat
      BY <1>0, <1>2
    <3>4. p <= h + (found - 1)
      BY <3>2, <3>3
    <3> QED BY <2>2, <3>1, <3>4
  <2>4. ASSUME NEW j \in 0 .. len' - 1 PROVE p < mem'[j]
    <3>1. j + (Offset + found) \in 0 .. len - 1 /\ mem'[j] = mem[j + (Offset + found)]
      BY <1>8
    <3>2. e < j + (Offset + found)
      BY <1>0, <1>2, <1>3, <1>8, <2>1, <2>2
    <3>3. mem[e] < mem'[j] /\ mem'[j] \in 1 .. arrived
      BY <1>0, <3>1, <3>2, BufferFacts DEF Rising
    <3> QED BY <1>0, <2>3, <3>3
  <2> QED BY <1>0, <2>3, <2>4
<1>12. OutInv'
  <2>1. ASSUME NEW i \in 1 .. Len(out'), NEW j \in 1 .. Len(out'), i < j PROVE out'[i].u < out'[j].u
    <3>1. CASE j = Len(out) + 1
      <4>1. i \in 1 .. Len(out)
        BY <1>0, <1>9, <2>1, <3>1
      <4> QED BY <1>9, <1>10, <3>1, <4>1
    <3>2. CASE j # Len(out) + 1
      <4>1. i \in 1 .. Len(out) /\ j \in 1 .. Len(out)
        <5>1. Len(out) \in Nat /\ Len(out') = Len(out) + 1
          BY <1>0, <1>9
        <5> QED BY <2>1, <3>2, <5>1
      <4> QED BY <1>0, <1>9, <2>1, <4>1 DEF OutInv
    <3> QED BY <3>1, <3>2
  <2>2. ASSUME NEW x \in 1 .. Len(out'), NEW p \in 1 .. Len(text), text[p].u = out'[x].u
        PROVE  p <= arrived /\ \A j \in 0 .. len' - 1 : p < mem'[j]
    <3>1. CASE x = Len(out) + 1
      BY <1>9, <1>11, <2>2, <3>1
    <3>2. CASE x # Len(out) + 1
      <4>1. x \in 1 .. Len(out) /\ text[p].u = out[x].u
        BY <1>0, <1>9, <2>2, <3>2
      <4> QED BY <1>0, <1>1, <1>4, <4>1, ShiftKeeps
    <3> QED BY <3>1, <3>2
  <2> QED BY <1>1, <2>1, <2>2 DEF OutInv
<1>13. ASSUME NEW p \in 1 .. arrived, NEW i \in 0 .. len - 1, text[p].kind \in Kinds, From(text[p].u, i)
       PROVE  Kept(text[p].u, text[p].kind)'
  <2>1. Offset <= i /\ text[mem[i]].k = 1 /\ text[mem[i]].u = text[p].u
    BY <1>3, <1>13, HeadIn
  <2>2. CASE Offset + found <= i
    <3>1. \A u : From(u, i) => InBuf(u)'
      BY <1>0, <1>1, <1>4, <2>2, ShiftKeeps
    <3>2. \A u, kd : From(u, i) => Kept(u, kd)'
      BY <3>1 DEF Kept
    <3> QED BY <1>1, <1>13, <3>2
  <2>3. CASE i < Offset + found
    <3>1. PICK j \in 0 .. found - 1 : i = Offset + j
      <4>1. i - Offset \in 0 .. found - 1 /\ i = Offset + (i - Offset)
        BY <1>2, <1>3, <2>1, <2>3
      <4> QED BY <4>1
    <3>2. mem[i] = h + j
      BY <1>6, <3>1
    <3>3. text[h - text[h].k + (j + 1)].k = j + 1 /\ h - text[h].k + (j + 1) = h + j
      <4>1. j + 1 \in 1 .. text[h].n
        BY <1>2, <1>6
      <4>2. text[h - text[h].k + (j + 1)].k = j + 1
        BY <1>0, <1>5, <4>1, UnitOf
      <4>3. h \in Nat /\ text[h].k = 1
        BY <1>0, <1>5, <1>6
      <4>4. h - text[h].k + (j + 1) = h + j
        BY <4>3
      <4> QED BY <4>2, <4>4
    <3>4. text[h + j].k = j + 1
      BY <3>3
    <3>5. j = 0
      BY <2>1, <3>2, <3>4
    <3>6. text[p].u = text[h].u
      BY <1>5, <2>1, <3>2, <3>5
    <3>7. Len(out) + 1 \in 1 .. Len(out') /\ out'[Len(out) + 1].u = text[p].u
      BY <1>0, <1>9, <3>6
    <3>8. \A u, kd : (\E x \in 1 .. Len(out') : out'[x].u = u) => Kept(u, kd)'
      BY DEF Kept, Given
    <3> QED BY <1>1, <3>7, <3>8
  <2> QED BY <1>0, <1>2, <1>3, <2>2, <2>3
<1>14. KeptInv'
  BY <1>0, <1>1, <1>13, KeptStep
<1> QED BY <1>1, <1>7, <1>12, <1>14 DEF KInv, FoundIs

LEMMA KeepSwitch == ASSUME IInv, KInv, Switch PROVE KInv'
<1>1. UNCHANGED <<port, text, mem, len, arrived, pc, found, out, lost, refused>>
  BY DEF Switch
<1>2. Offset' = Offset
  BY <1>1 DEF Flags, Offset, Byte
<1>3. FoundIs' /\ Rising' /\ OutInv'
  BY <1>1, <1>2 DEF KInv, FoundIs, Rising, OutInv
<1>4. KeptInv'
  BY <1>1 DEF KInv, KeptInv, Kept, Given, Excused, InBuf, From
<1> QED BY <1>3, <1>4 DEF KInv

LEMMA KeepReceive ==
  ASSUME IInv, KInv, NEW n \in Segs[port], Receive(n)
  PROVE  KInv'
<1>0. /\ len \in Nat /\ arrived \in Nat /\ TextInv /\ Rising /\ OutInv /\ KeptInv
      /\ n \in Nat /\ Len(text) \in Nat /\ Buf \in Nat
      /\ \A i \in 0 .. len - 1 : mem[i] \in 1 .. arrived
  <2>1. n \in Nat
    BY StreamAssumption DEF IInv, TextInv
  <2> QED BY <2>1, BufferFacts DEF KInv, IInv
<1>1. /\ arrived + n <= Len(text) /\ len + n <= Buf /\ len' = len + n /\ arrived' = arrived + n
      /\ mem' = [i \in 0 .. Buf - 1 |-> IF i \in len .. len + n - 1 THEN arrived + 1 + i - len ELSE mem[i]]
      /\ pc' = "parse" /\ UNCHANGED <<port, text, mode, found, out, lost, refused, switches>>
  BY DEF Receive
<1>2. /\ \A i \in 0 .. len - 1 : i \in 0 .. len' - 1 /\ mem'[i] = mem[i]
      /\ \A i \in len .. len + n - 1 : i \in 0 .. len' - 1 /\ mem'[i] = arrived + 1 + i - len
  BY <1>0, <1>1
<1>n. /\ len \in Nat /\ arrived \in Nat /\ n \in Nat /\ len' = len + n /\ arrived' = arrived + n
      /\ len' \in Nat /\ arrived' \in Nat
  BY <1>0, <1>1
<1>3. Rising'
  <2> SUFFICES ASSUME NEW i \in 0 .. len' - 1, NEW j \in 0 .. len' - 1, i < j PROVE mem'[i] < mem'[j]
    BY DEF Rising
  <2>1. CASE j < len
    <3>1. i \in 0 .. len - 1 /\ j \in 0 .. len - 1
      BY <1>0, <2>1
    <3> QED BY <1>0, <1>2, <3>1 DEF Rising
  <2>2. CASE len <= i
    <3>1. i \in len .. len + n - 1 /\ j \in len .. len + n - 1
      BY <1>0, <1>1, <2>2
    <3>2. mem'[i] = arrived + 1 + i - len /\ mem'[j] = arrived + 1 + j - len
      BY <1>2, <3>1
    <3> QED BY <1>0, <3>2
  <2>3. CASE i < len /\ len <= j
    <3>1. i \in 0 .. len - 1 /\ j \in len .. len + n - 1
      BY <1>0, <1>1, <2>3
    <3>2. mem'[i] \in 1 .. arrived /\ mem'[j] = arrived + 1 + j - len
      BY <1>0, <1>2, <3>1
    <3> QED BY <1>0, <2>3, <3>2
  <2> QED BY <1>0, <2>1, <2>2, <2>3
<1>4. OutInv'
  <2> SUFFICES ASSUME NEW x \in 1 .. Len(out), NEW p \in 1 .. Len(text), text[p].u = out[x].u
               PROVE  p <= arrived' /\ \A j \in 0 .. len' - 1 : p < mem'[j]
    BY <1>0, <1>1 DEF OutInv
  <2>1. p <= arrived /\ \A j \in 0 .. len - 1 : p < mem[j]
    BY <1>0 DEF OutInv
  <2>2. ASSUME NEW j \in 0 .. len' - 1 PROVE p < mem'[j]
    <3>1. CASE j < len
      <4>1. j \in 0 .. len - 1
        BY <1>0, <3>1
      <4> QED BY <1>2, <2>1, <4>1
    <3>2. CASE len <= j
      <4>1. j \in len .. len + n - 1
        BY <1>0, <1>1, <3>2
      <4>2. mem'[j] = arrived + 1 + j - len
        BY <1>2, <4>1
      <4> QED BY <1>0, <2>1, <3>2, <4>2
    <3> QED BY <1>0, <3>1, <3>2
  <2> QED BY <1>0, <1>1, <2>1, <2>2
<1>5. ASSUME NEW u \in Nat, NEW q \in 1 .. arrived, text[q].u = u, NEW i \in 0 .. len - 1, From(u, i)
      PROVE  InBuf(u)'
  <2>0. q \in 1 .. Len(text)
    BY <1>0, <1>1
  <2>1. PICK s \in Nat, m \in Nat : s = q - text[q].k /\ m = text[q].n
    <3>1. q - text[q].k \in Nat /\ text[q].n \in Nat
      BY <1>0, <2>0, UnitOf
    <3> QED BY <3>1
  <2>2. ASSUME NEW r \in 1 .. arrived', text[r].u = u
        PROVE  i + text[r].k - 1 < len' /\ mem'[i + text[r].k - 1] = r
    <3>0. r \in 1 .. Len(text)
      BY <1>0, <1>1
    <3>1. PICK k \in Nat : k = text[r].k /\ r - k = s /\ 1 <= k /\ k <= m
      <4>1. r - text[r].k = q - text[q].k /\ text[r].n = text[q].n
        BY <1>0, <1>5, <2>0, <2>2, <3>0, SameUnit
      <4>2. text[r].k \in Nat /\ 1 <= text[r].k /\ text[r].k <= text[r].n
        BY <1>0, <3>0, UnitOf
      <4> QED BY <2>1, <4>1, <4>2
    <3>2. CASE r <= arrived
      <4>1. r \in 1 .. arrived
        BY <1>0, <3>2
      <4>2. i + k - 1 < len /\ mem[i + k - 1] = r
        BY <1>5, <2>2, <3>1, <4>1 DEF From
      <4>3. i + k - 1 \in 0 .. len - 1
        BY <1>n, <3>1, <4>2
      <4>4. i + k - 1 \in 0 .. len' - 1 /\ mem'[i + k - 1] = r
        BY <1>2, <4>2, <4>3
      <4> QED BY <1>n, <3>1, <4>4
    <3>3. CASE arrived < r
      <4>1. arrived < s + m
        <5>1. r \in Nat /\ r = s + k
          BY <1>n, <3>1
        <5> QED BY <1>n, <3>1, <3>3, <5>1
      <4>2. len = i + arrived - s
        BY <1>0, <1>5, <2>1, <4>1, TailOf
      <4>3. r \in Nat /\ r <= arrived + n /\ r = s + k
        BY <1>n, <3>1
      <4>4. i + k - 1 = len + (r - arrived) - 1
        BY <1>n, <3>1, <4>2, <4>3
      <4>5. i + k - 1 \in len .. len + n - 1 /\ arrived + 1 + (i + k - 1) - len = r
        BY <1>n, <3>3, <4>3, <4>4
      <4>6. i + k - 1 \in 0 .. len' - 1 /\ mem'[i + k - 1] = r
        BY <1>2, <4>5
      <4> QED BY <1>n, <3>1, <4>6
    <3> QED BY <1>0, <3>2, <3>3
  <2>3. i \in 0 .. len' - 1
    BY <1>2
  <2>4. text' = text
    BY <1>1
  <2>5. \E x \in 0 .. len' - 1 : \A r \in 1 .. arrived' : text'[r].u = u =>
          x + text'[r].k - 1 < len' /\ mem'[x + text'[r].k - 1] = r
    BY <2>2, <2>3, <2>4
  <2> QED BY <2>5 DEF InBuf, From
<1>6. ASSUME NEW u \in Nat, NEW p \in 1 .. arrived', text[p].u = u, \A q \in 1 .. arrived : text[q].u # u
      PROVE  InBuf(u)'
  <2>0. p \in 1 .. Len(text) /\ arrived < p
    <3>1. p \in 1 .. Len(text) /\ ~(p \in 1 .. arrived)
      BY <1>0, <1>1, <1>6
    <3> QED BY <1>n, <3>1
  <2>1. PICK s \in Nat : s = p - text[p].k /\ arrived <= s /\ s < p
    <3>1. text[p].k \in Nat /\ text[p].n \in Nat /\ 1 <= text[p].k /\ text[p].k <= text[p].n /\ p - text[p].k \in Nat
      BY <1>0, <2>0, UnitOf
    <3>2. text[p - text[p].k + 1].u = u
      <4>1. 1 \in 1 .. text[p].n
        BY <3>1
      <4> QED BY <1>0, <1>6, <2>0, <4>1, UnitOf
    <3>3. PICK z \in Nat, k \in Nat : z = p - text[p].k /\ k = text[p].k /\ 1 <= k
      BY <3>1
    <3>4. ~(z + 1 \in 1 .. arrived)
      BY <1>6, <3>2, <3>3
    <3>5. p = z + k /\ p \in Nat
      BY <1>n, <3>3
    <3>6. z + 1 \in Nat /\ arrived < z + 1
      BY <1>n, <3>4
    <3>7. arrived <= z /\ z < p
      BY <1>n, <3>3, <3>5, <3>6
    <3> QED BY <3>3, <3>7
  <2>2. PICK i \in 0 .. len' - 1 : i = len + (s - arrived)
    <3>1. p \in Nat /\ p <= arrived + n
      BY <1>n
    <3>2. len + (s - arrived) \in 0 .. len' - 1
      BY <1>n, <2>1, <3>1
    <3> QED BY <3>2
  <2>3. ASSUME NEW r \in 1 .. arrived', text[r].u = u
        PROVE  i + text[r].k - 1 < len' /\ mem'[i + text[r].k - 1] = r
    <3>0. r \in 1 .. Len(text) /\ arrived < r
      BY <1>0, <1>1, <1>6, <2>3
    <3>1. PICK k \in Nat : k = text[r].k /\ r - k = s
      <4>1. r - text[r].k = p - text[p].k
        BY <1>0, <1>6, <2>0, <2>3, <3>0, SameUnit
      <4>2. text[r].k \in Nat
        BY <1>0, <3>0, UnitOf
      <4> QED BY <2>1, <4>1, <4>2
    <3>2. r \in Nat /\ r <= arrived + n /\ r = s + k
      BY <1>n, <3>1
    <3>3. i + k - 1 = len + (r - arrived) - 1
      BY <1>n, <2>1, <2>2, <3>2
    <3>4. i + k - 1 \in len .. len + n - 1 /\ arrived + 1 + (i + k - 1) - len = r
      BY <1>n, <3>0, <3>2, <3>3
    <3>5. i + k - 1 \in 0 .. len' - 1 /\ mem'[i + k - 1] = r
      BY <1>2, <3>4
    <3> QED BY <1>n, <3>1, <3>5
  <2>4. text' = text
    BY <1>1
  <2>5. \E x \in 0 .. len' - 1 : \A r \in 1 .. arrived' : text'[r].u = u =>
          x + text'[r].k - 1 < len' /\ mem'[x + text'[r].k - 1] = r
    BY <2>2, <2>3, <2>4
  <2> QED BY <2>5 DEF InBuf, From
<1>7. KeptInv'
  <2> SUFFICES ASSUME NEW p \in 1 .. arrived', NEW u \in Nat, NEW kd \in Kinds, text[p].u = u, text[p].kind = kd
               PROVE  Kept(u, kd)'
    BY <1>1 DEF KeptInv
  <2>1. CASE \E q \in 1 .. arrived : text[q].u = u
    <3>1. PICK q \in 1 .. arrived : text[q].u = u
      BY <2>1
    <3>2. text[q].kind = kd
      <4>1. p \in 1 .. Len(text) /\ q \in 1 .. Len(text)
        BY <1>0, <1>1
      <4> QED BY <1>0, <3>1, <4>1, SameUnit
    <3>3. Kept(u, kd)
      BY <1>0, <3>1, <3>2 DEF KeptInv
    <3>4. InBuf(u) => InBuf(u)'
      BY <1>5, <3>1 DEF InBuf
    <3> QED BY <1>1, <3>3, <3>4, ReasonsStay DEF Kept
  <2>2. CASE \A q \in 1 .. arrived : text[q].u # u
    BY <1>6, <2>2 DEF Kept
  <2> QED BY <2>1, <2>2
<1> QED BY <1>1, <1>3, <1>4, <1>7 DEF KInv, FoundIs

LEMMA KeepOverflow ==
  ASSUME IInv, KInv, NEW n \in Segs[port], Overflow(n)
  PROVE  KInv'
<1>0. /\ len \in Nat /\ arrived \in Nat /\ TextInv /\ Rising /\ OutInv /\ KeptInv
      /\ n \in Nat /\ Len(text) \in Nat
  <2>1. n \in Nat
    BY StreamAssumption DEF IInv, TextInv
  <2> QED BY <2>1, BufferFacts DEF KInv, IInv
<1>1. /\ arrived + n <= Len(text) /\ arrived' = arrived + n /\ pc' = "idle"
      /\ len' = IF port = "tcp" THEN 0 ELSE len
      /\ UNCHANGED <<port, text, mem, mode, pc, found, out, lost, switches>>
      /\ refused \subseteq refused'
      /\ {text[p].u : p \in arrived + 1 .. arrived + n} \subseteq refused'
      /\ port = "tcp" => {text[mem[i]].u : i \in 0 .. len - 1} \subseteq refused'
  BY DEF Overflow
<1>2. Rising' /\ FoundIs'
  BY <1>0, <1>1 DEF Rising, FoundIs
<1>3. OutInv'
  BY <1>0, <1>1 DEF OutInv
<1>4. ASSUME NEW p \in 1 .. arrived', NEW u \in Nat, NEW kd \in Kinds, text[p].u = u, text[p].kind = kd
      PROVE  Kept(u, kd)'
  <2>1. CASE \E q \in arrived + 1 .. arrived + n : text[q].u = u
    <3>1. u \in refused'
      BY <1>1, <2>1
    <3> QED BY <3>1 DEF Kept
  <2>2. CASE \A q \in arrived + 1 .. arrived + n : text[q].u # u
    <3>1. p \in 1 .. arrived
      BY <1>0, <1>1, <1>4, <2>2
    <3>2. Kept(u, kd)
      BY <1>0, <1>4, <3>1 DEF KeptInv
    <3>3. ASSUME NEW i \in 0 .. len - 1, From(u, i) PROVE u \in refused' \/ InBuf(u)'
      <4>1. CASE port = "tcp"
        <5>1. text[mem[i]].u = u
          BY <1>4, <3>1, <3>3, HeadIn
        <5> QED BY <1>1, <4>1, <5>1
      <4>2. CASE port # "tcp"
        <5>1. \A q \in 1 .. arrived' : text[q].u = u => q \in 1 .. arrived
          BY <1>0, <1>1, <2>2
        <5>2. len' = len
          BY <1>1, <4>2
        <5> QED BY <1>1, <3>3, <5>1, <5>2 DEF InBuf, From
      <4> QED BY <4>1, <4>2
    <3>4. InBuf(u) => (u \in refused' \/ InBuf(u)')
      BY <3>3 DEF InBuf
    <3> QED BY <1>1, <3>2, <3>4, ReasonsStay DEF Kept
  <2> QED BY <2>1, <2>2
<1> QED BY <1>1, <1>2, <1>3, <1>4 DEF KInv, KeptInv

LEMMA KeepReconnect == ASSUME IInv, KInv, Reconnect PROVE KInv'
<1>0. /\ len \in Nat /\ arrived \in Nat /\ TextInv /\ Rising /\ OutInv /\ KeptInv /\ Len(text) \in Nat
  BY BufferFacts DEF KInv, IInv
<1>1. /\ arrived \in 1 .. Len(text) /\ pc' = "idle"
      /\ arrived' = arrived + text[arrived].n - text[arrived].k
      /\ UNCHANGED <<port, text, mem, len, mode, pc, found, out, lost, switches>>
      /\ refused' = refused \cup {text[arrived].u}
  BY <1>0 DEF Reconnect
<1>2. PICK s \in Nat, k \in Nat, m \in Nat : s = arrived - text[arrived].k /\ k = text[arrived].k
         /\ m = text[arrived].n /\ 1 <= k /\ k <= m
  <2>1. /\ arrived - text[arrived].k \in Nat /\ text[arrived].k \in Nat /\ text[arrived].n \in Nat
        /\ 1 <= text[arrived].k /\ text[arrived].k <= text[arrived].n
    BY <1>0, <1>1, UnitOf
  <2> QED BY <2>1
<1>3. arrived' = s + m /\ arrived <= arrived' /\ arrived' \in Nat
  <2>1. arrived' = arrived + m - k /\ s = arrived - k /\ k <= m /\ arrived \in Nat
    BY <1>0, <1>1, <1>2
  <2> QED BY <2>1
<1>4. \A q \in 1 .. arrived' : q \in 1 .. arrived \/ text[q].u = text[arrived].u
  <2> SUFFICES ASSUME NEW q \in 1 .. arrived', ~(q \in 1 .. arrived) PROVE text[q].u = text[arrived].u
    OBVIOUS
  <2>1. PICK j \in 1 .. m : q = s + j
    <3>1. q \in Nat /\ s < q /\ q <= s + m
      <4>1. s <= arrived
        BY <1>0, <1>2
      <4>2. q \in Nat /\ q <= s + m /\ 1 <= q
        BY <1>3
      <4>3. arrived < q
        BY <1>0, <4>2
      <4> QED BY <1>0, <4>1, <4>2, <4>3
    <3>2. \A x, y, z \in Nat : (y < x /\ x <= y + z) => (x - y \in 1 .. z /\ x = y + (x - y))
      OBVIOUS
    <3>3. q - s \in 1 .. m /\ q = s + (q - s)
      BY <3>1, <3>2
    <3> QED BY <3>3
  <2>2. text[arrived - text[arrived].k + j].u = text[arrived].u
    BY <1>0, <1>1, <1>2, UnitOf
  <2> QED BY <1>2, <2>1, <2>2
<1>5. Rising' /\ FoundIs'
  BY <1>1 DEF KInv, Rising, FoundIs
<1>6. OutInv'
  BY <1>0, <1>1, <1>3 DEF OutInv
<1>7. ASSUME NEW p \in 1 .. arrived', NEW u \in Nat, NEW kd \in Kinds, text[p].u = u, text[p].kind = kd
      PROVE  Kept(u, kd)'
  <2>1. CASE u = text[arrived].u
    BY <1>1, <2>1 DEF Kept
  <2>2. CASE u # text[arrived].u
    <3>1. \A q \in 1 .. arrived' : text[q].u = u => q \in 1 .. arrived
      BY <1>4, <2>2
    <3>2. Kept(u, kd)
      BY <1>0, <1>7, <3>1 DEF KeptInv
    <3>3. InBuf(u) => InBuf(u)'
      BY <1>1, <3>1 DEF InBuf, From
    <3>4. refused \subseteq refused'
      BY <1>1
    <3> QED BY <1>1, <3>2, <3>3, <3>4, ReasonsStay DEF Kept
  <2> QED BY <2>1, <2>2
<1> QED BY <1>1, <1>5, <1>6, <1>7 DEF KInv, KeptInv

-----------------------------------------------------------------------------
LEMMA KInvStep == IInv /\ KInv /\ [Next]_vars => KInv'
<1> SUFFICES ASSUME IInv, KInv, [Next]_vars PROVE KInv'
  OBVIOUS
<1>1. CASE Next
  BY <1>1, KeepReceive, KeepOverflow, KeepReconnect, KeepWait, KeepDrop, KeepFind, KeepDeliver,
     KeepSwitch DEF Next
<1>2. CASE UNCHANGED vars
  <2>1. UNCHANGED <<port, text, mem, len, arrived, pc, found, mode, out, lost, refused>>
    BY <1>2 DEF vars
  <2>2. Offset' = Offset
    BY <2>1 DEF Flags, Offset, Byte
  <2>3. FoundIs' /\ Rising' /\ OutInv'
    BY <2>1, <2>2 DEF KInv, FoundIs, Rising, OutInv
  <2>4. KeptInv'
    BY <2>1 DEF KInv, KeptInv, Kept, Given, Excused, InBuf, From
  <2> QED BY <2>3, <2>4 DEF KInv
<1> QED BY <1>1, <1>2

LEMMA KInvInit == Init => KInv
<1> SUFFICES ASSUME Init PROVE KInv
  OBVIOUS
<1>1. len = 0 /\ arrived = 0 /\ pc = "idle" /\ out = <<>>
  BY DEF Init
<1> QED BY <1>1 DEF KInv, Rising, OutInv, FoundIs, KeptInv

\* Every byte of a packet whose last one has arrived is in the buffer with it
LEMMA KeptMeans == IInv /\ KInv => HealthyIsKept
<1> SUFFICES ASSUME IInv, KInv PROVE HealthyIsKept
  OBVIOUS
<1>0. TextInv /\ len \in Nat /\ arrived \in Nat /\ arrived <= Len(text) /\ Len(text) \in Nat
  BY BufferFacts DEF IInv
<1>1. \A i, j \in 1 .. Len(out) : i < j => out[i].u < out[j].u
  BY DEF KInv, OutInv
<1>2. ASSUME NEW p \in 1 .. arrived, text[p].k = text[p].n, text[p].kind # "junk"
      PROVE  \/ Sent(text[p].u) \/ Held(text[p].u)
             \/ text[p].u \in refused
             \/ \E y \in lost : y.u = text[p].u /\ (~y.own \/ y.have < Layout[text[p].kind].at + 2)
             \/ Unsent(text[p].u)
  <2>0. p \in 1 .. Len(text)
    BY <1>0
  <2>1. text[p].u \in Nat /\ text[p].kind \in Kinds
    BY <1>0, <1>2, <2>0, UnitOf DEF Chars
  <2>2. Kept(text[p].u, text[p].kind)
    BY <2>1 DEF KInv, KeptInv
  <2>3. InBuf(text[p].u) => Held(text[p].u)
    <3> SUFFICES ASSUME NEW i \in 0 .. len - 1, From(text[p].u, i), NEW q \in 1 .. Len(text), text[q].u = text[p].u
                 PROVE  \E j \in 0 .. len - 1 : mem[j] = q
      BY DEF InBuf, Held
    <3>1. PICK k \in Nat : k = text[q].k /\ 1 <= k /\ k <= text[q].n
      BY <1>0, UnitOf
    <3>2. q \in 1 .. arrived
      <4>1. p - text[p].k = q - text[q].k /\ text[p].n = text[q].n
        BY <1>0, <2>0, SameUnit
      <4>2. text[p].n \in Nat
        BY <1>0, <2>0, UnitOf
      <4> QED BY <1>0, <1>2, <3>1, <4>1, <4>2
    <3>3. i + k - 1 < len /\ mem[i + k - 1] = q
      BY <3>1, <3>2 DEF From
    <3>4. i + k - 1 \in 0 .. len - 1
      <4>1. len \in Nat /\ i \in Nat /\ 1 <= k /\ i + k - 1 < len
        BY <1>0, <3>1, <3>3
      <4> QED BY <4>1
    <3> QED BY <3>3, <3>4
  <2>4. Given(text[p].u) => Sent(text[p].u) \/ Unsent(text[p].u)
    BY DEF Given, Sent, Unsent
  <2> QED BY <2>2, <2>3, <2>4 DEF Kept, Excused
<1> QED BY <1>1, <1>2 DEF HealthyIsKept

-----------------------------------------------------------------------------
(* The first loss                                                          *)

\* A stream of nothing but packets of one kind of which nothing was refused
\* and nothing dropped by the other parser
Pure(kd) == refused = {} /\ (\A y \in lost : y.own) /\ \A p \in 1 .. Len(text) : text[p].kind = kd

\* The buffer begins with a packet and holds all that has come of it and after it
AtFront == IF len = 0 THEN arrived < Len(text) => text[arrived + 1].k = 1
                    ELSE /\ text[mem[0]].k = 1 /\ mem[0] + len - 1 = arrived
                         /\ \A i \in 0 .. len - 1 : mem[i] = mem[0] + i

\* The place of the length field holds nothing or that of a packet that was passed on
Stale(kd) == LET at == Layout[kd].at IN
  (len <= at /\ at + 1 < Buf) => \/ mem[at] = 0 /\ mem[at + 1] = 0
                                 \/ mem[at] # 0 /\ text[mem[at]].k = at + 1 /\ mem[at + 1] = mem[at] + 1

Clean(kd) == lost = {} /\ AtFront /\ Stale(kd)
First(kd) == \E x \in lost : x.have = Layout[kd].at + 1 /\ \A y \in lost : y # x => x.u < y.u

\* The serial port's parser is the one for data packets
OfPort(kd) == port = "serial" => kd = "data"
PortInv == OfPort(mode) /\ (arrived > 0 => \A kd \in Kinds : OfPort(kd) => Layout[kd].at + 1 < Buf)

\* Packets are lost in their order
LostBehind == \A y \in lost : \E p \in 1 .. arrived :
  text[p].u = y.u /\ text[p].k = 1 /\ \A j \in 0 .. len - 1 : p < mem[j]

FirstInv == \A kd \in Kinds : (OfPort(kd) /\ Pure(kd)) => Clean(kd) \/ First(kd)

FInv == PortInv /\ LostBehind /\ FirstInv

LEMMA NextHead ==
  ASSUME TextInv, NEW p \in 1 .. Len(text), NEW q \in 1 .. Len(text), q = p + 1, text[p].k = text[p].n
  PROVE  text[q].k = 1
<1>1. PICK k \in Nat, n \in Nat, s \in Nat : k = text[q].k /\ n = text[q].n /\ s = q - k /\ 1 <= k /\ k <= n
  <2>1. /\ text[q].k \in Nat /\ text[q].n \in Nat /\ q - text[q].k \in Nat
        /\ 1 <= text[q].k /\ text[q].k <= text[q].n
    BY UnitOf
  <2> QED BY <2>1
<1>0. p \in Nat /\ s + k = p + 1
  <2>1. Len(text) \in Nat
    BY TextFacts
  <2>2. p \in Nat /\ q \in Nat
    BY <2>1
  <2> QED BY <1>1, <2>2
<1> SUFFICES ASSUME k # 1 PROVE FALSE
  BY <1>1
<1>2. PICK j \in 1 .. n : j + 1 = k /\ s + j = p
  <2>1. k - 1 \in 1 .. n
    BY <1>1
  <2>2. (k - 1) + 1 = k /\ s + (k - 1) = p
    BY <1>0
  <2> QED BY <2>1, <2>2
<1>3. text[q - text[q].k + j].k = j /\ text[q - text[q].k + j].n = text[q].n
  BY <1>1, UnitOf
<1>4. text[p].k = j /\ text[p].n = n
  BY <1>1, <1>2, <1>3
<1>5. text[q].k <= text[q].n /\ j = n
  BY <1>1, <1>4
<1> QED BY <1>1, <1>2, <1>5

\* A shift loses nothing that was lost before
LEMMA BehindShift ==
  ASSUME IInv, NEW n \in 0 .. len, Shift(n), UNCHANGED <<text, arrived>>, LostBehind
  PROVE  \A y \in lost : \E p \in 1 .. arrived :
            text[p].u = y.u /\ text[p].k = 1 /\ \A j \in 0 .. len' - 1 : p < mem'[j]
<1>1. \A i \in 0 .. len' - 1 : i + n \in 0 .. len - 1 /\ mem'[i] = mem[i + n]
  BY ShiftMem
<1> QED BY <1>1 DEF LostBehind

\* The new bytes are behind what was lost
LEMMA BehindReceive ==
  ASSUME IInv, LostBehind, NEW n \in Segs[port], Receive(n) \/ Overflow(n)
  PROVE  LostBehind'
<1>0. len \in Nat /\ arrived \in Nat /\ n \in Nat /\ TextInv /\ Buf \in Nat
  BY BufferFacts, StreamAssumption DEF IInv, TextInv
<1>1. ASSUME UNCHANGED <<text, mem, lost>>, len' \in 0 .. len, arrived' \in Nat, arrived <= arrived'
      PROVE LostBehind'
  BY <1>0, <1>1 DEF LostBehind
<1>2. CASE Receive(n)
  <2>1. /\ len' = len + n /\ arrived' = arrived + n /\ UNCHANGED <<text, lost>> /\ len + n <= Buf
        /\ mem' = [i \in 0 .. Buf - 1 |-> IF i \in len .. len + n - 1 THEN arrived + 1 + i - len ELSE mem[i]]
    BY <1>2 DEF Receive
  <2>2. ASSUME NEW p \in 1 .. arrived, \A j \in 0 .. len - 1 : p < mem[j], NEW i \in 0 .. len' - 1
        PROVE  p < mem'[i]
    <3>1. CASE i < len
      <4>1. i \in 0 .. len - 1 /\ mem'[i] = mem[i]
        BY <1>0, <2>1, <3>1
      <4> QED BY <2>2, <4>1
    <3>2. CASE len <= i
      <4>1. mem'[i] = arrived + 1 + i - len
        BY <1>0, <2>1, <3>2
      <4> QED BY <1>0, <3>2, <4>1
    <3> QED BY <1>0, <2>1, <3>1, <3>2
  <2>3. \A p \in 1 .. arrived : p \in 1 .. arrived'
    BY <1>0, <2>1
  <2> QED BY <2>1, <2>2, <2>3 DEF LostBehind
<1>3. CASE Overflow(n)
  <2>1. UNCHANGED <<text, mem, lost>> /\ (len' = 0 \/ len' = len) /\ arrived' = arrived + n
    BY <1>3 DEF Overflow
  <2> QED BY <1>0, <1>1, <2>1
<1> QED BY <1>2, <1>3

LEMMA BehindDrop ==
  ASSUME IInv, Rising, LostBehind, Drop
  PROVE  /\ LostBehind'
         /\ \A x \in lost' : x \in lost \/ \A y \in lost : y.u < x.u
<1>0. len \in Nat /\ TextInv /\ arrived \in Nat
  BY BufferFacts DEF IInv
<1>1. /\ Flags # {} /\ Shift(Offset + 1) /\ UNCHANGED <<port, text, arrived>>
      /\ lost' = IF text[mem[Offset]].k = 1 /\ text[mem[Offset]].kind # "junk"
                 THEN lost \cup {[u |-> text[mem[Offset]].u, have |-> len - Offset,
                                  own |-> text[mem[Offset]].kind = mode]}
                 ELSE lost
  BY DEF Drop
<1>2. Offset \in 0 .. len - 1 /\ Offset + 1 \in 0 .. len
  BY <1>0, <1>1, OffsetLeast
<1>3. PICK h \in 1 .. arrived : h = mem[Offset] /\ h \in 1 .. Len(text)
  BY <1>2, BufferFacts
<1>4. \A y \in lost : \E p \in 1 .. arrived :
            text[p].u = y.u /\ text[p].k = 1 /\ \A j \in 0 .. len' - 1 : p < mem'[j]
  BY <1>1, <1>2, BehindShift
<1>5. \A j \in 0 .. len' - 1 : h < mem'[j]
  <2>1. \A j \in 0 .. len' - 1 : j + (Offset + 1) \in 0 .. len - 1 /\ mem'[j] = mem[j + (Offset + 1)]
    BY <1>1, <1>2, ShiftMem
  <2>2. \A j \in 0 .. len' - 1 : Offset < j + (Offset + 1)
    BY <1>2
  <2> QED BY <1>2, <1>3, <2>1, <2>2 DEF Rising
<1>6. \A x \in lost' : x \in lost \/ (x.u = text[h].u /\ text[h].k = 1)
  BY <1>1, <1>3
<1>7. LostBehind'
  BY <1>1, <1>3, <1>4, <1>5, <1>6 DEF LostBehind
<1>8. ASSUME text[h].k = 1, NEW y \in lost PROVE y.u < text[h].u
  <2>1. PICK p \in 1 .. arrived : text[p].u = y.u /\ text[p].k = 1 /\ p < h
    BY <1>2, <1>3 DEF LostBehind
  <2>2. p \in 1 .. Len(text)
    BY <1>0, <2>1, BufferFacts
  <2>3. text[p].u <= text[h].u /\ text[p].u \in Nat /\ text[h].u \in Nat
    <3>1. p <= h
      BY <1>0, <2>1
    <3> QED BY <1>0, <1>3, <2>2, <3>1, Order, UnitOf
  <2>4. text[p].u # text[h].u
    <3> SUFFICES ASSUME text[p].u = text[h].u PROVE FALSE
      OBVIOUS
    <3>1. h - p = text[h].k - text[p].k
      BY <1>0, <1>3, <2>2, SameUnit
    <3> QED BY <1>0, <1>8, <2>1, <3>1
  <2> QED BY <2>1, <2>3, <2>4
<1> QED BY <1>6, <1>7, <1>8

\* The first loss stays the first
LEMMA FirstKept ==
  ASSUME IInv, Rising, LostBehind, Next, NEW kd, First(kd)
  PROVE  First(kd)'
<1>1. CASE Drop
  <2>1. PICK x \in lost : x.have = Layout[kd].at + 1 /\ \A y \in lost : y # x => x.u < y.u
    BY DEF First
  <2>2. x \in lost' /\ \A y \in lost' : y # x => x.u < y.u
    BY <1>1, <2>1, BehindDrop DEF Drop
  <2> QED BY <2>1, <2>2 DEF First
<1>2. CASE ~Drop
  <2>1. lost' = lost
    BY <1>2 DEF Next, Receive, Overflow, Reconnect, NoHead, Wait, Find, Deliver, Switch
  <2> QED BY <2>1 DEF First
<1> QED BY <1>1, <1>2

\* The byte at the front is the head of a packet, and the bytes of that packet are there
LEMMA FrontFlag ==
  ASSUME IInv, AtFront, len > 0, \A p \in 1 .. Len(text) : text[p].kind \in Kinds
  PROVE  Offset = 0 /\ Flags # {} /\ mem[0] \in 1 .. arrived /\ mem[0] \in 1 .. Len(text) /\ From(text[mem[0]].u, 0)
<1>0. len \in Nat /\ TextInv /\ arrived \in Nat /\ arrived <= Len(text) /\ Len(text) \in Nat
  BY BufferFacts DEF IInv
<1>1. 0 \in 0 .. len - 1
  BY <1>0
<1>2. PICK h \in 1 .. arrived : h = mem[0] /\ h \in 1 .. Len(text)
  BY <1>1, BufferFacts
<1>3. text[h].k = 1 /\ h + len - 1 = arrived /\ \A i \in 0 .. len - 1 : mem[i] = h + i
  BY <1>0, <1>2 DEF AtFront
<1>4. text[h].b = HeadFlag
  <2>1. text[h - text[h].k + 1].b = HeadFlag
    BY <1>0, <1>2, PacketOf
  <2>2. h - text[h].k + 1 = h
    BY <1>2, <1>3
  <2> QED BY <2>1, <2>2
<1>5. Byte(0) = HeadFlag
  BY <1>0, <1>2, <1>4 DEF Byte
<1>6. 0 \in Flags
  BY <1>1, <1>5 DEF Flags
<1>7. Offset = 0
  <2>1. Offset \in 0 .. len - 1 /\ Offset <= 0
    BY <1>0, <1>6, OffsetLeast
  <2> QED BY <1>0, <2>1
<1>8. ASSUME NEW q \in 1 .. arrived, text[q].u = text[h].u
      PROVE  0 + text[q].k - 1 < len /\ mem[0 + text[q].k - 1] = q
  <2>0. q \in 1 .. Len(text)
    BY <1>0
  <2>1. PICK k \in Nat : k = text[q].k /\ 1 <= k
    BY <1>0, <2>0, UnitOf
  <2>2. q - h = k - 1
    <3>1. q - h = text[q].k - text[h].k
      BY <1>0, <1>2, <1>8, <2>0, SameUnit
    <3> QED BY <1>3, <2>1, <3>1
  <2>3. q \in Nat /\ h \in Nat /\ q <= arrived
    BY <1>0, <1>2
  <2>4. k - 1 \in 0 .. len - 1 /\ h + (k - 1) = q /\ 0 + k - 1 = k - 1
    <3>1. h + len - 1 = arrived /\ 1 <= k /\ len \in Nat /\ arrived \in Nat
      BY <1>0, <1>3, <2>1
    <3>2. h + (k - 1) = q /\ 0 + k - 1 = k - 1
      BY <2>2, <2>3
    <3> QED BY <2>3, <3>1, <3>2
  <2>5. mem[k - 1] = q
    BY <1>3, <2>4
  <2>6. 0 + text[q].k - 1 = k - 1 /\ k - 1 < len
    BY <1>0, <2>1, <2>4
  <2> QED BY <2>5, <2>6
<1>9. From(text[h].u, 0)
  BY <1>8 DEF From
<1> QED BY <1>2, <1>6, <1>7, <1>9

\* In a clean buffer a packet is only dropped for half a length field
LEMMA CleanDrop ==
  ASSUME IInv, Rising, PortInv, NEW kd \in Kinds, OfPort(kd), Pure(kd), Pure(kd)', Clean(kd), Drop
  PROVE  First(kd)'
<1>0. /\ len \in Nat /\ TextInv /\ arrived \in Nat /\ arrived <= Len(text) /\ Len(text) \in Nat
      /\ len <= Buf /\ Buf \in Nat
  BY BufferFacts DEF IInv
<1>1. Flags # {} /\ Shift(Offset + 1) /\ UNCHANGED <<port, text, arrived, mode>> /\ len > 0
  BY DEF Drop, IInv, TypeOK
<1>2. /\ Offset = 0 /\ mem[0] \in 1 .. arrived /\ mem[0] \in 1 .. Len(text) /\ From(text[mem[0]].u, 0)
      /\ text[mem[0]].k = 1 /\ text[mem[0]].kind = kd
  <2>1. \A p \in 1 .. Len(text) : text[p].kind = kd
    BY DEF Pure
  <2>2. /\ Offset = 0 /\ mem[0] \in 1 .. arrived /\ mem[0] \in 1 .. Len(text) /\ From(text[mem[0]].u, 0)
    BY <1>1, <2>1, FrontFlag DEF Clean
  <2>3. text[mem[0]].k = 1
    BY <1>0, <1>1 DEF Clean, AtFront
  <2> QED BY <2>1, <2>2, <2>3
<1>3. /\ lost = {}
      /\ lost' = {[u |-> text[mem[0]].u, have |-> len, own |-> kd = mode]}
  <2>1. kd # "junk" /\ len - 0 = len
    BY <1>0, Kindly
  <2>2. lost' = lost \cup {[u |-> text[mem[0]].u, have |-> len - 0, own |-> kd = mode]}
    BY <1>2, <2>1 DEF Drop
  <2> QED BY <2>1, <2>2 DEF Clean
<1>4. kd = mode
  BY <1>3 DEF Pure
<1>5. PICK at \in Nat, fixed \in Nat, max \in Nat :
         /\ at = L.at /\ fixed = L.fixed /\ max = L.max /\ at + 4 <= fixed /\ fixed <= max
  BY <1>4, StreamAssumption DEF L
<1>6. PICK x \in TotalLens : x > L.max \/ (Fits(x) /\ ~(Byte(Offset + x - 1) = EndFlag /\ Valid(x)))
  BY DEF Drop
<1>7. ~(at + 2 <= len)
  <2> SUFFICES ASSUME at + 2 <= len PROVE FALSE
    OBVIOUS
  <2>1. Offset \in 0 .. len - 1 /\ Offset + L.at + 2 <= len
    BY <1>0, <1>1, <1>2, <1>5
  <2>2. /\ mem[0] \in 1 .. arrived /\ From(text[mem[0]].u, Offset) /\ text[mem[0]].kind = mode
    BY <1>2, <1>4
  <2>3. \A z \in TotalLens : ~(z > L.max) /\ ~(Fits(z) /\ ~(Byte(Offset + z - 1) = EndFlag /\ Valid(z)))
    BY <2>1, <2>2, NotDropped
  <2> QED BY <1>6, <2>3
<1>8. ~(len <= at)
  <2> SUFFICES ASSUME len <= at PROVE FALSE
    OBVIOUS
  <2>1. at + 1 < Buf
    <3>1. arrived > 0
      BY <1>0, <1>2
    <3> QED BY <1>4, <1>5, <3>1 DEF PortInv, L
  <2>2. x = Byte(at) + Radix * Byte(at + 1) + fixed
    <3>1. Offset + L.at + 1 = at + 1 /\ Offset + L.at = at
      BY <1>2, <1>5
    <3>2. TotalLens = {Byte(at) + Radix * Byte(at + 1) + fixed}
      BY <1>5, <2>1, <3>1 DEF TotalLens
    <3> QED BY <3>2
  <2>3. x \in fixed .. max
    <3>1. CASE mem[at] = 0 /\ mem[at + 1] = 0
      <4>1. Byte(at) = 0 /\ Byte(at + 1) = 0
        BY <3>1 DEF Byte
      <4>2. Radix * 0 = 0
        BY StreamAssumption
      <4> QED BY <1>5, <2>2, <4>1, <4>2
    <3>2. CASE mem[at] # 0 /\ text[mem[at]].k = at + 1 /\ mem[at + 1] = mem[at] + 1
      <4>1. PICK p \in 1 .. Len(text) : p = mem[at] /\ p <= arrived
        <5>1. mem[at] \in 0 .. arrived
          <6>1. mem \in [0 .. Buf - 1 -> 0 .. arrived]
            BY DEF IInv, TypeOK
          <6>2. at \in 0 .. Buf - 1
            BY <1>0, <2>1
          <6> QED BY <6>1, <6>2
        <5> QED BY <1>0, <3>2, <5>1
      <4>2. PICK s \in Nat, n \in Nat : s = p - text[p].k /\ n = text[p].n
        BY <1>0, UnitOf
      <4>3. /\ text[s + at + 1].b + Radix * text[s + at + 2].b + fixed = n /\ fixed <= n /\ n <= max
        <5>1. text[p].kind = mode
          BY <1>4 DEF Pure
        <5>2. mode \in Kinds
          BY <1>4
        <5>3. /\ text[(p - text[p].k) + Layout[mode].at + 1].b
                   + Radix * text[(p - text[p].k) + Layout[mode].at + 2].b + Layout[mode].fixed = text[p].n
              /\ Layout[mode].fixed <= text[p].n /\ text[p].n <= Layout[mode].max
          BY <1>0, <5>1, <5>2, PacketOf
        <5> QED BY <1>5, <4>2, <5>3 DEF L
      <4>4. s + at + 1 = p /\ s + at + 2 = p + 1 /\ p + 1 # 0
        <5>1. p \in Nat /\ s = p - (at + 1)
          BY <1>0, <3>2, <4>1, <4>2
        <5> QED BY <5>1, PlacesInField
      <4>5. Byte(at) = text[s + at + 1].b /\ Byte(at + 1) = text[s + at + 2].b
        BY <3>2, <4>1, <4>4 DEF Byte
      <4> QED BY <1>5, <2>2, <4>2, <4>3, <4>5
    <3>3. \/ mem[at] = 0 /\ mem[at + 1] = 0
          \/ mem[at] # 0 /\ text[mem[at]].k = at + 1 /\ mem[at + 1] = mem[at] + 1
      BY <1>4, <1>5, <2>1 DEF Clean, Stale, L
    <3> QED BY <3>1, <3>2, <3>3
  <2>4. ~(x > L.max)
    BY <1>5, <2>3
  <2>5. ~Fits(x)
    <3>1. ~(Offset + x <= len)
      BY <1>0, <1>2, <1>5, <2>3
    <3> QED BY <3>1 DEF Fits
  <2> QED BY <1>6, <2>4, <2>5
<1>9. len = at + 1
  <2>1. len \in Nat
    BY <1>0
  <2> QED BY <1>5, <1>7, <1>8, <2>1, NextTo
<1> QED BY <1>3, <1>4, <1>5, <1>9 DEF First, L

\* A segment leaves a clean buffer clean, and a lost one ends the premise
LEMMA CleanReceive ==
  ASSUME IInv, NEW kd \in Kinds, Pure(kd), Clean(kd), NEW n \in Segs[port], Receive(n)
  PROVE  Clean(kd)'
<1>0. /\ len \in Nat /\ TextInv /\ arrived \in Nat /\ Len(text) \in Nat /\ Buf \in Nat /\ n \in Nat \ {0}
      /\ len <= Buf /\ \A i \in 0 .. len - 1 : mem[i] \in 1 .. arrived
  <2>1. n \in Nat \ {0}
    BY StreamAssumption DEF IInv, TextInv
  <2> QED BY <2>1, BufferFacts DEF IInv
<1>1. /\ arrived + n <= Len(text) /\ len + n <= Buf /\ len' = len + n /\ arrived' = arrived + n
      /\ mem' = [i \in 0 .. Buf - 1 |-> IF i \in len .. len + n - 1 THEN arrived + 1 + i - len ELSE mem[i]]
      /\ UNCHANGED <<port, text, lost>>
  BY DEF Receive
<1>2. /\ \A i \in 0 .. len - 1 : mem'[i] = mem[i]
      /\ \A i \in len .. len' - 1 : mem'[i] = arrived + 1 + i - len
      /\ \A i \in len' .. Buf - 1 : mem'[i] = mem[i]
  BY <1>0, <1>1
<1>3. text[mem'[0]].k = 1 /\ mem'[0] \in Nat /\ mem'[0] + len = arrived + 1
  <2>1. CASE len = 0
    <3>1. mem'[0] = arrived + 1
      BY <1>0, <1>1, <1>2, <2>1
    <3>2. text[arrived + 1].k = 1
      BY <1>0, <1>1, <2>1 DEF Clean, AtFront
    <3> QED BY <1>0, <2>1, <3>1, <3>2
  <2>2. CASE len # 0
    <3>1. 0 \in 0 .. len - 1
      BY <1>0, <2>2
    <3>2. mem'[0] = mem[0] /\ mem[0] \in Nat
      BY <1>0, <1>2, <3>1
    <3>3. text[mem[0]].k = 1 /\ mem[0] + len - 1 = arrived
      BY <2>2 DEF Clean, AtFront
    <3> QED BY <1>0, <3>2, <3>3
  <2> QED BY <2>1, <2>2
<1>4. \A i \in 0 .. len' - 1 : mem'[i] = mem'[0] + i
  <2> SUFFICES ASSUME NEW i \in 0 .. len' - 1 PROVE mem'[i] = mem'[0] + i
    OBVIOUS
  <2>1. CASE i < len
    <3>1. i \in 0 .. len - 1 /\ 0 \in 0 .. len - 1 /\ len # 0
      BY <1>0, <2>1
    <3>2. mem[i] = mem[0] + i
      BY <3>1 DEF Clean, AtFront
    <3> QED BY <1>2, <3>1, <3>2
  <2>2. CASE len <= i
    <3>1. mem'[i] = arrived + 1 + i - len
      BY <1>0, <1>1, <1>2, <2>2
    <3>2. mem'[0] \in Nat /\ mem'[0] + len = arrived + 1 /\ len \in Nat /\ arrived \in Nat /\ i \in Int
      BY <1>0, <1>3
    <3> QED BY <3>1, <3>2
  <2>3. i \in Int /\ len \in Nat
    BY <1>0
  <2> QED BY <2>1, <2>2, <2>3
<1>5. AtFront'
  <2>0. /\ len \in Nat /\ arrived \in Nat /\ n \in Nat \ {0} /\ mem'[0] \in Nat
        /\ len' = len + n /\ arrived' = arrived + n /\ mem'[0] + len = arrived + 1
    BY <1>0, <1>1, <1>3
  <2>1. len' # 0 /\ mem'[0] + len' - 1 = arrived'
    BY <2>0
  <2> QED BY <1>1, <1>3, <1>4, <2>1 DEF AtFront
<1>6. Stale(kd)'
  <2>0. Layout[kd].at \in Nat /\ Buf' = Buf
    BY <1>1, StreamAssumption DEF Buf
  <2>1. ASSUME len' <= Layout[kd].at, Layout[kd].at + 1 < Buf
        PROVE  /\ len <= Layout[kd].at
               /\ mem'[Layout[kd].at] = mem[Layout[kd].at] /\ mem'[Layout[kd].at + 1] = mem[Layout[kd].at + 1]
    <3>1. PICK at \in Nat : at = Layout[kd].at
      BY <2>0
    <3>0. len' \in Nat /\ len <= len' /\ len \in Nat /\ Buf \in Nat /\ len' <= at /\ at + 1 < Buf
      BY <1>0, <1>1, <2>1, <3>1
    <3>2. at \in len' .. Buf - 1 /\ at + 1 \in len' .. Buf - 1 /\ len <= at
      BY <3>0
    <3> QED BY <1>2, <3>1, <3>2
  <2> QED BY <1>1, <2>0, <2>1 DEF Clean, Stale
<1>7. lost' = {}
  BY <1>1 DEF Clean
<1> QED BY <1>5, <1>6, <1>7 DEF Clean

LEMMA NotRefused ==
  ASSUME IInv, NEW kd, Pure(kd)', NEW n \in Segs[port], Overflow(n)
  PROVE  FALSE
<1>1. n \in Nat \ {0} /\ arrived \in Nat
  BY StreamAssumption, BufferFacts DEF IInv, TextInv
<1>2. arrived + 1 \in arrived + 1 .. arrived + n
  BY <1>1
<1>3. text[arrived + 1].u \in refused'
  BY <1>2 DEF Overflow
<1> QED BY <1>3 DEF Pure

\* A packet that is passed on leaves a clean buffer, and its length field at most
LEMMA CleanDeliver ==
  ASSUME IInv, KInv, NEW kd \in Kinds, Pure(kd), Clean(kd), Deliver
  PROVE  Clean(kd)'
<1>0. /\ len \in Nat /\ TextInv /\ arrived \in Nat /\ arrived <= Len(text) /\ Len(text) \in Nat /\ Buf \in Nat /\ len <= Buf
  BY BufferFacts DEF IInv
<1>1. /\ pc = "found" /\ Shift(Offset + found) /\ UNCHANGED <<port, text, arrived, lost>> /\ len > 0
  BY DEF Deliver, IInv, TypeOK
<1>2. /\ Offset = 0 /\ mem[0] \in 1 .. arrived /\ mem[0] \in 1 .. Len(text)
  <2>1. \A p \in 1 .. Len(text) : text[p].kind \in Kinds
    BY DEF Pure
  <2> QED BY <1>1, <2>1, FrontFlag DEF Clean
<1>3. PICK h \in 1 .. Len(text) : h = mem[0] /\ text[h].k = 1 /\ text[h].n = found /\ h + len - 1 = arrived
  BY <1>0, <1>1, <1>2 DEF KInv, FoundIs, Clean, AtFront
<1>4. found \in Nat /\ found <= len /\ 1 <= found
  <2>1. found \in Nat /\ Offset + found <= len
    BY <1>1, StreamAssumption DEF IInv, TypeOK, FoundInv
  <2>2. text[h].k \in Nat /\ text[h].k <= text[h].n
    BY <1>0, UnitOf
  <2> QED BY <1>0, <1>2, <1>3, <2>1, <2>2
<1>5. \A i \in 0 .. len - 1 : mem[i] = h + i
  <2>1. len # 0
    BY <1>0, <1>1
  <2> QED BY <1>3, <2>1 DEF Clean, AtFront
<1>6. \A j \in 1 .. found : h + j - 1 \in 1 .. Len(text) /\ text[h + j - 1].k = j /\ text[h + j - 1].n = found
  <2> SUFFICES ASSUME NEW j \in 1 .. found PROVE h + j - 1 \in 1 .. Len(text) /\ text[h + j - 1].k = j /\ text[h + j - 1].n = found
    OBVIOUS
  <2>1. /\ h - text[h].k + j \in 1 .. Len(text)
        /\ text[h - text[h].k + j].k = j /\ text[h - text[h].k + j].n = text[h].n
    BY <1>0, <1>3, UnitOf
  <2>2. h - text[h].k + j = h + j - 1
    BY <1>0, <1>3, <1>4
  <2> QED BY <1>3, <2>1, <2>2
<1>7. /\ len' = len - found
      /\ mem' = [i \in 0 .. Buf - 1 |-> IF i < len - found THEN mem[i + found] ELSE mem[i]]
  <2>1. Offset + found = found
    BY <1>2, <1>4
  <2> QED BY <1>1, <2>1 DEF Shift
<1>8. PICK e \in 1 .. Len(text) : e = h + found - 1 /\ text[e].k = text[e].n
  <2>1. found \in 1 .. found
    BY <1>4
  <2> QED BY <1>6, <2>1
<1>9. e + 1 \in 1 .. Len(text) => text[e + 1].k = 1
  BY <1>0, <1>8, NextHead
<1>10. AtFront'
  <2>1. CASE len' = 0
    <3>1. arrived = e
      BY <1>0, <1>3, <1>4, <1>7, <1>8, <2>1
    <3>2. arrived < Len(text) => text[arrived + 1].k = 1
      BY <1>0, <1>9, <3>1
    <3> QED BY <1>1, <2>1, <3>2 DEF AtFront
  <2>2. CASE len' # 0
    <3>1. len' \in Nat /\ \A i \in 0 .. len' - 1 : i + found \in 0 .. len - 1 /\ i \in 0 .. Buf - 1 /\ i < len - found
      BY <1>0, <1>4, <1>7
    <3>2. \A i \in 0 .. len' - 1 : mem'[i] = h + (i + found)
      BY <1>5, <1>7, <3>1
    <3>3. mem'[0] = e + 1
      <4>1. 0 \in 0 .. len' - 1
        <5>1. len' \in Nat /\ len' # 0
          BY <2>2, <3>1
        <5> QED BY <5>1, ZeroIn
      <4>2. mem'[0] = h + (0 + found)
        BY <3>2, <4>1
      <4> QED BY <1>0, <1>4, <1>8, <4>2
    <3>4. \A i \in 0 .. len' - 1 : mem'[i] = mem'[0] + i
      <4>1. \A i \in 0 .. len' - 1 : h + (i + found) = (e + 1) + i
        BY <1>0, <1>4, <1>8, <3>1
      <4> QED BY <3>2, <3>3, <4>1
    <3>5. mem'[0] + len' - 1 = arrived /\ e + 1 \in 1 .. Len(text)
      <4>1. h \in Nat /\ found \in Nat /\ len \in Nat /\ Len(text) \in Nat /\ arrived \in Nat
        BY <1>0, <1>4
      <4>2. e = h + found - 1 /\ len' = len - found /\ h + len - 1 = arrived /\ mem'[0] = e + 1
            /\ arrived <= Len(text) /\ len' \in Nat /\ len' # 0
        BY <1>0, <1>3, <1>7, <1>8, <2>2, <3>1, <3>3
      <4> QED BY <4>1, <4>2
    <3> QED BY <1>1, <1>9, <2>2, <3>3, <3>4, <3>5 DEF AtFront
  <2> QED BY <2>1, <2>2
<1>11. Stale(kd)'
  <2>0. /\ Layout[kd].at \in Nat /\ Layout[kd].fixed \in Nat /\ Layout[kd].at + 4 <= Layout[kd].fixed
        /\ Layout[kd].fixed <= found /\ Buf' = Buf
    <3>1. text[h].kind = kd
      BY DEF Pure
    <3> QED BY <1>0, <1>1, <1>3, <3>1, PacketOf, StreamAssumption DEF Buf
  <2>1. ASSUME len' <= Layout[kd].at, Layout[kd].at + 1 < Buf
        PROVE  /\ mem'[Layout[kd].at] # 0 /\ text[mem'[Layout[kd].at]].k = Layout[kd].at + 1
               /\ mem'[Layout[kd].at + 1] = mem'[Layout[kd].at] + 1
    <3>1. PICK at \in Nat : at = Layout[kd].at
      BY <2>0
    <3>2. at + 4 <= found
      <4>1. PICK f \in Nat : at + 4 <= f /\ f <= found
        BY <2>0, <3>1
      <4> QED BY <1>4, <4>1
    <3>3. /\ at \in 0 .. Buf - 1 /\ at + 1 \in 0 .. Buf - 1 /\ ~(at < len - found) /\ ~(at + 1 < len - found)
          /\ at \in 0 .. len - 1 /\ at + 1 \in 0 .. len - 1 /\ at + 1 \in 1 .. found
      <4>1. /\ len \in Nat /\ found \in Nat /\ Buf \in Nat /\ found <= len /\ len - found <= at /\ at + 1 < Buf
        BY <1>0, <1>4, <1>7, <2>1, <3>1
      <4> QED BY <3>2, <4>1
    <3>4. mem'[at] = h + at /\ mem'[at + 1] = h + (at + 1)
      BY <1>5, <1>7, <3>3
    <3>5. text[h + (at + 1) - 1].k = at + 1
      BY <1>6, <3>3
    <3>6. h + (at + 1) - 1 = h + at /\ h + (at + 1) = (h + at) + 1 /\ h + at # 0
      BY <1>0
    <3> QED BY <3>1, <3>4, <3>5, <3>6
  <2> QED BY <1>1, <2>0, <2>1 DEF Stale
<1> QED BY <1>1, <1>10, <1>11 DEF Clean

LEMMA PortStep == ASSUME IInv, PortInv, Next PROVE PortInv'
<1>0. /\ TextInv /\ mode \in Kinds /\ arrived \in Nat
  BY BufferFacts DEF IInv
<1>1. port' = port /\ Buf' = Buf
  BY DEF Next, Receive, Overflow, Reconnect, NoHead, Wait, Drop, Find, Deliver, Switch, Buf
<1>2. OfPort(mode)'
  <2>1. CASE Switch
    BY <2>1 DEF Switch, OfPort
  <2>2. CASE ~Switch
    <3>1. mode' = mode
      BY <2>2 DEF Next, Receive, Overflow, Reconnect, NoHead, Wait, Drop, Find, Deliver
    <3> QED BY <1>1, <3>1 DEF PortInv, OfPort
  <2> QED BY <2>1, <2>2
<1>3. ASSUME arrived' > 0, NEW kd \in Kinds, OfPort(kd) PROVE Layout[kd].at + 1 < Buf
  <2>1. CASE arrived > 0
    BY <1>3, <2>1 DEF PortInv
  <2>2. CASE ~(arrived > 0)
    <3>1. PICK n \in Segs[port] : Receive(n) \/ Overflow(n)
      <4>1. arrived' # arrived /\ arrived = 0
        BY <1>0, <1>3, <2>2
      <4>2. ~(0 \in 1 .. Len(text) - 1)
        OBVIOUS
      <4> QED BY <4>1, <4>2 DEF Next, Reconnect, NoHead, Wait, Drop, Find, Deliver, Switch
    <3>2. CASE port = "serial"
      BY <1>3, <3>2, StreamAssumption DEF OfPort, Buf
    <3>3. CASE port = "tcp"
      <4>1. /\ Layout[kd] \in [at : Nat, guard : Nat, fixed : Nat, max : Nat]
            /\ Layout[kd].at + 4 <= Layout[kd].fixed /\ Layout[kd].fixed <= Layout[kd].max
        BY StreamAssumption
      <4>2. n \in Nat \ {0} /\ Layout[kd].max - 1 + n <= Buf /\ Buf \in Nat
        <5>1. BufLen["tcp"] \in Nat /\ n \in Segs["tcp"] /\ Segs["tcp"] \subseteq Nat \ {0}
          BY <3>3, StreamAssumption DEF Ports
        <5> QED BY <3>3, <5>1, StreamAssumption DEF Buf
      <4>3. PICK at \in Nat, fixed \in Nat, max \in Nat :
               at = Layout[kd].at /\ fixed = Layout[kd].fixed /\ max = Layout[kd].max
        BY <4>1
      <4> QED BY <4>1, <4>2, <4>3
    <3> QED BY <1>0, <3>2, <3>3 DEF TextInv, Ports
  <2> QED BY <2>1, <2>2
<1> QED BY <1>1, <1>2, <1>3 DEF PortInv, OfPort

LEMMA BehindStep == ASSUME IInv, KInv, LostBehind, Next PROVE LostBehind'
<1>0. Rising /\ len \in Nat
  BY BufferFacts DEF KInv
<1>1. CASE \E n \in Segs[port] : Receive(n) \/ Overflow(n)
  BY <1>1, BehindReceive
<1>2. CASE Reconnect
  <2>1. UNCHANGED <<text, mem, lost, len>> /\ arrived \in 1 .. Len(text) - 1
        /\ arrived' = arrived + text[arrived].n - text[arrived].k
    BY <1>2 DEF Reconnect
  <2>2. arrived \in Nat /\ text[arrived].n \in Nat /\ text[arrived].k \in Nat /\ text[arrived].k <= text[arrived].n
    <3>1. arrived \in 1 .. Len(text) /\ TextInv /\ arrived \in Nat
      BY <2>1, BufferFacts DEF IInv
    <3> QED BY <3>1, UnitOf
  <2>3. \A p \in 1 .. arrived : p \in 1 .. arrived'
    BY <2>1, <2>2
  <2> QED BY <2>1, <2>3 DEF LostBehind
<1>3. CASE NoHead
  BY <1>3 DEF NoHead, LostBehind
<1>4. CASE Wait
  <2>1. Flags # {} /\ Shift(Offset) /\ UNCHANGED <<text, arrived, lost>>
    BY <1>4 DEF Wait
  <2>2. Offset \in 0 .. len
    BY <1>0, <2>1, OffsetLeast
  <2> QED BY <2>1, <2>2, BehindShift DEF LostBehind
<1>5. CASE Drop
  BY <1>0, <1>5, BehindDrop
<1>6. CASE Deliver
  <2>1. pc = "found" /\ Shift(Offset + found) /\ UNCHANGED <<text, arrived, lost>>
    BY <1>6 DEF Deliver
  <2>2. Flags # {} /\ found \in Nat /\ Offset + found <= len
    BY <2>1, StreamAssumption DEF IInv, TypeOK, FoundInv
  <2>3. Offset + found \in 0 .. len
    BY <1>0, <2>2, OffsetLeast
  <2> QED BY <2>1, <2>3, BehindShift DEF LostBehind
<1>7. CASE Find \/ Switch
  BY <1>7 DEF Find, Switch, LostBehind
<1> QED BY <1>1, <1>2, <1>3, <1>4, <1>5, <1>6, <1>7 DEF Next

LEMMA CleanStep ==
  ASSUME IInv, KInv, PortInv, Next, NEW kd \in Kinds, OfPort(kd), Pure(kd), Pure(kd)', Clean(kd)
  PROVE  Clean(kd)' \/ First(kd)'
<1>0. Rising /\ len \in Nat /\ Buf \in Nat /\ mem \in [0 .. Buf - 1 -> 0 .. arrived] /\ len <= Buf
  BY BufferFacts DEF KInv, IInv, TypeOK
<1>1. \A p \in 1 .. Len(text) : text[p].kind \in Kinds
  BY DEF Pure
<1>2. CASE \E n \in Segs[port] : Receive(n) \/ Overflow(n)
  BY <1>2, CleanReceive, NotRefused
<1>3. CASE Reconnect
  BY <1>3 DEF Reconnect, Pure
<1>4. CASE NoHead
  BY <1>1, <1>4, FrontFlag DEF NoHead, Clean
<1>5. CASE Wait
  <2>1. len > 0 /\ Shift(Offset) /\ UNCHANGED <<port, text, arrived, lost>>
    BY <1>5 DEF Wait, IInv, TypeOK
  <2>2. Offset = 0
    BY <1>1, <2>1, FrontFlag DEF Clean
  <2>3. len' = len /\ mem' = mem
    <3>1. len' = len - 0 /\ mem' = [i \in 0 .. Buf - 1 |-> IF i < len - 0 THEN mem[i + 0] ELSE mem[i]]
      BY <2>1, <2>2 DEF Shift
    <3>2. \A i \in 0 .. Buf - 1 : i + 0 = i
      BY <1>0
    <3>3. mem' = [i \in 0 .. Buf - 1 |-> mem[i]]
      BY <3>1, <3>2
    <3> QED BY <1>0, <3>1, <3>3
  <2> QED BY <2>1, <2>3 DEF Clean, AtFront, Stale, Buf
<1>6. CASE Drop
  BY <1>0, <1>6, CleanDrop
<1>7. CASE Find \/ Switch
  <2>1. UNCHANGED <<port, text, mem, len, arrived, lost>>
    BY <1>7 DEF Find, Switch
  <2> QED BY <2>1 DEF Clean, AtFront, Stale, Buf
<1>8. CASE Deliver
  BY <1>8, CleanDeliver
<1> QED BY <1>2, <1>3, <1>4, <1>5, <1>6, <1>7, <1>8 DEF Next

LEMMA FInvStep == IInv /\ KInv /\ FInv /\ [Next]_vars => FInv'
<1> SUFFICES ASSUME IInv, KInv, FInv, [Next]_vars PROVE FInv'
  OBVIOUS
<1>1. CASE Next
  <2>0. PortInv /\ LostBehind /\ Rising
    BY DEF FInv, KInv
  <2>1. UNCHANGED <<port, text>> /\ refused \subseteq refused' /\ lost \subseteq lost'
    BY <1>1 DEF Next, Receive, Overflow, Reconnect, NoHead, Wait, Drop, Find, Deliver, Switch
  <2>2. ASSUME NEW kd \in Kinds, OfPort(kd), Pure(kd)' PROVE Clean(kd)' \/ First(kd)'
    <3>1. Pure(kd)
      BY <2>1, <2>2 DEF Pure
    <3>2. CASE Clean(kd)
      BY <1>1, <2>0, <2>2, <3>1, <3>2, CleanStep
    <3>3. CASE First(kd)
      BY <1>1, <2>0, <3>3, FirstKept
    <3> QED BY <2>2, <3>1, <3>2, <3>3 DEF FInv, FirstInv
  <2>3. FirstInv'
    BY <2>1, <2>2 DEF FirstInv, OfPort
  <2> QED BY <1>1, <2>0, <2>3, PortStep, BehindStep DEF FInv
<1>2. CASE UNCHANGED vars
  BY <1>2 DEF vars, FInv, PortInv, OfPort, LostBehind, FirstInv, Pure, Clean, First, AtFront, Stale, Buf
<1> QED BY <1>1, <1>2

LEMMA FInvInit == Init => FInv
<1> SUFFICES ASSUME Init PROVE FInv
  OBVIOUS
<1>0. TextInv /\ Buf \in Nat \ {0}
  BY InitIInv, BufSize DEF IInv
<1>1. len = 0 /\ arrived = 0 /\ lost = {} /\ mode = "data" /\ mem = [i \in 0 .. Buf - 1 |-> 0]
  BY DEF Init
<1>2. AtFront
  <2>1. ASSUME arrived < Len(text) PROVE text[arrived + 1].k = 1
    <3>1. 1 \in 1 .. Len(text)
      BY <1>1, <2>1, TextFacts, <1>0
    <3>2. PICK k \in Nat : k = text[1].k /\ 1 <= k /\ 1 - k \in Nat
      BY <1>0, <3>1, UnitOf
    <3>3. k = 1
      BY <3>2
    <3>4. arrived + 1 = 1
      BY <1>1
    <3> QED BY <3>2, <3>3, <3>4
  <2>2. len = 0
    BY <1>1
  <2> QED BY <2>1, <2>2 DEF AtFront
<1>3. \A kd \in Kinds : Stale(kd)
  <2>1. \A kd \in Kinds : Layout[kd].at \in Nat
    BY StreamAssumption
  <2>2. \A at \in Nat : at + 1 < Buf => mem[at] = 0 /\ mem[at + 1] = 0
    BY <1>0, <1>1
  <2> QED BY <2>1, <2>2 DEF Stale
<1> QED BY <1>1, <1>2, <1>3 DEF FInv, PortInv, OfPort, LostBehind, FirstInv, Clean

LEMMA FirstMeans == IInv /\ FInv => FirstLossIsSplit
<1> SUFFICES ASSUME IInv, FInv, refused = {} /\ (\A y \in lost : y.own) /\ \A p \in 1 .. Len(text) : text[p].kind = mode,
                    NEW x \in lost, \A y \in lost : x.u <= y.u
             PROVE  x.have = Layout[mode].at + 1
  BY DEF FirstLossIsSplit
<1>1. Clean(mode) \/ First(mode)
  <2>1. mode \in Kinds /\ OfPort(mode) /\ Pure(mode)
    BY BufferFacts DEF FInv, PortInv, Pure
  <2> QED BY <2>1 DEF FInv, FirstInv
<1>2. PICK z \in lost : z.have = Layout[mode].at + 1 /\ \A y \in lost : y # z => z.u < y.u
  BY <1>1 DEF Clean, First
<1>3. x.u \in Nat /\ z.u \in Nat
  <2>1. ASSUME NEW y \in lost PROVE y.u \in Nat
    <3>1. PICK p \in 1 .. arrived : text[p].u = y.u
      BY DEF FInv, LostBehind
    <3>2. p \in 1 .. Len(text) /\ TextInv
      BY <3>1, BufferFacts DEF IInv
    <3> QED BY <3>1, <3>2, UnitOf
  <2> QED BY <2>1
<1>4. x = z
  BY <1>2, <1>3
<1> QED BY <1>2, <1>4


\* No packet is missing without a reason: whatever comes between them, however the
\* stream is cut into segments and whenever device_state changes, what has come is
\* passed on in order and once or still held, unless some of it was refused or its
\* head was looked at by the other parser or before its length field was there.
THEOREM HealthyPacketsKept == Spec => []HealthyIsKept
<1>1. Init => IInv /\ KInv
  BY InitIInv, KInvInit
<1>2. IInv /\ KInv /\ [Next]_vars => (IInv /\ KInv)'
  BY IInvStep, KInvStep
<1> QED BY <1>1, <1>2, KeptMeans, PTL DEF Spec

\* The length that is read before it has come does no harm but in one case: on a
\* stream of packets of one kind the first loss is that of a packet of whose length
\* field one byte was there and the other not.
THEOREM FirstLossIsHalfALength == Spec => []FirstLossIsSplit
<1>1. Init => IInv /\ KInv /\ FInv
  BY InitIInv, KInvInit, FInvInit
<1>2. IInv /\ KInv /\ FInv /\ [Next]_vars => (IInv /\ KInv /\ FInv)'
  BY IInvStep, KInvStep, FInvStep
<1> QED BY <1>1, <1>2, FirstMeans, PTL DEF Spec

-----------------------------------------------------------------------------
(* Packets to pages: Upgrade, for every number of pages, packets, requests   *)
(* and reconnections.                                                       *)

\* A request under way will find room in update_service_q; the page that
\* comes next has its place, and success was told for the last one
RoomForInd == Len(updq) + (IF dpc = "erase" THEN 1 ELSE 0) <= events
PageInv ==
  upc = "recv" => /\ addr = (IF cpkt < Pages THEN cpkt + 1 ELSE Pages)
                  /\ errs <= 4
                  /\ ret = 2 => cpkt = Pages

UpTypes == UpTypeOK /\ RoomForInd /\ PageInv

\* The parts of UpTypes that belong together
UpQueues == /\ held \in Pkts \cup {None}
            /\ dataq \in Seq(Pkts) /\ Len(dataq) <= DataCap
            /\ updq \in Seq({"IND", "LOG_IN"}) /\ Len(updq) <= MaxEvents /\ RoomForInd
            /\ dpc \in {"idle", "erase"} /\ events \in 0 .. MaxEvents
UpTask   == /\ upc \in {"idle", "recv"} /\ first \in BOOLEAN
            /\ cpkt \in 0 .. Pages /\ addr \in 1 .. Pages /\ errs \in 0 .. 5 /\ ret \in {0, 1, 2}
            /\ PageInv
UpStore  == /\ dev \in {"WORK", "UPGRADE"} /\ flag \in {"NO", "NEED"} /\ leaving \in BOOLEAN
            /\ flash \in [1 .. Pages -> (Files \X (1 .. Pages)) \cup {Erased, Garbled}]
            /\ file \in Files /\ told \in {"none", "ok", "failed"} /\ sends \in 0 .. MaxSends
            /\ hurt \subseteq 1 .. Pages /\ unsent \in BOOLEAN

LEMMA UpParts == UpTypes <=> UpQueues /\ UpTask /\ UpStore
BY DEF UpTypes, UpTypeOK, PageNos, UpQueues, UpTask, UpStore

LEMMA UpPartsNext == UpTypes' <=> UpQueues' /\ UpTask' /\ UpStore'
BY DEF UpTypes, UpTypeOK, PageNos, UpQueues, UpTask, UpStore

LEMMA UpInitTypes == ASSUME UpInit PROVE UpTypes
<1>1. UpQueues
  BY UpgradeAssumption DEF UpInit, UpQueues, RoomForInd
<1>2. UpTask
  <2>1. upc = "idle" /\ first \in BOOLEAN /\ cpkt = 0 /\ errs = 0 /\ addr = 1 /\ ret = 0
    BY DEF UpInit
  <2> QED BY <2>1, UpgradeAssumption DEF UpTask, PageInv
<1>3. UpStore
  <2>1. flash = [i \in 1 .. Pages |-> Erased]
    BY DEF UpInit, Blank, PageNos
  <2>2. flash \in [1 .. Pages -> (Files \X (1 .. Pages)) \cup {Erased, Garbled}]
    BY <2>1
  <2>3. /\ dev = "WORK" /\ flag = "NO" /\ leaving \in BOOLEAN
        /\ file \in Files /\ told = "none" /\ sends = 0 /\ hurt = {} /\ unsent = FALSE
    BY DEF UpInit
  <2>4. sends \in 0 .. MaxSends
    BY <2>3, UpgradeAssumption
  <2>5. hurt \subseteq 1 .. Pages /\ unsent \in BOOLEAN
    <3>1. hurt = {} /\ unsent = FALSE
      BY <2>3
    <3> QED BY <3>1
  <2> QED BY <2>2, <2>3, <2>4, <2>5 DEF UpStore
<1> QED BY <1>1, <1>2, <1>3, UpParts

\* A packet that is taken from update_data_q
LEMMA UpHead ==
  ASSUME dataq \in Seq(Pkts), Fetch
  PROVE  /\ Next1 \in Pkts /\ Next1 = dataq[1]
         /\ dataq' \in Seq(Pkts) /\ Len(dataq') = Len(dataq) - 1
         /\ \A i \in 1 .. Len(dataq') : dataq'[i] = dataq[i + 1]
BY DEF Fetch, Next1

LEMMA ErasedTypes ==
  ASSUME UpStore, (\E n \in PageNos : ErasedUpTo(n)) \/ UNCHANGED flash
  PROVE  flash' \in [1 .. Pages -> (Files \X (1 .. Pages)) \cup {Erased, Garbled}]
BY DEF UpStore, ErasedUpTo, PageNos

LEMMA UpStepTypes == ASSUME UpTypes, UpNext PROVE UpTypes'
<1>0. /\ UpQueues /\ UpTask /\ UpStore
      /\ Pages \in Nat \ {0} /\ DataCap \in Nat \ {0} /\ MaxSends \in Nat /\ MaxEvents \in Nat
  BY UpParts, UpgradeAssumption
<1> SUFFICES UpQueues' /\ UpTask' /\ UpStore'
  BY UpPartsNext
<1>1. ASSUME NEW f \in Files, Request(f) PROVE UpQueues' /\ UpTask' /\ UpStore'
  BY <1>0, <1>1 DEF Request, taskVars, UpQueues, UpTask, UpStore, RoomForInd, PageInv
<1>2. ASSUME NEW p \in Pkts, Arrive(p) PROVE UpQueues' /\ UpTask' /\ UpStore'
  BY <1>0, <1>2 DEF Arrive, taskVars, UpQueues, UpTask, UpStore, RoomForInd, PageInv
<1>3. CASE Erase
  <2>1. flash' = [i \in 1 .. Pages |-> Erased] /\ hurt' \subseteq 1 .. Pages
    BY <1>0, <1>3 DEF Erase, Blank, PageNos, Changed, UpStore
  <2>2. UpQueues'
    BY <1>0, <1>3 DEF Erase, envVars, taskVars, UpQueues, RoomForInd
  <2>3. UpTask'
    BY <1>0, <1>3 DEF Erase, taskVars, UpTask, PageInv
  <2>4. unsent' \in BOOLEAN /\ dev' = "UPGRADE"
    BY <1>3 DEF Erase
  <2>5. flash' \in [1 .. Pages -> (Files \X (1 .. Pages)) \cup {Erased, Garbled}]
    BY <2>1
  <2> QED BY <1>0, <1>3, <2>1, <2>2, <2>3, <2>4, <2>5 DEF Erase, envVars, UpStore
<1>11. CASE EraseFails
  <2>1. /\ flash' \in [1 .. Pages -> (Files \X (1 .. Pages)) \cup {Erased, Garbled}]
        /\ hurt' \subseteq 1 .. Pages
    BY <1>0, <1>11, ErasedTypes DEF EraseFails, Changed, PageNos, UpStore
  <2>2. UpQueues'
    BY <1>0, <1>11 DEF EraseFails, envVars, taskVars, UpQueues, RoomForInd
  <2>3. UpTask'
    BY <1>0, <1>11 DEF EraseFails, taskVars, UpTask, PageInv
  <2> QED BY <1>0, <1>11, <2>1, <2>2, <2>3 DEF EraseFails, envVars, UpStore
<1>12. CASE ResetLost
  <2>1. leaving' \in BOOLEAN /\ unsent' \in BOOLEAN
    BY <1>12 DEF ResetLost
  <2> QED BY <1>0, <1>12, <2>1 DEF ResetLost, taskVars, envVars, UpQueues, UpTask, UpStore, RoomForInd, PageInv
<1>4. CASE Forward
  BY <1>0, <1>4 DEF Forward, taskVars, envVars, UpQueues, UpTask, UpStore, RoomForInd, PageInv
<1>5. CASE Relogin
  <2>1. UpQueues'
    <3>1. events < MaxEvents /\ events' = events + 1 /\ UNCHANGED <<dpc, held, dataq>>
      BY <1>5 DEF Relogin
    <3>2. /\ updq' \in Seq({"IND", "LOG_IN"})
          /\ Len(updq') = Len(updq) \/ Len(updq') = Len(updq) + 1
      <4>1. updq \in Seq({"IND", "LOG_IN"}) /\ "LOG_IN" \in {"IND", "LOG_IN"}
        BY <1>0 DEF UpQueues
      <4>2. updq' = updq \/ updq' = Append(updq, "LOG_IN")
        BY <1>5 DEF Relogin
      <4> QED BY <4>1, <4>2
    <3> QED BY <1>0, <3>1, <3>2 DEF UpQueues, RoomForInd
  <2>2. UpTask'
    BY <1>0, <1>5 DEF Relogin, taskVars, UpTask, PageInv
  <2>3. dev' = "WORK" /\ unsent' \in BOOLEAN
    BY <1>5 DEF Relogin
  <2> QED BY <1>0, <1>5, <2>1, <2>2, <2>3 DEF Relogin, UpStore
<1>6. CASE Reset
  <2>1. UpQueues'
    BY <1>0, <1>6 DEF Reset, envVars, UpQueues, RoomForInd
  <2>2. UpTask'
    <3>1. upc' = "idle" /\ first' \in BOOLEAN /\ cpkt' = 0 /\ errs' = 0 /\ addr' = 1 /\ ret' = 0
      BY <1>6 DEF Reset
    <3> QED BY <1>0, <3>1 DEF UpTask, PageInv
  <2>3. /\ flash' \in [1 .. Pages -> (Files \X (1 .. Pages)) \cup {Erased, Garbled}]
        /\ hurt' \subseteq 1 .. Pages
    BY <1>0, <1>6, ErasedTypes DEF Reset, Changed, PageNos, UpStore
  <2>4. leaving' \in BOOLEAN /\ unsent' \in BOOLEAN
    BY <1>6 DEF Reset
  <2> QED BY <1>0, <1>6, <2>1, <2>2, <2>3, <2>4 DEF Reset, envVars, UpStore
<1>7. CASE LogIn \/ Start
  <2>1. /\ upc = "idle" /\ updq # <<>> /\ updq' = Tail(updq)
        /\ UNCHANGED <<dev, dataq, dpc, held, file, events, sends, flash, leaving, unsent>>
    BY <1>7 DEF LogIn, Start, UpdRest, envVars
  <2>2. updq' \in Seq({"IND", "LOG_IN"}) /\ Len(updq') = Len(updq) - 1
    BY <1>0, <2>1 DEF UpQueues
  <2>3. UpQueues'
    BY <1>0, <2>1, <2>2 DEF UpQueues, RoomForInd
  <2>4. UpTask'
    <3>1. CASE LogIn
      BY <1>0, <3>1 DEF LogIn, taskVars, UpTask, PageInv
    <3>2. CASE Start
      <4>1. upc' = "recv" /\ first' \in BOOLEAN /\ cpkt' = 0 /\ errs' = 0 /\ addr' = 1 /\ ret' = 0
        BY <3>2 DEF Start
      <4> QED BY <1>0, <4>1 DEF UpTask, PageInv
    <3> QED BY <1>7, <3>1, <3>2
  <2>5. /\ flag' \in {"NO", "NEED"} /\ told' \in {"none", "ok", "failed"}
        /\ hurt' \subseteq 1 .. Pages
    BY <1>0, <1>7 DEF LogIn, Start, Written, PageNos, UpStore
  <2> QED BY <1>0, <2>1, <2>3, <2>4, <2>5 DEF UpStore
<1>8. CASE TooManyErrors \/ BadPacket \/ BadHeader \/ OutOfOrder
  <2>1. /\ Fetch /\ upc = "recv"
        /\ UNCHANGED <<dev, updq, upc, flag, leaving, dpc, held, file, events, sends, flash, cpkt, addr,
                       hurt, unsent>>
    BY <1>8 DEF TooManyErrors, BadPacket, BadHeader, OutOfOrder, Fetch,
                FetchRest, UpdRest, envVars
  <2>2. UpQueues'
    BY <1>0, <2>1, UpHead DEF UpQueues, RoomForInd
  <2>3. errs' \in 0 .. 4 /\ ret' \in {0, 1, 2}
    <3>1. errs \in 0 .. 4
      BY <1>0, <2>1 DEF UpTask, PageInv
    <3>2. (errs' = errs \/ (errs <= 3 /\ errs' = errs + 1)) /\ ret' \in {0, 1, 2}
      BY <1>8 DEF TooManyErrors, BadPacket, BadHeader, OutOfOrder
    <3> QED BY <3>1, <3>2
  <2>6. first' \in BOOLEAN
    <3>1. first' = first \/ first' = FALSE
      BY <1>8 DEF TooManyErrors, BadPacket, BadHeader, OutOfOrder
    <3> QED BY <1>0, <3>1 DEF UpTask
  <2>4. told' \in {"none", "ok", "failed"}
    BY <1>0, <1>8 DEF TooManyErrors, BadPacket, BadHeader, OutOfOrder, UpStore
  <2>7. ret' # 2
    BY <1>8 DEF TooManyErrors, BadPacket, BadHeader, OutOfOrder
  <2>5. UpTask'
    BY <1>0, <2>1, <2>3, <2>6, <2>7 DEF UpTask, PageInv
  <2> QED BY <1>0, <2>1, <2>2, <2>4, <2>5 DEF UpStore
<1>9. CASE WritePage \/ WriteFails
  <2>1. /\ Accepted /\ Fetch /\ upc = "recv" /\ Next1.n = cpkt + 1
        /\ UNCHANGED <<dev, updq, upc, flag, leaving, dpc, held, file, events, sends, unsent>>
        /\ first' \in BOOLEAN /\ cpkt' = Next1.n /\ errs' = 0
    BY <1>9 DEF WritePage, WriteFails, Accepted, Fetch, FetchRest, UpdRest, envVars, IsNext
  <2>2. IF Next1.n # Pages THEN addr' = addr + 1 /\ ret' = 0 /\ told' = told
                              ELSE ret' = 2 /\ told' = "ok" /\ addr' = addr
    BY <2>1 DEF Accepted
  <2>3. UpQueues'
    BY <1>0, <2>1, UpHead DEF UpQueues, RoomForInd
  <2>4. Next1.file \in Files /\ Next1.n \in 1 .. Pages
    BY <1>0, <2>1, UpHead DEF UpQueues, Pkts, PageNos
  <2>5. UpTask'
    BY <1>0, <2>1, <2>2, <2>4 DEF UpTask, PageInv
  <2>6. addr \in 1 .. Pages /\ \E x \in {flash[addr], Programmed, Garbled} : flash' = [flash EXCEPT ![addr] = x]
    BY <1>0, <1>9 DEF WritePage, WriteFails, UpTask
  <2>7. Programmed \in (Files \X (1 .. Pages)) \cup {Erased, Garbled}
    BY <2>4 DEF Programmed, Page
  <2>8. flash' \in [1 .. Pages -> (Files \X (1 .. Pages)) \cup {Erased, Garbled}]
    BY <1>0, <2>6, <2>7 DEF UpStore
  <2>9. hurt' \subseteq 1 .. Pages
    BY <1>0, <1>9, <2>6 DEF WritePage, WriteFails, UpStore
  <2> QED BY <1>0, <2>1, <2>2, <2>3, <2>5, <2>8, <2>9 DEF UpStore
<1>10. CASE KeepWaiting \/ Quit \/ Finish
  <2>1. /\ upc = "recv" /\ errs' = errs + 1
        /\ UNCHANGED <<dataq, updq, first, cpkt, addr, ret, flash, dpc, held, file, events, sends, hurt>>
    BY <1>10 DEF KeepWaiting, Quit, Finish, Waited, WaitRest, UpdRest, envVars
  <2>2. (upc' = "recv" /\ errs < 3) \/ upc' = "idle"
    BY <1>10, <2>1 DEF KeepWaiting, Quit, Finish
  <2>3. UpQueues'
    BY <1>0, <2>1 DEF UpQueues, RoomForInd
  <2>4. UpTask'
    BY <1>0, <2>1, <2>2 DEF UpTask, PageInv
  <2>5. dev' \in {"WORK", "UPGRADE"} /\ flag' \in {"NO", "NEED"} /\ told' \in {"none", "ok", "failed"}
    BY <1>0, <1>10 DEF KeepWaiting, Quit, Finish, UpStore
  <2>6. leaving' \in BOOLEAN /\ unsent' \in BOOLEAN
    BY <1>0, <1>10 DEF KeepWaiting, Quit, Finish, UpStore
  <2> QED BY <1>0, <2>1, <2>3, <2>4, <2>5, <2>6 DEF UpStore
<1> QED BY <1>1, <1>2, <1>3, <1>4, <1>5, <1>6, <1>7, <1>8, <1>9, <1>10, <1>11, <1>12 DEF UpNext, Update

-----------------------------------------------------------------------------
(* Pages in their places                                                   *)

LEMMA PrefixStep == ASSUME UpTypes, Prefix, UpNext PROVE Prefix'
<1>0. UpQueues /\ UpTask /\ UpStore /\ Pages \in Nat \ {0} /\ PageNos = 1 .. Pages
  BY UpParts, UpgradeAssumption DEF PageNos
<1> SUFFICES ASSUME upc' = "recv", NEW i \in PageNos, i \notin hurt'
             PROVE  IF i <= cpkt' THEN Landed(i)' ELSE flash'[i] = Erased
  BY <1>0 DEF Prefix, PageNos
<1>1. CASE WritePage \/ WriteFails
  <2>1. /\ upc = "recv" /\ Fetch /\ cpkt' = Next1.n /\ Next1.n = cpkt + 1
    BY <1>1 DEF WritePage, WriteFails, Accepted, Fetch, IsNext
  <2>2. Next1.file \in Files /\ Next1.n \in 1 .. Pages
    BY <1>0, <2>1, UpHead DEF UpQueues, Pkts
  <2>3. addr = Next1.n
    BY <1>0, <2>1, <2>2 DEF UpTask, PageInv
  <2>4. i \notin hurt /\ IF i <= cpkt THEN Landed(i) ELSE flash[i] = Erased
    BY <1>1, <2>1 DEF WritePage, WriteFails, Prefix
  <2>5. CASE i = addr
    <3>1. WritePage /\ flash[addr] = Erased
      <4>1. ~WriteFails
        BY <2>5 DEF WriteFails
      <4>2. ~(i <= cpkt)
        BY <1>0, <2>1, <2>3, <2>5 DEF UpTask
      <4> QED BY <1>1, <2>4, <2>5, <4>1, <4>2
    <3>2. flash'[i] = Page(Next1.file, i)
      BY <1>0, <2>3, <2>5, <3>1 DEF WritePage, Programmed, UpStore
    <3> QED BY <1>0, <2>1, <2>2, <2>3, <2>5, <3>2 DEF Landed, UpTask
  <2>6. CASE i # addr
    <3>1. flash'[i] = flash[i] /\ (i <= cpkt' <=> i <= cpkt)
      BY <1>0, <1>1, <2>1, <2>2, <2>3, <2>6 DEF WritePage, WriteFails, UpTask, UpStore
    <3> QED BY <2>4, <3>1 DEF Landed
  <2> QED BY <2>5, <2>6
<1>2. CASE Start
  BY <1>0, <1>2 DEF Start, Written, PageNos
<1>3. CASE Erase \/ EraseFails
  <2>1. upc = "recv" /\ cpkt' = cpkt /\ i \notin hurt /\ flash'[i] = flash[i]
    BY <1>3 DEF Erase, EraseFails, Changed, taskVars
  <2> QED BY <2>1 DEF Prefix, Landed
<1>4. CASE Reset
  BY <1>4 DEF Reset
<1>5. CASE \/ ResetLost \/ Forward \/ Relogin \/ LogIn
           \/ \E f \in Files : Request(f)
           \/ \E p \in Pkts : Arrive(p)
  <2>1. upc' = upc /\ cpkt' = cpkt /\ flash' = flash /\ hurt' = hurt
    BY <1>5 DEF ResetLost, Forward, Relogin, LogIn, Request, Arrive, taskVars
  <2> QED BY <2>1 DEF Prefix, Landed
<1>6. CASE TooManyErrors \/ BadPacket \/ BadHeader \/ OutOfOrder
  <2>1. upc' = upc /\ cpkt' = cpkt /\ flash' = flash /\ hurt' = hurt
    BY <1>6 DEF TooManyErrors, BadPacket, BadHeader, OutOfOrder, FetchRest
  <2> QED BY <2>1 DEF Prefix, Landed
<1>7. CASE KeepWaiting \/ Quit \/ Finish
  <2>1. upc = "recv" /\ cpkt' = cpkt /\ flash' = flash /\ hurt' = hurt
    BY <1>7 DEF KeepWaiting, Quit, Finish, Waited, WaitRest
  <2> QED BY <2>1 DEF Prefix, Landed
<1> QED BY <1>1, <1>2, <1>3, <1>4, <1>5, <1>6, <1>7 DEF UpNext, Update

\* Success is told by the step that takes the last page, and the copy ordered
\* while that is still so
LEMMA SuccessStep == ASSUME UpTypes, Prefix, UpNext, Succeeds PROVE Whole'
<1>0. UpTask /\ Pages \in Nat \ {0} /\ PageNos = 1 .. Pages
  BY UpParts, UpgradeAssumption DEF PageNos
<1>1. ~Start /\ ~Erase /\ ~EraseFails /\ ~Reset /\ ~ResetLost /\ ~Forward /\ ~Relogin /\ ~LogIn
  BY DEF Succeeds, Start, Erase, EraseFails, Reset, ResetLost, Forward, Relogin, LogIn
<1>2. ~\E f \in Files : Request(f)
  BY DEF Succeeds, Request
<1>3. ~\E p \in Pkts : Arrive(p)
  BY DEF Succeeds, Arrive
<1>4. ~TooManyErrors /\ ~BadPacket /\ ~BadHeader /\ ~OutOfOrder /\ ~KeepWaiting /\ ~Quit
  BY DEF Succeeds, TooManyErrors, BadPacket, BadHeader, OutOfOrder, KeepWaiting, Quit, FetchRest
<1>5. upc' = "recv" /\ cpkt' = Pages => Whole'
  <2>1. Prefix'
    BY PrefixStep
  <2> QED BY <1>0, <2>1 DEF Prefix, Whole, PageNos, Landed
<1>6. CASE WritePage \/ WriteFails
  <2>1. upc' = "recv" /\ flag' = flag
    BY <1>6 DEF WritePage, WriteFails, Accepted, Fetch, FetchRest
  <2>2. cpkt' = Pages
    BY <1>6, <2>1 DEF WritePage, WriteFails, Accepted, Succeeds
  <2> QED BY <1>5, <2>1, <2>2
<1>7. CASE Finish
  <2>1. upc = "recv" /\ ret = 2 /\ flash' = flash /\ hurt' = hurt
    BY <1>7 DEF Finish, Waited, WaitRest
  <2>2. cpkt = Pages
    BY <1>0, <2>1 DEF UpTask, PageInv
  <2> QED BY <1>0, <2>1, <2>2 DEF Prefix, Whole, Landed
<1> QED BY <1>1, <1>2, <1>3, <1>4, <1>6, <1>7 DEF UpNext, Update

-----------------------------------------------------------------------------
LEMMA UpStutter ==
  ASSUME UNCHANGED upVars
  PROVE  (UpTypes => UpTypes') /\ (Prefix => Prefix') /\ ~Succeeds
<1>1. UNCHANGED <<dev, dpc, held, dataq, updq, upc, first, cpkt, errs, addr, ret, flash, flag,
                  leaving, file, told, hurt, unsent, sends, events>>
  BY DEF upVars, taskVars, envVars
<1>2. UpTypes => UpTypes'
  BY <1>1 DEF UpTypes, RoomForInd, PageInv, UpTypeOK
<1>3. Prefix => Prefix'
  BY <1>1 DEF Prefix, Landed
<1> QED BY <1>1, <1>2, <1>3 DEF Succeeds

LEMMA UpTypesAlways == UpSpec => []UpTypes
<1>1. UpInit => UpTypes
  BY UpInitTypes
<1>2. UpTypes /\ [UpNext]_upVars => UpTypes'
  BY UpStepTypes, UpStutter
<1> QED BY <1>1, <1>2, PTL DEF UpSpec

\* The types, with addr always on a page and update_service_q never longer
\* than the requests and reconnections, for all values of the constants.
THEOREM UpTypeCorrect == UpSpec => []UpTypeOK
<1>1. UpTypes => UpTypeOK
  BY DEF UpTypes
<1> QED BY <1>1, UpTypesAlways, PTL

\* Whatever the platform sends, whoever asks for another upgrade meanwhile and
\* whatever the chip does: every page received is in the flash at its place, and
\* the flash blank behind them, except for the pages that upgrade_handler found
\* written, that were erased under it, or whose write failed unnoticed.
THEOREM DownloadIsWhole == UpSpec => []Prefix
<1>1. UpInit => Prefix
  BY DEF UpInit, Prefix
<1>2. UpTypes /\ Prefix /\ [UpNext]_upVars => Prefix'
  BY PrefixStep, UpStutter
<1> QED BY <1>1, <1>2, UpTypesAlways, PTL DEF UpSpec

\* upgrade_handler tells the platform of success, and orders the copy, only when
\* every page of the image is in its place, with the same exceptions.
THEOREM SuccessIsWhole == UpSpec => FinishIsWhole
<1>1. UpTypes /\ Prefix /\ [UpNext]_upVars => (Succeeds => Whole')
  BY SuccessStep, UpStutter
<1>2. (Succeeds => Whole') => [Succeeds => Whole']_upVars
  OBVIOUS
<1>3. UpSpec => [][Succeeds => Whole']_upVars
  BY <1>1, <1>2, UpTypesAlways, DownloadIsWhole, PTL DEF UpSpec
<1> QED BY <1>3 DEF FinishIsWhole

=============================================================================
