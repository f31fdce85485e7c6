----------------------------- MODULE SlipProofs -----------------------------
(***************************************************************************)
(* Theorems of Slip, for every set of packets, every size of the rings and *)
(* of the receiver's buffer, and any amount of noise.                      *)
(***************************************************************************)
EXTENDS Slip, SequenceTheorems, TLAPS

\* The first n bytes of a packet, as far as the receiver has room for them.
Taken(data, n) == [i \in 1 .. (IF n < max_packet_size THEN n ELSE max_packet_size)
                       |-> data[i]]

\* The byte the sender puts on the line next, now or in the next call.
Coming == IF next = NoByte THEN Byte(Len(sent) + 1, 0, 1, END) ELSE next

\* The byte that will reach the receiver's ring next.
Ahead == IF tx_buf = <<>> THEN Coming ELSE tx_buf[1]

\* b belongs to a packet of s, and stands where that packet has it.
Legit(s, b) ==
    /\ b.of \in 1 .. Len(s)
    /\ b.at \in 0 .. Len(s[b.of]) + 1
    /\ b.half \in 1 .. Len(Codes(s[b.of], b.at))
    /\ b = Coded(s[b.of], b.of, b.at, b.half)

\* A byte the line has added.
Added(n, b) == n > 0 /\ b.of = 0 /\ b.at = 0

\* What precedes b may be anything: its packet is broken, or, for the END
\* before a packet, the packet before is, or there was noise.
Suspect(br, n, b) == IF b.at > 0 THEN b.of \in br ELSE n > 0 \/ b.of - 1 \in br

\* a is what was sent just before b.
Precedes(s, a, b) ==
    IF b.at > 0 THEN a.of = b.of /\ b = Behind(s[b.of], a)
    ELSE a.of = b.of - 1 /\ (a.of # 0 => a.at > Len(s[a.of]))

\* No ESC just before takes the END before a packet for data.
Clear(br, a, b) == b.of # 0 /\ b.at = 0 /\ b.of \notin br => a.is # ESC

\* Where the bytes before b bring the receiver.
Reached(s, b, data, esc) ==
    IF b.at > 0
    THEN /\ data = Taken(s[b.of], b.at - 1)
         /\ esc = IF b.half = 2 THEN Coded(s[b.of], b.of, b.at, 1) ELSE NoByte
    ELSE data = <<>> /\ esc = NoByte

SentInv ==
    /\ next # NoByte => Legit(sent, next) /\ next.of = Len(sent)
    /\ \A i \in 1 .. Len(tx_buf) : Legit(sent, tx_buf[i])
    /\ \A i \in 1 .. Len(rx_buf) : Legit(sent, rx_buf[i]) \/ Added(noise, rx_buf[i])

Linked(a, b) == Suspect(broken, noise, b) \/ Precedes(sent, a, b)
LineInv ==
    /\ \A i \in 1 .. Len(tx_buf) - 1 : Linked(tx_buf[i], tx_buf[i + 1])
    /\ tx_buf # <<>> => Linked(tx_buf[Len(tx_buf)], Coming)
    /\ Linked(last, Ahead)

RingInv ==
    /\ \A i \in 1 .. Len(rx_buf) - 1 : /\ Linked(rx_buf[i], rx_buf[i + 1])
                                       /\ Clear(broken, rx_buf[i], rx_buf[i + 1])
    /\ rx_buf # <<>> => last = rx_buf[Len(rx_buf)]

Expected(b) == Suspect(broken, noise, b) \/ Reached(sent, b, p, c)
ReadInv ==
    /\ c # NoByte => c.is = ESC
    /\ rx_buf # <<>> => Expected(rx_buf[1]) /\ Clear(broken, c, rx_buf[1])
    /\ rx_buf = <<>> => Expected(Ahead) /\ (c # NoByte => last.is = ESC)

-----------------------------------------------------------------------------
\* The coding of a byte, and the bytes of a packet.

LEMMA StuffedFacts ==
  ASSUME NEW b
  PROVE  /\ b = END => Stuffed(b) = <<ESC, ESC_END>>
         /\ b = ESC => Stuffed(b) = <<ESC, ESC_ESC>>
         /\ b \notin {END, ESC} => Stuffed(b) = <<b>>
<1>1. END # ESC
  BY SlipAssumption
<1> QED
  BY <1>1, Zenon DEF Stuffed

LEMMA UnstuffedFacts ==
  ASSUME NEW b
  PROVE  /\ b = ESC_END => Unstuffed(b) = END
         /\ b = ESC_ESC => Unstuffed(b) = ESC
         /\ b \notin {ESC_END, ESC_ESC} => Unstuffed(b) = b
<1>1. ESC_END # ESC_ESC
  BY SlipAssumption
<1> QED
  BY <1>1, Zenon DEF Unstuffed

LEMMA CodesFacts ==
  ASSUME NEW data \in Seq(Code), NEW at \in Nat
  PROVE  \/ at \notin 1 .. Len(data) /\ Codes(data, at) = <<END>>
         \/ at \in 1 .. Len(data) /\ data[at] = END /\ Codes(data, at) = <<ESC, ESC_END>>
         \/ at \in 1 .. Len(data) /\ data[at] = ESC /\ Codes(data, at) = <<ESC, ESC_ESC>>
         \/ /\ at \in 1 .. Len(data) /\ data[at] \in Code \ {END, ESC}
            /\ Codes(data, at) = <<data[at]>>
<1>1. at \in 1 .. Len(data) <=> at \in DOMAIN data
  OBVIOUS
<1>2. at \in 1 .. Len(data) => data[at] \in Code
  OBVIOUS
<1>3. Codes(data, at) = IF at \in 1 .. Len(data) THEN Stuffed(data[at]) ELSE <<END>>
  BY <1>1 DEF Codes
<1> QED
  BY <1>2, <1>3, StuffedFacts

\* What may stand at a place of a packet.
LEMMA ByteFacts ==
  ASSUME NEW data \in Seq(Code), NEW at \in 0 .. Len(data) + 1,
         NEW half \in 1 .. Len(Codes(data, at)),
         NEW is, is = Codes(data, at)[half]
  PROVE  /\ half \in 1 .. 2 /\ is \in Code
         /\ at \notin 1 .. Len(data) =>
               half = 1 /\ is = END /\ Len(Codes(data, at)) = 1
         /\ at \in 1 .. Len(data) /\ half = 1 =>
               IF data[at] \in {END, ESC}
               THEN is = ESC /\ Len(Codes(data, at)) = 2
               ELSE is \notin {END, ESC} /\ is = data[at] /\ Len(Codes(data, at)) = 1
         /\ half = 2 =>
               /\ at \in 1 .. Len(data) /\ Len(Codes(data, at)) = 2
               /\ Codes(data, at)[1] = ESC
               /\ is \notin {END, ESC} /\ Unstuffed(is) = data[at]
<1>1. END \in Code /\ ESC \in Code /\ ESC_END \in Code /\ ESC_ESC \in Code
  BY DEF Code
<1>2. END # ESC /\ ESC_END \notin {END, ESC} /\ ESC_ESC \notin {END, ESC}
  BY SlipAssumption
<1>3. CASE at \notin 1 .. Len(data) /\ Codes(data, at) = <<END>>
  <2>1. half = 1 /\ is = END /\ Len(Codes(data, at)) = 1
    BY <1>3
  <2> QED
    BY <1>1, <1>3, <2>1
<1>4. CASE at \in 1 .. Len(data) /\ data[at] = END /\ Codes(data, at) = <<ESC, ESC_END>>
  <2>1. /\ Len(Codes(data, at)) = 2 /\ Codes(data, at)[1] = ESC
        /\ \/ half = 1 /\ is = ESC
           \/ half = 2 /\ is = ESC_END
    BY <1>4
  <2> QED
    BY <1>1, <1>2, <1>4, <2>1, UnstuffedFacts
<1>5. CASE at \in 1 .. Len(data) /\ data[at] = ESC /\ Codes(data, at) = <<ESC, ESC_ESC>>
  <2>1. /\ Len(Codes(data, at)) = 2 /\ Codes(data, at)[1] = ESC
        /\ \/ half = 1 /\ is = ESC
           \/ half = 2 /\ is = ESC_ESC
    BY <1>5
  <2> QED
    BY <1>1, <1>2, <1>5, <2>1, UnstuffedFacts
<1>6. CASE /\ at \in 1 .. Len(data) /\ data[at] \in Code \ {END, ESC}
           /\ Codes(data, at) = <<data[at]>>
  <2>1. half = 1 /\ is = data[at] /\ Len(Codes(data, at)) = 1
    BY <1>6
  <2> QED
    BY <1>6, <2>1
<1> QED
  BY <1>3, <1>4, <1>5, <1>6, CodesFacts

\* What the receiver has after one more byte, and at the end.
LEMMA TakenFacts ==
  ASSUME NEW data \in Seq(Code)
  PROVE  /\ Taken(data, 0) = <<>>
         /\ Taken(data, Len(data)) = Cut(data)
         /\ \A n \in 0 .. Len(data) - 1 :
               Taken(data, n + 1) =
                  IF Len(Taken(data, n)) < max_packet_size
                  THEN Append(Taken(data, n), data[n + 1]) ELSE Taken(data, n)
         /\ \A n \in 0 .. Len(data) : Taken(data, n) \in Seq(Code)
<1> max_packet_size \in Nat
  BY SlipAssumption
<1>1. ASSUME NEW n \in 0 .. Len(data)
      PROVE  /\ Taken(data, n) \in Seq(Code)
             /\ Len(Taken(data, n)) = IF n < max_packet_size THEN n ELSE max_packet_size
  BY DEF Taken
<1>2. Taken(data, 0) = <<>>
  BY <1>1
<1>3. Taken(data, Len(data)) = Cut(data)
  BY DEF Taken, Cut
<1>4. ASSUME NEW n \in 0 .. Len(data) - 1
      PROVE  Taken(data, n + 1) =
                  IF Len(Taken(data, n)) < max_packet_size
                  THEN Append(Taken(data, n), data[n + 1]) ELSE Taken(data, n)
  <2>1. CASE n < max_packet_size
    <3>1. Len(Taken(data, n)) = n /\ Taken(data, n) \in Seq(Code)
      BY <1>1, <2>1
    <3>2. data[n + 1] \in Code
      OBVIOUS
    <3>3. /\ Len(Taken(data, n + 1)) = n + 1 /\ Taken(data, n + 1) \in Seq(Code)
      BY <1>1, <2>1
    <3>4. \A i \in 1 .. n + 1 :
             Taken(data, n + 1)[i] = Append(Taken(data, n), data[n + 1])[i]
      BY <3>1, <3>2, <2>1 DEF Taken
    <3>5. /\ Append(Taken(data, n), data[n + 1]) \in Seq(Code)
          /\ Len(Append(Taken(data, n), data[n + 1])) = n + 1
      BY <3>1, <3>2
    <3>6. Taken(data, n + 1) = Append(Taken(data, n), data[n + 1])
      BY <3>3, <3>4, <3>5, SeqEqual
    <3> QED
      BY <3>1, <3>6, <2>1
  <2>2. CASE ~(n < max_packet_size)
    <3>1. Len(Taken(data, n)) = max_packet_size
      BY <1>1, <2>2
    <3> QED
      BY <3>1, <2>2 DEF Taken
  <2> QED
    BY <2>1, <2>2
<1> QED
  BY <1>1, <1>2, <1>3, <1>4
-----------------------------------------------------------------------------
\* The bytes of the packets sent.

\* What is known of a byte that stands where its packet has it.
LEMMA LegitFacts ==
  ASSUME NEW s \in Seq(Payloads), Len(s) <= MaxPackets, NEW b, Legit(s, b)
  PROVE  /\ s[b.of] \in Seq(Code) /\ b \in Bytes /\ b # NoByte
         /\ b.of \in 1 .. Len(s) /\ b.at \in 0 .. Len(s[b.of]) + 1
         /\ b.at \notin 1 .. Len(s[b.of]) => b.half = 1 /\ b.is = END
         /\ b.at \in 1 .. Len(s[b.of]) /\ b.half = 1 =>
               IF s[b.of][b.at] \in {END, ESC} THEN b.is = ESC
               ELSE b.is \notin {END, ESC} /\ b.is = s[b.of][b.at]
         /\ b.half # 1 =>
               /\ b.half = 2 /\ b.at \in 1 .. Len(s[b.of])
               /\ b.is \notin {END, ESC} /\ Unstuffed(b.is) = s[b.of][b.at]
<1> DEFINE data == s[b.of]
<1>1. data \in Seq(Code)
  BY SlipAssumption DEF Legit
<1>2. /\ b.of \in 1 .. Len(s) /\ b.at \in 0 .. Len(data) + 1
      /\ b.half \in 1 .. Len(Codes(data, b.at))
      /\ b = [of |-> b.of, at |-> b.at, half |-> b.half, is |-> Codes(data, b.at)[b.half]]
  BY DEF Legit, Coded, Byte
<1>3. b.is = Codes(data, b.at)[b.half]
  BY <1>2
<1> HIDE DEF data
<1>4. /\ b.half \in 1 .. 2 /\ b.is \in Code
      /\ b.at \notin 1 .. Len(data) => b.half = 1 /\ b.is = END
      /\ b.at \in 1 .. Len(data) /\ b.half = 1 =>
            IF data[b.at] \in {END, ESC} THEN b.is = ESC
            ELSE b.is \notin {END, ESC} /\ b.is = data[b.at]
      /\ b.half = 2 =>
            /\ b.at \in 1 .. Len(data)
            /\ b.is \notin {END, ESC} /\ Unstuffed(b.is) = data[b.at]
  BY <1>1, <1>2, <1>3, ByteFacts
<1>5. b \in Bytes
  <2>1. b.of \in 0 .. MaxPackets /\ b.at \in Nat
    BY <1>1, <1>2, SlipAssumption
  <2> QED
    BY <1>2, <1>3, <1>4, <2>1 DEF Bytes
<1>6. b # NoByte
  BY <1>2 DEF NoByte, Byte
<1> QED
  BY <1>1, <1>2, <1>4, <1>5, <1>6 DEF data

\* What is sent after a byte: the other half of an escape, the next place, or
\* nothing after the last END.
LEMMA BehindFacts ==
  ASSUME NEW s \in Seq(Payloads), Len(s) <= MaxPackets, NEW b, Legit(s, b),
         NEW n, n = Behind(s[b.of], b)
  PROVE  /\ b.at > Len(s[b.of]) => n = NoByte
         /\ b.at <= Len(s[b.of]) =>
               /\ Legit(s, n) /\ n.of = b.of /\ n.at > 0
               /\ IF b.is = ESC THEN n.half = 2 /\ n.at = b.at
                  ELSE n.half = 1 /\ n.at = b.at + 1
<1>1. PICK data \in Seq(Code) : data = s[b.of]
  BY LegitFacts
<1>2. /\ b.of \in 1 .. Len(s) /\ b.at \in 0 .. Len(data) + 1
      /\ b.half \in 1 .. Len(Codes(data, b.at)) /\ b.is = Codes(data, b.at)[b.half]
  BY <1>1 DEF Legit, Coded, Byte
<1>3. PICK len \in 1 .. 2 : len = Len(Codes(data, b.at))
  <2>1. b.at \in Nat
    BY <1>2
  <2> QED
    BY <2>1, CodesFacts
<1>4. /\ b.half \in 1 .. 2 /\ b.half <= len
      /\ b.half < len <=> b.is = ESC
      /\ b.half < len => b.at \in 1 .. Len(data)
  <2>1. ESC # END
    BY SlipAssumption
  <2>2. /\ b.half \in 1 .. 2
        /\ b.at \notin 1 .. Len(data) => b.half = 1 /\ b.is = END /\ len = 1
        /\ b.at \in 1 .. Len(data) /\ b.half = 1 =>
               IF data[b.at] \in {END, ESC} THEN b.is = ESC /\ len = 2
               ELSE b.is \notin {END, ESC} /\ len = 1
        /\ b.half = 2 => len = 2 /\ b.is \notin {END, ESC}
    BY <1>2, <1>3, ByteFacts
  <2>3. CASE b.half = 2
    BY <2>2, <2>3
  <2>4. CASE b.half = 1 /\ b.at \in 1 .. Len(data)
    BY <2>1, <2>2, <2>4
  <2>5. CASE b.half = 1 /\ b.at \notin 1 .. Len(data)
    BY <2>1, <2>2, <2>5
  <2> QED
    BY <2>2, <2>3, <2>4, <2>5
<1>5. CASE b.half < len
  <2>1. n = Coded(data, b.of, b.at, b.half + 1)
    <3>1. ~(b.half = len) /\ ~(b.at > Len(data))
      BY <1>4, <1>5
    <3> QED
      BY <1>1, <1>3, <1>5, <3>1, Zenon DEF Behind
  <2>2. n.of = b.of /\ n.at = b.at /\ n.half = b.half + 1 /\ b.half = 1 /\ len = 2
    BY <1>4, <1>5, <2>1 DEF Coded, Byte
  <2>3. Legit(s, n)
    <3>1. n = Coded(data, n.of, n.at, n.half)
      BY <2>1, <2>2
    <3>2. n.half \in 1 .. Len(Codes(data, n.at))
      BY <1>3, <2>2
    <3> QED
      BY <1>1, <1>2, <2>2, <3>1, <3>2 DEF Legit
  <2> QED
    BY <1>1, <1>4, <1>5, <2>2, <2>3
<1>6. CASE b.half = len /\ b.at <= Len(data)
  <2>1. n = Coded(data, b.of, b.at + 1, 1)
    <3>1. ~(b.half < len) /\ ~(b.at > Len(data))
      BY <1>2, <1>4, <1>6
    <3> QED
      BY <1>1, <1>3, <1>6, <3>1, Zenon DEF Behind
  <2>2. n.of = b.of /\ n.at = b.at + 1 /\ n.half = 1
    BY <2>1 DEF Coded, Byte
  <2>3. PICK l \in 1 .. 2 : l = Len(Codes(data, n.at))
    <3>1. n.at \in Nat
      BY <1>2, <2>2
    <3> QED
      BY <3>1, CodesFacts
  <2>4. Legit(s, n)
    <3>1. n = Coded(data, n.of, n.at, n.half)
      BY <2>1, <2>2
    <3>2. n.half \in 1 .. l
      BY <2>2
    <3>3. n.half \in 1 .. Len(Codes(data, n.at))
      BY <2>3, <3>2
    <3> QED
      BY <1>1, <1>2, <1>6, <2>2, <3>1, <3>3 DEF Legit
  <2> QED
    BY <1>1, <1>2, <1>4, <1>6, <2>2, <2>4
<1>7. CASE b.at > Len(data)
  <2>1. ~(b.half < len) /\ ~(b.at <= Len(data))
    BY <1>2, <1>4, <1>7
  <2>2. n = NoByte
    BY <1>1, <1>3, <1>7, <2>1, Zenon DEF Behind
  <2> QED
    BY <1>1, <1>2, <1>7, <2>1, <2>2
<1> QED
  BY <1>2, <1>4, <1>5, <1>6, <1>7
-----------------------------------------------------------------------------
\* Types, and the bytes in the rings.

\* The history only grows.
Grows ==
    /\ sent' \in Seq(Payloads) /\ Len(sent') <= MaxPackets
    /\ Len(sent) <= Len(sent') /\ \A k \in 1 .. Len(sent) : sent'[k] = sent[k]
    /\ broken \subseteq broken'
    /\ noise <= noise' /\ noise' \in Nat

LEMMA HistoryGrows == TypeOK /\ [Next]_vars => Grows
<1> SUFFICES ASSUME TypeOK, [Next]_vars
             PROVE  Grows
  OBVIOUS
<1> USE DEF TypeOK, Grows
<1>0. MaxNoise \in Nat /\ MaxPackets \in Nat
  BY SlipAssumption
<1>1. CASE slip_send_packet
  BY <1>0, <1>1 DEF slip_send_packet
<1>2. CASE slip_send_byte
  BY <1>0, <1>2 DEF slip_send_byte
<1>3. CASE Deliver
  BY <1>0, <1>3 DEF Deliver
<1>4. CASE Lose
  BY <1>0, <1>4 DEF Lose
<1>5. CASE Disturb
  BY <1>0, <1>5 DEF Disturb
<1>6. CASE slip_recv_packet
  BY <1>0, <1>6 DEF slip_recv_packet
<1>7. CASE Escaped
  BY <1>0, <1>7 DEF Escaped
<1>8. CASE NothingYet \/ UNCHANGED vars
  BY <1>0, <1>8 DEF NothingYet, vars
<1> QED
  BY <1>1, <1>2, <1>3, <1>4, <1>5, <1>6, <1>7, <1>8 DEF Next

\* A byte stays where its packet has it.
LEMMA LegitStays ==
  ASSUME NEW s, NEW t, Len(s) \in Nat, Len(t) \in Nat, Len(s) <= Len(t),
         \A k \in 1 .. Len(s) : t[k] = s[k],
         NEW b, Legit(s, b)
  PROVE  Legit(t, b)
<1>1. b.of \in 1 .. Len(s) /\ b.of \in 1 .. Len(t)
  BY DEF Legit
<1>2. t[b.of] = s[b.of]
  BY <1>1
<1> QED
  BY <1>1, <1>2 DEF Legit

\* The same for whatever may lie in the receiver's ring.
LEMMA HeardStays ==
  ASSUME TypeOK, Grows
  PROVE  \A b : /\ Legit(sent, b) => Legit(sent', b)
                /\ Added(noise, b) => Added(noise', b)
<1>1. Len(sent) \in Nat /\ Len(sent') \in Nat /\ noise \in Nat
  BY SlipAssumption DEF TypeOK, Grows
<1>2. ASSUME NEW b, Legit(sent, b)
      PROVE  Legit(sent', b)
  BY <1>1, <1>2, LegitStays DEF Grows
<1>3. ASSUME NEW b, Added(noise, b)
      PROVE  Added(noise', b)
  BY <1>1, <1>3 DEF Grows, Added
<1> QED
  BY <1>2, <1>3

\* The constants behind the bytes that belong to no packet.
LEMMA ConstantFacts ==
  /\ END \in Code /\ ESC \in Code /\ ESC_END \in Code /\ ESC_ESC \in Code
  /\ END # ESC
  /\ NoByte \in Bytes /\ NoByte.of = 0 /\ NoByte.at = 0 /\ NoByte.half = 1
  /\ NoByte.is = END
  /\ \A is \in Code : /\ Byte(0, 0, 1, is) \in Bytes
                      /\ Byte(0, 0, 1, is).of = 0 /\ Byte(0, 0, 1, is).at = 0
                      /\ Byte(0, 0, 1, is).is = is
                      /\ Unstuffed(is) \in Code
<1>1. END \in Code /\ ESC \in Code /\ ESC_END \in Code /\ ESC_ESC \in Code
  BY DEF Code
<1>2. MaxPackets \in Nat /\ END # ESC
  BY SlipAssumption
<1>3. NoByte = Byte(0, 0, 1, END)
  BY DEF NoByte
<1>4. ASSUME NEW is \in Code
      PROVE  /\ Byte(0, 0, 1, is) \in Bytes
             /\ Byte(0, 0, 1, is).of = 0 /\ Byte(0, 0, 1, is).at = 0
             /\ Byte(0, 0, 1, is).half = 1 /\ Byte(0, 0, 1, is).is = is
  BY <1>2 DEF Byte, Bytes
<1>5. ASSUME NEW is \in Code
      PROVE  Unstuffed(is) \in Code
  BY <1>1, UnstuffedFacts
<1> QED
  BY <1>1, <1>2, <1>3, <1>4, <1>5

\* The first END of the next packet.
LEMMA FirstFacts ==
  ASSUME NEW data \in Seq(Code), NEW s \in Seq(Payloads), Len(s) < MaxPackets,
         NEW n, n = FirstByte(data, Len(s) + 1)
  PROVE  /\ n = Byte(Len(s) + 1, 0, 1, END) /\ n # NoByte
         /\ n.of = Len(s) + 1 /\ n.at = 0 /\ n.half = 1
         /\ data \in Payloads => Legit(Append(s, data), n)
<1>1. Codes(data, 0) = <<END>>
  BY CodesFacts
<1>2. n = Byte(Len(s) + 1, 0, 1, END)
  BY <1>1 DEF FirstByte, Coded
<1>3. n.of = Len(s) + 1 /\ n.at = 0 /\ n.half = 1
  BY <1>2 DEF Byte
<1>4. n # NoByte
  BY <1>3, ConstantFacts
<1>5. ASSUME data \in Payloads
      PROVE  Legit(Append(s, data), n)
  <2>1. Append(s, data)[Len(s) + 1] = data /\ Len(Append(s, data)) = Len(s) + 1
    BY <1>5
  <2>2. n = Coded(data, n.of, n.at, n.half)
    BY <1>3 DEF FirstByte
  <2>3. n.half \in 1 .. Len(Codes(data, n.at))
    <3>1. Codes(data, n.at) = <<END>> /\ n.half = 1
      BY <1>1, <1>3
    <3>2. Len(<<END>>) = 1 /\ 1 \in 1 .. 1
      OBVIOUS
    <3> QED
      BY <3>1, <3>2
  <2> QED
    BY <1>3, <2>1, <2>2, <2>3 DEF Legit
<1> QED
  BY <1>2, <1>3, <1>4, <1>5
LEMMA TypeInit == Init => TypeOK /\ SentInv
<1> SUFFICES ASSUME Init
             PROVE  TypeOK /\ SentInv
  OBVIOUS
<1>1. MaxPackets \in Nat /\ MaxNoise \in Nat /\ TxSize \in Nat /\ RxSize \in Nat
      /\ max_packet_size \in Nat
  BY SlipAssumption
<1>2. NoByte \in Bytes /\ NoByte.is = END
  BY ConstantFacts
<1>3. TypeOK
  BY <1>1, <1>2 DEF Init, TypeOK
<1>4. SentInv
  BY DEF Init, SentInv
<1> QED
  BY <1>3, <1>4

\* What storing a byte does to the receiver's buffer.
LEMMA StoreFacts ==
  ASSUME TypeOK, NEW is \in Code, Store(is)
  PROVE  p' \in Seq(Code) /\ Len(p') <= max_packet_size
<1> max_packet_size \in Nat
  BY SlipAssumption
<1> QED
  BY DEF TypeOK, Store, HasRoom

LEMMA TypeStep == TypeOK /\ SentInv /\ [Next]_vars => TypeOK' /\ SentInv'
<1> SUFFICES ASSUME TypeOK, SentInv, [Next]_vars
             PROVE  TypeOK' /\ SentInv'
  OBVIOUS
<1>0. /\ MaxPackets \in Nat /\ MaxNoise \in Nat /\ TxSize \in Nat /\ RxSize \in Nat
      /\ max_packet_size \in Nat
  BY SlipAssumption
<1>a. Grows
  BY HistoryGrows
<1>b. \A b : /\ Legit(sent, b) => Legit(sent', b)
             /\ Added(noise, b) => Added(noise', b)
  BY <1>a, HeardStays
<1>1. CASE slip_send_packet
  <2>1. PICK data \in Payloads : /\ sent' = Append(sent, data)
                                 /\ next' = FirstByte(data, Len(sent) + 1)
    BY <1>1 DEF slip_send_packet
  <2>2. /\ next = NoByte /\ Len(sent) < MaxPackets
        /\ UNCHANGED <<tx_buf, rx_buf, c, p, noise, last, broken, arrived, stray>>
    BY <1>1 DEF slip_send_packet
  <2>3. sent \in Seq(Payloads) /\ Len(sent') = Len(sent) + 1
    BY <2>1 DEF TypeOK
  <2>4. Legit(sent', next') /\ next'.of = Len(sent')
    <3>1. data \in Seq(Code)
      BY SlipAssumption
    <3> QED
      BY <2>1, <2>2, <2>3, <3>1, FirstFacts
  <2>5. next' \in Bytes
    BY <1>a, <2>4, LegitFacts DEF Grows
  <2>6. TypeOK'
    BY <1>0, <1>a, <2>2, <2>5 DEF TypeOK, Grows
  <2>7. SentInv'
    BY <1>b, <2>2, <2>4 DEF SentInv
  <2> QED
    BY <2>6, <2>7
<1>2. CASE slip_send_byte
  <2>1. /\ next # NoByte /\ next' = Behind(sent[next.of], next)
        /\ UNCHANGED <<sent, rx_buf, c, p, noise, last, arrived, stray>>
        /\ \/ /\ Len(tx_buf) < TxSize
              /\ tx_buf' = Append(tx_buf, next) /\ UNCHANGED broken
           \/ /\ broken' = broken \cup {next.of} /\ UNCHANGED tx_buf
    BY <1>2 DEF slip_send_byte
  <2>2. Legit(sent, next) /\ next.of = Len(sent) /\ next \in Bytes
    BY <2>1, LegitFacts DEF SentInv, TypeOK
  <2>3. next' # NoByte => Legit(sent, next') /\ next'.of = Len(sent)
    <3>1. next.at \in Int /\ Len(sent[next.of]) \in Int
      BY <2>2, LegitFacts DEF TypeOK
    <3>2. sent \in Seq(Payloads) /\ Len(sent) <= MaxPackets
      BY DEF TypeOK
    <3>3. CASE next.at > Len(sent[next.of])
      BY <2>1, <2>2, <3>2, <3>3, BehindFacts
    <3>4. CASE next.at <= Len(sent[next.of])
      <4>1. Legit(sent, next') /\ next'.of = next.of
        BY <2>1, <2>2, <3>2, <3>4, BehindFacts
      <4> QED
        BY <2>2, <4>1
    <3> QED
      BY <3>1, <3>3, <3>4
  <2>4. next' \in Bytes
    BY <2>3, LegitFacts, ConstantFacts DEF TypeOK
  <2>5. /\ tx_buf' \in Seq(Bytes) /\ Len(tx_buf') <= TxSize
        /\ \A i \in 1 .. Len(tx_buf') : Legit(sent, tx_buf'[i])
    <3>1. CASE UNCHANGED tx_buf
      BY <3>1 DEF TypeOK, SentInv
    <3>2. CASE Len(tx_buf) < TxSize /\ tx_buf' = Append(tx_buf, next)
      BY <1>0, <2>2, <3>2 DEF TypeOK, SentInv
    <3> QED
      BY <2>1, <3>1, <3>2
  <2>6. broken' \subseteq 0 .. MaxPackets
    BY <2>1, <2>2 DEF TypeOK, Bytes
  <2>7. TypeOK'
    BY <2>1, <2>4, <2>5, <2>6 DEF TypeOK
  <2>8. SentInv'
    BY <2>1, <2>3, <2>5 DEF SentInv
  <2> QED
    BY <2>7, <2>8
<1>3. CASE Deliver
  <2>1. /\ tx_buf # <<>> /\ tx_buf' = Tail(tx_buf) /\ Len(rx_buf) < RxSize
        /\ rx_buf' = Append(rx_buf, Head(tx_buf)) /\ last' = Head(tx_buf)
        /\ broken' \subseteq broken \cup {Head(tx_buf).of}
        /\ UNCHANGED <<sent, next, c, p, noise, arrived, stray>>
    BY <1>3 DEF Deliver
  <2>2. /\ Head(tx_buf) = tx_buf[1] /\ Head(tx_buf) \in Bytes /\ Legit(sent, Head(tx_buf))
        /\ tx_buf' \in Seq(Bytes) /\ Len(tx_buf') <= TxSize
        /\ \A i \in 1 .. Len(tx_buf') : Legit(sent, tx_buf'[i])
    BY <1>0, <2>1 DEF TypeOK, SentInv
  <2>3. /\ rx_buf' \in Seq(Bytes) /\ Len(rx_buf') <= RxSize
        /\ \A i \in 1 .. Len(rx_buf') : Legit(sent, rx_buf'[i]) \/ Added(noise, rx_buf'[i])
    BY <1>0, <2>1, <2>2 DEF TypeOK, SentInv
  <2>4. broken' \subseteq 0 .. MaxPackets
    BY <2>1, <2>2 DEF TypeOK, Bytes
  <2>5. TypeOK'
    BY <2>1, <2>2, <2>3, <2>4 DEF TypeOK
  <2>6. SentInv'
    BY <2>1, <2>2, <2>3 DEF SentInv
  <2> QED
    BY <2>5, <2>6
<1>4. CASE Lose
  <2>1. /\ tx_buf # <<>> /\ tx_buf' = Tail(tx_buf)
        /\ broken' = broken \cup {Head(tx_buf).of}
        /\ UNCHANGED <<sent, next, rx_buf, c, p, noise, last, arrived, stray>>
    BY <1>4 DEF Lose
  <2>2. /\ Head(tx_buf) \in Bytes
        /\ tx_buf' \in Seq(Bytes) /\ Len(tx_buf') <= TxSize
        /\ \A i \in 1 .. Len(tx_buf') : Legit(sent, tx_buf'[i])
    BY <1>0, <2>1 DEF TypeOK, SentInv
  <2>3. broken' \subseteq 0 .. MaxPackets
    BY <2>1, <2>2 DEF TypeOK, Bytes
  <2>4. TypeOK'
    BY <2>1, <2>2, <2>3 DEF TypeOK
  <2>5. SentInv'
    BY <2>1, <2>2 DEF SentInv
  <2> QED
    BY <2>4, <2>5
<1>5. CASE Disturb
  <2>1. PICK is \in Code : /\ rx_buf' = Append(rx_buf, Byte(0, 0, 1, is))
                           /\ last' = Byte(0, 0, 1, is)
    BY <1>5 DEF Disturb
  <2>2. /\ noise < MaxNoise /\ noise' = noise + 1 /\ Len(rx_buf) < RxSize
        /\ UNCHANGED <<sent, next, tx_buf, c, p, arrived, stray>>
    BY <1>5 DEF Disturb
  <2>3. Byte(0, 0, 1, is) \in Bytes /\ Added(noise', Byte(0, 0, 1, is))
    BY <1>0, <2>2, ConstantFacts DEF TypeOK, Added
  <2>4. /\ rx_buf' \in Seq(Bytes) /\ Len(rx_buf') <= RxSize
        /\ \A i \in 1 .. Len(rx_buf') : Legit(sent, rx_buf'[i]) \/ Added(noise', rx_buf'[i])
    BY <1>0, <1>b, <2>1, <2>2, <2>3 DEF TypeOK, SentInv
  <2>5. broken' \subseteq 0 .. MaxPackets
    <3>1. tx_buf # <<>> => Head(tx_buf) \in Bytes
      BY DEF TypeOK
    <3> QED
      BY <1>5, <3>1 DEF Disturb, TypeOK, Bytes
  <2>6. TypeOK'
    BY <1>0, <2>1, <2>2, <2>3, <2>4, <2>5 DEF TypeOK
  <2>7. SentInv'
    BY <2>2, <2>4 DEF SentInv
  <2> QED
    BY <2>6, <2>7
<1>c. rx_buf # <<>> =>
         /\ Head(rx_buf) \in Bytes
         /\ Tail(rx_buf) \in Seq(Bytes) /\ Len(Tail(rx_buf)) <= RxSize
         /\ \A i \in 1 .. Len(Tail(rx_buf)) :
               Legit(sent, Tail(rx_buf)[i]) \/ Added(noise, Tail(rx_buf)[i])
  BY <1>0 DEF TypeOK, SentInv
<1>6. CASE slip_recv_packet
  <2>1. /\ rx_buf # <<>> /\ rx_buf' = Tail(rx_buf)
        /\ UNCHANGED <<sent, next, tx_buf, noise, last, broken>>
        /\ \/ p' = <<>> /\ UNCHANGED c
           \/ Head(rx_buf).is = ESC /\ c' = Head(rx_buf) /\ UNCHANGED p
           \/ Store(Head(rx_buf).is) /\ UNCHANGED c
        /\ (arrived' \cup stray') \ (arrived \cup stray) \subseteq {Head(rx_buf).of} \ {0}
    BY <1>6 DEF slip_recv_packet, EndOf
  <2>2. p' \in Seq(Code) /\ Len(p') <= max_packet_size
    <3>1. Head(rx_buf).is \in Code
      BY <1>c, <2>1 DEF Bytes
    <3>2. CASE Store(Head(rx_buf).is)
      BY <3>1, <3>2, StoreFacts
    <3>3. CASE p' = <<>>
      BY <1>0, <3>3
    <3>4. CASE p' = p
      BY <3>4 DEF TypeOK
    <3> QED
      BY <2>1, <3>2, <3>3, <3>4, Zenon
  <2>3. c' \in Bytes /\ c'.is \in {ESC, END}
    BY <1>c, <2>1 DEF TypeOK
  <2>6. arrived' \cup stray' \subseteq 1 .. MaxPackets
    <3>1. Head(rx_buf).of \in 0 .. MaxPackets
      BY <1>c, <2>1 DEF Bytes
    <3> QED
      BY <1>0, <2>1, <3>1 DEF TypeOK
  <2>4. TypeOK'
    BY <1>c, <2>1, <2>2, <2>3, <2>6 DEF TypeOK
  <2>5. SentInv'
    BY <1>c, <2>1 DEF SentInv
  <2> QED
    BY <2>4, <2>5
<1>7. CASE Escaped
  <2>1. /\ c' = NoByte
        /\ UNCHANGED <<sent, next, tx_buf, noise, last, arrived, stray>>
        /\ \/ /\ rx_buf # <<>> /\ rx_buf' = Tail(rx_buf)
              /\ Store(Unstuffed(Head(rx_buf).is)) /\ UNCHANGED broken
           \/ /\ UNCHANGED rx_buf /\ Store(ESC) /\ broken' = broken \cup {c.of}
    BY <1>7 DEF Escaped
  <2>2. p' \in Seq(Code) /\ Len(p') <= max_packet_size
    <3>1. rx_buf # <<>> => Unstuffed(Head(rx_buf).is) \in Code
      BY <1>c, ConstantFacts DEF Bytes
    <3>2. CASE rx_buf # <<>> /\ Store(Unstuffed(Head(rx_buf).is))
      BY <3>1, <3>2, StoreFacts
    <3>3. CASE Store(ESC)
      BY <3>3, StoreFacts, ConstantFacts
    <3> QED
      BY <2>1, <3>2, <3>3
  <2>3. broken' \subseteq 0 .. MaxPackets
    BY <2>1 DEF TypeOK, Bytes
  <2>4. /\ rx_buf' \in Seq(Bytes) /\ Len(rx_buf') <= RxSize
        /\ \A i \in 1 .. Len(rx_buf') : Legit(sent, rx_buf'[i]) \/ Added(noise, rx_buf'[i])
    BY <1>c, <2>1 DEF TypeOK, SentInv
  <2>5. TypeOK'
    BY <2>1, <2>2, <2>3, <2>4, ConstantFacts DEF TypeOK
  <2>6. SentInv'
    BY <2>1, <2>4 DEF SentInv
  <2> QED
    BY <2>5, <2>6
<1>8. CASE NothingYet \/ UNCHANGED vars
  BY <1>8 DEF NothingYet, vars, TypeOK, SentInv
<1> QED
  BY <1>1, <1>2, <1>3, <1>4, <1>5, <1>6, <1>7, <1>8 DEF Next

\* Every variable keeps its type, and neither ring nor the receiver's buffer
\* grows past its size, whatever the line does.
THEOREM TypeCorrect == Spec => []TypeOK
<1>1. Init => TypeOK /\ SentInv
  BY TypeInit
<1>2. TypeOK /\ SentInv /\ [Next]_vars => (TypeOK /\ SentInv)'
  BY TypeStep
<1> QED
  BY <1>1, <1>2, PTL DEF Spec
-----------------------------------------------------------------------------
\* The order of the bytes.  First what the steps have in common.

Chain == LineInv /\ RingInv /\ ReadInv

\* A byte that may follow anything still may, later.
LEMMA SuspectGrows ==
  ASSUME TypeOK, Grows
  PROVE  /\ \A b : Suspect(broken, noise, b) => Suspect(broken', noise', b)
         /\ \A a, b : Clear(broken, a, b) => Clear(broken', a, b)
<1>1. noise \in Nat /\ noise' \in Nat /\ noise <= noise' /\ broken \subseteq broken'
  BY SlipAssumption DEF TypeOK, Grows
<1>2. ASSUME NEW b, Suspect(broken, noise, b)
      PROVE  Suspect(broken', noise', b)
  BY <1>1, <1>2 DEF Suspect
<1>3. ASSUME NEW a, NEW b, Clear(broken, a, b)
      PROVE  Clear(broken', a, b)
  BY <1>1, <1>3 DEF Clear
<1> QED
  BY <1>2, <1>3

\* A ring with one byte less at the head, or one more at the end.
LEMMA TailFacts ==
  ASSUME NEW S, NEW s \in Seq(S), s # <<>>, NEW t, t = Tail(s)
  PROVE  /\ Head(s) = s[1] /\ s[1] \in S /\ t \in Seq(S)
         /\ Len(s) \in Nat /\ Len(t) = Len(s) - 1
         /\ \A i \in 1 .. Len(t) : t[i] = s[i + 1]
         /\ t = <<>> <=> Len(s) = 1
<1>1. /\ Head(s) = s[1] /\ s[1] \in S /\ t \in Seq(S)
      /\ Len(s) \in Nat /\ Len(t) = Len(s) - 1
  OBVIOUS
<1>2. \A i \in 1 .. Len(t) : t[i] = s[i + 1]
  OBVIOUS
<1>3. t = <<>> <=> Len(t) = 0
  BY <1>1
<1> QED
  BY <1>1, <1>2, <1>3

LEMMA AppendFacts ==
  ASSUME NEW S, NEW s \in Seq(S), NEW b \in S, NEW t, t = Append(s, b)
  PROVE  /\ Len(s) \in Nat /\ Len(t) = Len(s) + 1 /\ t[Len(t)] = b
         /\ \A i \in 1 .. Len(s) : t[i] = s[i]
         /\ t # <<>>
<1>1. Len(s) \in Nat /\ Len(t) = Len(s) + 1
  OBVIOUS
<1>2. t[Len(s) + 1] = b /\ \A i \in 1 .. Len(s) : t[i] = s[i]
  OBVIOUS
<1>3. t # <<>>
  BY <1>1
<1> QED
  BY <1>1, <1>2, <1>3

\* So may the byte behind one that was lost.
LEMMA LostFacts ==
  ASSUME NEW s, NEW br, NEW n, NEW a, NEW b, a.of \in br,
         Suspect(br, n, b) \/ Precedes(s, a, b)
  PROVE  Suspect(br, n, b)
  BY DEF Suspect, Precedes

\* The line is as it was when neither end of it moves.
LEMMA LineFrame ==
  ASSUME TypeOK, Grows, LineInv, UNCHANGED <<sent, next, tx_buf, last>>
  PROVE  LineInv'
  BY SuspectGrows DEF LineInv, Linked, Ahead, Coming

LEMMA RingFrame ==
  ASSUME TypeOK, Grows, RingInv, UNCHANGED <<sent, rx_buf, last>>
  PROVE  RingInv'
  BY SuspectGrows DEF RingInv, Linked

LEMMA ReadFrame ==
  ASSUME TypeOK, Grows, ReadInv, UNCHANGED <<sent, rx_buf, c, p, last>>,
         rx_buf = <<>> => Ahead' = Ahead \/ Suspect(broken', noise', Ahead')
  PROVE  ReadInv'
<1>1. c # NoByte => c.is = ESC
  BY DEF ReadInv
<1>2. CASE rx_buf # <<>>
  BY <1>1, <1>2, SuspectGrows DEF ReadInv, Expected
<1>3. CASE rx_buf = <<>>
  BY <1>1, <1>3, SuspectGrows DEF ReadInv, Expected
<1> QED
  BY <1>2, <1>3

\* Sending a packet moves nothing: its first END is what was to come anyway.
LEMMA SendPacketChain ==
  ASSUME TypeOK, Grows, SentInv, Chain, slip_send_packet
  PROVE  Chain'
<1>1. PICK data \in Payloads : /\ sent' = Append(sent, data)
                               /\ next' = FirstByte(data, Len(sent) + 1)
  BY DEF slip_send_packet
<1>2. /\ next = NoByte /\ Len(sent) < MaxPackets
      /\ UNCHANGED <<tx_buf, rx_buf, c, p, noise, last, broken, arrived, stray>>
  BY DEF slip_send_packet
<1>3. Coming' = Coming
  <2>1. data \in Seq(Code)
    BY SlipAssumption
  <2>2. next' # NoByte /\ next' = Byte(Len(sent) + 1, 0, 1, END)
    BY <1>1, <1>2, <2>1, FirstFacts DEF TypeOK
  <2> QED
    BY <1>2, <2>2 DEF Coming
<1>4. Ahead' = Ahead
  BY <1>2, <1>3 DEF Ahead
<1> DEFINE Known(b) == \/ Legit(sent, b)
                       \/ b.of = 0 /\ b.at = 0
                       \/ b.of = Len(sent) + 1 /\ b.at = 0
<1>5. Known(Coming) /\ Known(Ahead)
      /\ (\A i \in 1 .. Len(tx_buf) : Known(tx_buf[i]))
      /\ \A i \in 1 .. Len(rx_buf) : Known(rx_buf[i])
  <2>1. Known(Coming)
    BY <1>2 DEF Coming, Byte
  <2>2. tx_buf # <<>> => 1 \in 1 .. Len(tx_buf)
    BY DEF TypeOK
  <2> QED
    BY <2>1, <2>2 DEF Ahead, SentInv, Added
<1> HIDE DEF Known
<1>6. ASSUME NEW a \in Bytes, NEW b, Known(b), Precedes(sent, a, b)
      PROVE  Precedes(sent', a, b)
  <2>1. Len(sent) \in Nat /\ \A k \in 1 .. Len(sent) : sent'[k] = sent[k]
    BY DEF TypeOK, Grows
  <2>2. CASE Legit(sent, b)
    <3>1. b.of \in 1 .. Len(sent) /\ b.at \in Nat
      BY <2>2, LegitFacts DEF TypeOK
    <3>2. CASE b.at > 0
      BY <1>6, <2>1, <3>1, <3>2 DEF Precedes
    <3>3. CASE ~(b.at > 0)
      <4>1. a.of = b.of - 1 /\ (a.of # 0 => a.of \in 1 .. Len(sent))
        BY <1>6, <2>1, <3>1, <3>3 DEF Precedes
      <4> QED
        BY <1>6, <2>1, <3>3, <4>1 DEF Precedes
    <3> QED
      BY <3>2, <3>3
  <2>3. CASE b.at = 0 /\ b.of = 0
    <3>1. a.of = -1
      BY <1>6, <2>3 DEF Precedes
    <3> QED
      BY <3>1 DEF Bytes
  <2>4. CASE b.at = 0 /\ b.of = Len(sent) + 1
    <3>1. a.of = Len(sent) /\ (a.of # 0 => a.of \in 1 .. Len(sent))
      BY <1>6, <2>1, <2>4 DEF Precedes
    <3> QED
      BY <1>6, <2>1, <2>4, <3>1 DEF Precedes
  <2> QED
    BY <1>6, <2>2, <2>3, <2>4 DEF Known
<1>7. LineInv'
  <2>1. /\ \A i \in 1 .. Len(tx_buf) : tx_buf[i] \in Bytes
        /\ tx_buf # <<>> => Len(tx_buf) \in 1 .. Len(tx_buf)
        /\ \A i \in 1 .. Len(tx_buf) - 1 : i \in 1 .. Len(tx_buf) /\ i + 1 \in 1 .. Len(tx_buf)
        /\ last \in Bytes
    BY DEF TypeOK
  <2> QED
    BY <1>2, <1>3, <1>4, <1>5, <1>6, <2>1 DEF Chain, LineInv, Linked
<1>8. RingInv'
  <2>1. /\ \A i \in 1 .. Len(rx_buf) : rx_buf[i] \in Bytes
        /\ \A i \in 1 .. Len(rx_buf) - 1 : i \in 1 .. Len(rx_buf) /\ i + 1 \in 1 .. Len(rx_buf)
    BY DEF TypeOK
  <2> QED
    BY <1>2, <1>5, <1>6, <2>1 DEF Chain, RingInv, Linked
<1>9. ReadInv'
  <2>1. ASSUME NEW b, Known(b), Reached(sent, b, p, c)
        PROVE  Reached(sent', b, p, c)
    <3>1. CASE b.at > 0
      <4>1. Legit(sent, b)
        BY <2>1, <3>1 DEF Known
      <4>2. b.of \in 1 .. Len(sent)
        BY <4>1 DEF Legit
      <4> QED
        BY <2>1, <3>1, <4>2 DEF Reached, Grows
    <3> QED
      BY <2>1, <3>1 DEF Reached
  <2>2. rx_buf # <<>> => Known(rx_buf[1])
    BY <1>5 DEF TypeOK
  <2> QED
    BY <1>2, <1>4, <1>5, <2>1, <2>2 DEF Chain, ReadInv, Expected
<1> QED
  BY <1>7, <1>8, <1>9 DEF Chain
\* The byte that slip_send_packet sends next belongs behind the last one.
LEMMA ComingFacts ==
  ASSUME TypeOK, SentInv, next # NoByte,
         next' = Behind(sent[next.of], next), UNCHANGED sent
  PROVE  Precedes(sent, next, Coming')
<1>1. Legit(sent, next) /\ next.of = Len(sent) /\ sent \in Seq(Payloads) /\ Len(sent) <= MaxPackets
  BY DEF SentInv, TypeOK
<1>2. next.of \in 1 .. Len(sent) /\ next.at \in Nat /\ Len(sent[next.of]) \in Nat
  BY <1>1, LegitFacts
<1>3. CASE next.at > Len(sent[next.of])
  <2>1. next' = NoByte
    BY <1>1, <1>3, BehindFacts
  <2>2. Coming'.of = Len(sent) + 1 /\ Coming'.at = 0
    BY <2>1 DEF Coming, Byte
  <2> QED
    BY <1>1, <1>2, <1>3, <2>2 DEF Precedes
<1>4. CASE next.at <= Len(sent[next.of])
  <2>1. Legit(sent, next') /\ next'.of = next.of /\ next'.at > 0
    BY <1>1, <1>4, BehindFacts
  <2>2. next' # NoByte
    BY <1>1, <2>1, LegitFacts
  <2>3. Coming' = next'
    BY <2>2 DEF Coming
  <2> QED
    BY <2>1, <2>3 DEF Precedes
<1> QED
  BY <1>2, <1>3, <1>4

\* A byte put in the ring, or dropped before it.
LEMMA SendByteChain ==
  ASSUME TypeOK, Grows, SentInv, Chain, slip_send_byte
  PROVE  Chain'
<1>1. /\ next # NoByte /\ next' = Behind(sent[next.of], next)
      /\ UNCHANGED <<sent, rx_buf, c, p, noise, last, arrived, stray>>
      /\ \/ tx_buf' = Append(tx_buf, next) /\ UNCHANGED broken
         \/ broken' = broken \cup {next.of} /\ UNCHANGED tx_buf
  BY DEF slip_send_byte
<1>2. Coming = next /\ next \in Bytes /\ tx_buf \in Seq(Bytes)
  BY <1>1 DEF Coming, TypeOK
<1>3. Precedes(sent, next, Coming')
  BY <1>1, ComingFacts
<1>4. CASE tx_buf' = Append(tx_buf, next) /\ UNCHANGED broken
  <2>1. Ahead' = Ahead
    BY <1>2, <1>4 DEF Ahead
  <2>2. LineInv'
    <3>1. /\ Len(tx_buf') = Len(tx_buf) + 1 /\ tx_buf'[Len(tx_buf')] = next
          /\ \A i \in 1 .. Len(tx_buf) : tx_buf'[i] = tx_buf[i]
      BY <1>2, <1>4
    <3>2. ASSUME NEW i \in 1 .. Len(tx_buf') - 1
          PROVE  Linked(tx_buf[i], IF i < Len(tx_buf) THEN tx_buf[i + 1] ELSE next)
      BY <1>2, <3>1 DEF Chain, LineInv
    <3>3. ASSUME NEW i \in 1 .. Len(tx_buf') - 1
          PROVE  /\ tx_buf'[i] = tx_buf[i]
                 /\ tx_buf'[i + 1] = IF i < Len(tx_buf) THEN tx_buf[i + 1] ELSE next
      BY <1>2, <3>1
    <3> QED
      BY <1>1, <1>3, <1>4, <2>1, <3>1, <3>2, <3>3 DEF Chain, LineInv, Linked
  <2> QED
    BY <1>1, <2>1, <2>2, RingFrame, ReadFrame DEF Chain
<1>5. CASE broken' = broken \cup {next.of} /\ UNCHANGED tx_buf
  <2>1. Suspect(broken', noise', Coming')
    BY <1>3, <1>5, LostFacts
  <2>2. tx_buf # <<>> => Ahead' = Ahead
    BY <1>5 DEF Ahead
  <2>3. tx_buf = <<>> => Suspect(broken', noise', Ahead')
    BY <1>5, <2>1 DEF Ahead
  <2>4. LineInv'
    BY <1>1, <1>5, <2>1, <2>2, <2>3, SuspectGrows DEF Chain, LineInv, Linked
  <2> QED
    BY <1>1, <2>2, <2>3, <2>4, RingFrame, ReadFrame DEF Chain
<1> QED
  BY <1>1, <1>4, <1>5

\* What a step that takes the first byte off the line leaves there.
LEMMA TakenOffLine ==
  ASSUME TypeOK, LineInv, tx_buf # <<>>, tx_buf' = Tail(tx_buf),
         UNCHANGED <<sent, next>>
  PROVE  /\ Head(tx_buf) = Ahead /\ Head(tx_buf) \in Bytes
         /\ Linked(Ahead, Ahead')
         /\ \A i \in 1 .. Len(tx_buf') - 1 : Linked(tx_buf'[i], tx_buf'[i + 1])
         /\ tx_buf' # <<>> => Linked(tx_buf'[Len(tx_buf')], Coming)
         /\ Coming' = Coming
<1>1. /\ Head(tx_buf) = tx_buf[1] /\ Head(tx_buf) \in Bytes
      /\ Len(tx_buf) \in Nat /\ Len(tx_buf') = Len(tx_buf) - 1
      /\ \A i \in 1 .. Len(tx_buf') : tx_buf'[i] = tx_buf[i + 1]
      /\ tx_buf' = <<>> <=> Len(tx_buf) = 1
  <2>1. tx_buf \in Seq(Bytes)
    BY DEF TypeOK
  <2> QED
    BY <2>1, TailFacts
<1>2. Coming' = Coming
  BY DEF Coming
<1>3. Head(tx_buf) = Ahead
  BY <1>1 DEF Ahead
<1>4. Linked(Ahead, Ahead')
  <2>1. CASE Len(tx_buf) = 1
    BY <1>1, <1>2, <1>3, <2>1 DEF LineInv, Ahead
  <2>2. CASE Len(tx_buf) # 1
    <3>1. Ahead' = tx_buf[2] /\ 1 \in 1 .. Len(tx_buf) - 1
      BY <1>1, <2>2 DEF Ahead
    <3> QED
      BY <1>1, <1>3, <3>1 DEF LineInv
  <2> QED
    BY <2>1, <2>2
<1>5. ASSUME NEW i \in 1 .. Len(tx_buf') - 1
      PROVE  Linked(tx_buf'[i], tx_buf'[i + 1])
  <2>1. /\ tx_buf'[i] = tx_buf[i + 1] /\ tx_buf'[i + 1] = tx_buf[(i + 1) + 1]
        /\ i + 1 \in 1 .. Len(tx_buf) - 1
    BY <1>1
  <2> QED
    BY <2>1 DEF LineInv
<1>6. ASSUME tx_buf' # <<>>
      PROVE  Linked(tx_buf'[Len(tx_buf')], Coming)
  <2>1. tx_buf'[Len(tx_buf')] = tx_buf[Len(tx_buf)]
    <3>1. Len(tx_buf') \in 1 .. Len(tx_buf') /\ Len(tx_buf') + 1 = Len(tx_buf)
      BY <1>1, <1>6
    <3> QED
      BY <1>1, <3>1
  <2> QED
    BY <2>1 DEF LineInv
<1> QED
  BY <1>1, <1>2, <1>3, <1>4, <1>5, <1>6

LEMMA LoseChain ==
  ASSUME TypeOK, Grows, SentInv, Chain, Lose
  PROVE  Chain'
<1>1. /\ tx_buf # <<>> /\ tx_buf' = Tail(tx_buf)
      /\ broken' = broken \cup {Head(tx_buf).of}
      /\ UNCHANGED <<sent, next, rx_buf, c, p, noise, last, arrived, stray>>
  BY DEF Lose
<1>2. /\ Head(tx_buf) = Ahead
      /\ Linked(Ahead, Ahead')
      /\ \A i \in 1 .. Len(tx_buf') - 1 : Linked(tx_buf'[i], tx_buf'[i + 1])
      /\ tx_buf' # <<>> => Linked(tx_buf'[Len(tx_buf')], Coming)
      /\ Coming' = Coming
  BY <1>1, TakenOffLine DEF Chain
<1>3. Suspect(broken', noise', Ahead')
  BY <1>1, <1>2, SuspectGrows, LostFacts DEF Linked
<1>4. LineInv'
  BY <1>1, <1>2, <1>3, SuspectGrows DEF LineInv, Linked
<1> QED
  BY <1>1, <1>3, <1>4, RingFrame, ReadFrame DEF Chain

\* What a step that puts a byte into the receiver's ring must see to.
LEMMA IntoRing ==
  ASSUME TypeOK, Grows, Chain, NEW b \in Bytes, rx_buf' = Append(rx_buf, b), last' = b,
         UNCHANGED <<sent, c, p>>,
         Suspect(broken', noise', b) \/ (b = Ahead),
         Clear(broken', last, b)
  PROVE  RingInv' /\ ReadInv'
<1>1. /\ rx_buf \in Seq(Bytes) /\ Len(rx_buf) \in Nat
      /\ Len(rx_buf') = Len(rx_buf) + 1 /\ rx_buf'[Len(rx_buf')] = b
      /\ \A i \in 1 .. Len(rx_buf) : rx_buf'[i] = rx_buf[i]
      /\ rx_buf' # <<>>
  <2>1. rx_buf \in Seq(Bytes)
    BY DEF TypeOK
  <2> QED
    BY <2>1, AppendFacts
<1>2. Suspect(broken', noise', b) \/ Precedes(sent, last, b)
  BY SuspectGrows DEF Chain, LineInv, Linked
<1>3. ASSUME NEW i \in 1 .. Len(rx_buf') - 1
      PROVE  /\ \/ Suspect(broken', noise', rx_buf'[i + 1])
                \/ Precedes(sent', rx_buf'[i], rx_buf'[i + 1])
             /\ Clear(broken', rx_buf'[i], rx_buf'[i + 1])
  <2>1. CASE i < Len(rx_buf)
    <3>1. /\ i \in 1 .. Len(rx_buf) - 1
          /\ rx_buf'[i] = rx_buf[i] /\ rx_buf'[i + 1] = rx_buf[i + 1]
      BY <1>1, <2>1
    <3> QED
      BY <3>1, SuspectGrows DEF Chain, RingInv, Linked
  <2>2. CASE i = Len(rx_buf)
    <3>1. rx_buf'[i] = last /\ rx_buf'[i + 1] = b
      BY <1>1, <2>2 DEF Chain, RingInv
    <3> QED
      BY <1>2, <2>2, <3>1
  <2> QED
    BY <1>1, <2>1, <2>2
<1>4. RingInv'
  BY <1>1, <1>3 DEF RingInv, Linked
<1>5. ReadInv'
  <2>1. c # NoByte => c.is = ESC
    BY DEF Chain, ReadInv
  <2>2. CASE rx_buf # <<>>
    <3>1. rx_buf'[1] = rx_buf[1]
      BY <1>1, <2>2
    <3> QED
      BY <1>1, <2>1, <2>2, <3>1, SuspectGrows DEF Chain, ReadInv, Expected
  <2>3. CASE rx_buf = <<>>
    <3>1. rx_buf'[1] = b
      BY <1>1, <2>3
    <3>2. Suspect(broken', noise', b) \/ Reached(sent, b, p, c)
      BY <2>3, SuspectGrows DEF Chain, ReadInv, Expected
    <3>3. Clear(broken', c, b)
      BY <2>3, ConstantFacts DEF Chain, ReadInv, Clear
    <3> QED
      BY <1>1, <2>1, <3>1, <3>2, <3>3 DEF ReadInv, Expected
  <2> QED
    BY <2>2, <2>3
<1> QED
  BY <1>4, <1>5
LEMMA DeliverChain ==
  ASSUME TypeOK, Grows, SentInv, Chain, Deliver
  PROVE  Chain'
<1>1. /\ tx_buf # <<>> /\ tx_buf' = Tail(tx_buf)
      /\ rx_buf' = Append(rx_buf, Head(tx_buf)) /\ last' = Head(tx_buf)
      /\ broken' = IF last.is = ESC /\ Head(tx_buf).at = 0
                   THEN broken \cup {Head(tx_buf).of} ELSE broken
      /\ UNCHANGED <<sent, next, c, p, noise, arrived, stray>>
  BY DEF Deliver
<1>2. /\ Head(tx_buf) = Ahead /\ Ahead \in Bytes
      /\ Linked(Ahead, Ahead')
      /\ \A i \in 1 .. Len(tx_buf') - 1 : Linked(tx_buf'[i], tx_buf'[i + 1])
      /\ tx_buf' # <<>> => Linked(tx_buf'[Len(tx_buf')], Coming)
      /\ Coming' = Coming
  BY <1>1, TakenOffLine DEF Chain
<1>3. LineInv'
  BY <1>1, <1>2, SuspectGrows DEF LineInv, Linked
<1>4. Clear(broken', last, Ahead)
  BY <1>1, <1>2 DEF Clear
<1>5. RingInv' /\ ReadInv'
  BY <1>1, <1>2, <1>4, IntoRing
<1> QED
  BY <1>3, <1>5 DEF Chain

LEMMA DisturbChain ==
  ASSUME TypeOK, Grows, SentInv, Chain, Disturb
  PROVE  Chain'
<1>1. PICK is \in Code : /\ rx_buf' = Append(rx_buf, Byte(0, 0, 1, is))
                         /\ last' = Byte(0, 0, 1, is)
  BY DEF Disturb
<1>2. /\ noise' > 0
      /\ broken' = LET coming == IF tx_buf # <<>> THEN Head(tx_buf) ELSE next
                   IN  IF coming.at > 0 THEN broken \cup {coming.of} ELSE broken
      /\ UNCHANGED <<sent, next, tx_buf, c, p, arrived, stray>>
  BY SlipAssumption DEF Disturb, TypeOK
<1>3. Ahead' = Ahead /\ Coming' = Coming
  BY <1>2 DEF Ahead, Coming
<1>4. Suspect(broken', noise', Ahead)
  <2>1. CASE tx_buf # <<>>
    <3>1. Ahead = Head(tx_buf)
      BY <2>1, TailFacts DEF Ahead, TypeOK
    <3> QED
      BY <1>2, <2>1, <3>1 DEF Suspect
  <2>2. CASE tx_buf = <<>> /\ next # NoByte
    <3>1. Ahead = next
      BY <2>2 DEF Ahead, Coming
    <3> QED
      BY <1>2, <2>2, <3>1 DEF Suspect
  <2>3. CASE tx_buf = <<>> /\ next = NoByte
    <3>1. Ahead.at = 0
      BY <2>3 DEF Ahead, Coming, Byte
    <3> QED
      BY <1>2, <3>1 DEF Suspect
  <2> QED
    BY <2>1, <2>2, <2>3
<1>5. LineInv'
  BY <1>2, <1>3, <1>4, SuspectGrows DEF Chain, LineInv, Linked
<1>6. /\ Byte(0, 0, 1, is) \in Bytes
      /\ Suspect(broken', noise', Byte(0, 0, 1, is))
      /\ Clear(broken', last, Byte(0, 0, 1, is))
  BY <1>2, ConstantFacts DEF Suspect, Clear
<1>7. RingInv' /\ ReadInv'
  BY <1>1, <1>2, <1>6, IntoRing
<1> QED
  BY <1>5, <1>7 DEF Chain

\* What reading the first byte of the ring leaves: the receiver is where it
\* must be for the byte behind it.
LEMMA ReadOn ==
  ASSUME TypeOK, SentInv, Chain, rx_buf # <<>>, slip_recv_packet \/ Escaped,
         NEW n, n.at \in Nat, n.at > 0 => n.of # 0,
         Linked(Head(rx_buf), n)
  PROVE  /\ Suspect(broken, noise, n) \/ Reached(sent, n, p', c')
         /\ c' # NoByte => c' = Head(rx_buf) /\ Head(rx_buf).is = ESC
<1>1. PICK b \in Bytes : b = Head(rx_buf)
  BY TailFacts DEF TypeOK
<1>2. /\ Legit(sent, b) \/ Added(noise, b)
      /\ Expected(b) /\ Clear(broken, c, b)
      /\ c # NoByte => c.is = ESC
      /\ sent \in Seq(Payloads) /\ Len(sent) <= MaxPackets /\ noise \in Nat
  <2>1. b = rx_buf[1] /\ 1 \in 1 .. Len(rx_buf)
    BY <1>1, TailFacts DEF TypeOK
  <2> QED
    BY <2>1, SlipAssumption DEF TypeOK, SentInv, Chain, ReadInv
<1>3. \/ c = NoByte /\ b.is = END /\ p' = <<>> /\ c' = NoByte
      \/ c = NoByte /\ b.is = ESC /\ c' = b /\ p' = p
      \/ c = NoByte /\ b.is \notin {END, ESC} /\ Store(b.is) /\ c' = NoByte
      \/ c # NoByte /\ Store(Unstuffed(b.is)) /\ c' = NoByte
  BY <1>1 DEF slip_recv_packet, Escaped
<1>4. c' # NoByte => c' = b /\ b.is = ESC
  BY <1>3
<1>5. ASSUME ~Suspect(broken, noise, n), n.at = 0
      PROVE  Reached(sent, n, p', c')
  <2>1. noise = 0 /\ b.of \notin broken /\ (b.of # 0 => b.at > Len(sent[b.of]))
    BY <1>1, <1>2, <1>5 DEF Suspect, Linked, Precedes
  <2>2. Legit(sent, b)
    BY <1>2, <2>1 DEF Added
  <2>3. b.of # 0 /\ b.at > 0 /\ b.half = 1 /\ b.is = END
    <3>1. b.of # 0 /\ b.at \in Nat /\ Len(sent[b.of]) \in Nat
      BY <1>2, <2>2, LegitFacts
    <3>2. b.at \notin 1 .. Len(sent[b.of]) /\ b.at > 0
      BY <2>1, <3>1
    <3> QED
      BY <1>2, <2>2, <3>1, <3>2, LegitFacts
  <2>4. c = NoByte
    BY <1>2, <2>1, <2>3 DEF Expected, Suspect, Reached
  <2>5. p' = <<>> /\ c' = NoByte
    BY <1>3, <2>3, <2>4, ConstantFacts
  <2> QED
    BY <1>5, <2>5 DEF Reached
<1>6. ASSUME ~Suspect(broken, noise, n), n.at > 0
      PROVE  Reached(sent, n, p', c')
  <2>1. n.of \notin broken /\ n.of # 0 /\ b.of = n.of /\ n = Behind(sent[b.of], b)
    BY <1>1, <1>6 DEF Suspect, Linked, Precedes
  <2>2. Legit(sent, b)
    BY <1>2, <2>1 DEF Added
  <2>3. PICK data \in Seq(Code) : data = sent[b.of]
    BY <1>2, <2>2, LegitFacts
  <2>4. /\ b.at \in 0 .. Len(data)
        /\ IF b.is = ESC THEN n.half = 2 /\ n.at = b.at
           ELSE n.half = 1 /\ n.at = b.at + 1
    <3>1. b.at \in 0 .. Len(data) + 1
      BY <1>2, <2>2, <2>3, LegitFacts
    <3>2. n # NoByte
      BY <1>6, ConstantFacts
    <3>3. ~(b.at > Len(data))
      BY <1>2, <2>1, <2>2, <2>3, <3>2, BehindFacts
    <3>4. b.at <= Len(data)
      BY <3>1, <3>3
    <3>5. b.at <= Len(sent[b.of])
      BY <2>3, <3>4
    <3>6. IF b.is = ESC THEN n.half = 2 /\ n.at = b.at
          ELSE n.half = 1 /\ n.at = b.at + 1
      BY <1>2, <2>1, <2>2, <3>5, BehindFacts
    <3> QED
      BY <3>1, <3>4, <3>6
  <2>5. ASSUME p' = Taken(data, b.at), c' = NoByte, b.is # ESC
        PROVE  Reached(sent, n, p', c')
    <3>1. n.half = 1 /\ n.at = b.at + 1 /\ n.at - 1 = b.at
      BY <2>4, <2>5
    <3>2. c' = IF n.half = 2 THEN Coded(sent[n.of], n.of, n.at, 1) ELSE NoByte
      BY <2>5, <3>1
    <3>3. p' = Taken(sent[n.of], n.at - 1)
      BY <2>1, <2>3, <2>5, <3>1
    <3> QED
      BY <1>6, <3>2, <3>3 DEF Reached
  <2>6. CASE b.at = 0
    <3>1. b.is = END
      BY <1>2, <2>2, <2>6, LegitFacts
    <3>2. c = NoByte
      BY <1>2, <2>1, <2>6 DEF Clear
    <3>3. p' = <<>> /\ c' = NoByte
      BY <1>3, <3>1, <3>2, ConstantFacts
    <3> QED
      BY <2>3, <2>5, <2>6, <3>1, <3>3, TakenFacts, ConstantFacts
  <2>7. CASE b.at > 0
    <3>1. /\ p = Taken(data, b.at - 1)
          /\ c = IF b.half = 2 THEN Coded(data, b.of, b.at, 1) ELSE NoByte
      BY <1>2, <2>1, <2>3, <2>7 DEF Expected, Suspect, Reached
    <3>2. b.at \in 1 .. Len(data)
      BY <2>4, <2>7
    <3>3. ASSUME Store(data[b.at])
          PROVE  p' = Taken(data, b.at)
      <4>1. b.at - 1 \in 0 .. Len(data) - 1 /\ (b.at - 1) + 1 = b.at
        BY <3>2
      <4> QED
        BY <3>1, <3>3, <4>1, TakenFacts DEF Store, HasRoom
    <3>4. CASE b.half = 1 /\ data[b.at] \in {END, ESC}
      <4>1. b.is = ESC /\ c = NoByte
        BY <1>2, <2>2, <2>3, <3>1, <3>2, <3>4, LegitFacts
      <4>2. c' = b /\ p' = p
        BY <1>3, <4>1, ConstantFacts
      <4>3. b = Coded(data, b.of, b.at, 1)
        BY <2>2, <2>3, <3>4 DEF Legit
      <4> QED
        BY <1>6, <2>1, <2>3, <2>4, <3>1, <4>1, <4>2, <4>3 DEF Reached
    <3>5. CASE b.half = 1 /\ data[b.at] \notin {END, ESC}
      <4>1. b.is = data[b.at] /\ b.is \notin {END, ESC} /\ c = NoByte
        BY <1>2, <2>2, <2>3, <3>1, <3>2, <3>5, LegitFacts
      <4> QED
        BY <1>3, <2>5, <3>3, <4>1, ConstantFacts
    <3>6. CASE b.half # 1
      <4>1. b.half = 2 /\ b.is \notin {END, ESC} /\ Unstuffed(b.is) = data[b.at]
        BY <1>2, <2>2, <2>3, <3>6, LegitFacts
      <4>2. c # NoByte
        <5>1. c.of = b.of
          BY <3>1, <4>1 DEF Coded, Byte
        <5> QED
          BY <2>1, <5>1, ConstantFacts
      <4> QED
        BY <1>3, <2>5, <3>3, <4>1, <4>2
    <3> QED
      BY <3>4, <3>5, <3>6
  <2> QED
    BY <2>4, <2>6, <2>7
<1> QED
  BY <1>1, <1>2, <1>4, <1>5, <1>6

\* Places are numbers, and only a packet has places.
LEMMA PlaceFacts ==
  ASSUME TypeOK, SentInv
  PROVE  /\ Ahead.at \in Nat /\ (Ahead.at > 0 => Ahead.of # 0)
         /\ \A i \in 1 .. Len(rx_buf) :
               rx_buf[i].at \in Nat /\ (rx_buf[i].at > 0 => rx_buf[i].of # 0)
<1>1. ASSUME NEW b, Legit(sent, b)
      PROVE  b.at \in Nat /\ b.of # 0
  BY <1>1, LegitFacts DEF TypeOK
<1>2. Coming.at \in Nat /\ (Coming.at > 0 => Coming.of # 0)
  <2>1. CASE next = NoByte
    BY <2>1 DEF Coming, Byte
  <2>2. CASE next # NoByte
    BY <1>1, <2>2 DEF Coming, SentInv
  <2> QED
    BY <2>1, <2>2
<1>3. tx_buf # <<>> => Legit(sent, tx_buf[1])
  BY DEF TypeOK, SentInv
<1>4. \A i \in 1 .. Len(rx_buf) :
               rx_buf[i].at \in Nat /\ (rx_buf[i].at > 0 => rx_buf[i].of # 0)
  BY <1>1 DEF SentInv, Added
<1> QED
  BY <1>1, <1>2, <1>3, <1>4 DEF Ahead

\* A byte read from the ring, whichever way.
LEMMA ReadChain ==
  ASSUME TypeOK, Grows, SentInv, Chain, slip_recv_packet \/ Escaped,
         rx_buf # <<>>, rx_buf' = Tail(rx_buf), UNCHANGED broken
  PROVE  Chain'
<1>1. UNCHANGED <<sent, next, tx_buf, noise, last, broken>>
  BY DEF slip_recv_packet, Escaped
<1>2. Ahead' = Ahead
  BY <1>1 DEF Ahead, Coming
<1>3. /\ Head(rx_buf) = rx_buf[1]
      /\ Len(rx_buf) \in Nat /\ Len(rx_buf') = Len(rx_buf) - 1
      /\ \A i \in 1 .. Len(rx_buf') : rx_buf'[i] = rx_buf[i + 1]
      /\ rx_buf' = <<>> <=> Len(rx_buf) = 1
  <2>1. rx_buf \in Seq(Bytes)
    BY DEF TypeOK
  <2> QED
    BY <2>1, TailFacts
<1>4. LineInv'
  BY <1>1, LineFrame DEF Chain
<1>5. RingInv'
  <2>1. ASSUME NEW i \in 1 .. Len(rx_buf') - 1
        PROVE  /\ Linked(rx_buf'[i], rx_buf'[i + 1])
               /\ Clear(broken, rx_buf'[i], rx_buf'[i + 1])
    <3>1. /\ rx_buf'[i] = rx_buf[i + 1] /\ rx_buf'[i + 1] = rx_buf[(i + 1) + 1]
          /\ i + 1 \in 1 .. Len(rx_buf) - 1
      BY <1>3
    <3> QED
      BY <3>1 DEF Chain, RingInv
  <2>2. ASSUME rx_buf' # <<>>
        PROVE  last = rx_buf'[Len(rx_buf')]
    <3>1. Len(rx_buf') \in 1 .. Len(rx_buf') /\ Len(rx_buf') + 1 = Len(rx_buf)
      BY <1>3, <2>2
    <3>2. rx_buf'[Len(rx_buf')] = rx_buf[Len(rx_buf)]
      BY <1>3, <3>1
    <3> QED
      BY <3>2 DEF Chain, RingInv
  <2> QED
    BY <1>1, <2>1, <2>2 DEF RingInv, Linked
<1>6. CASE Len(rx_buf) = 1
  <2>1. last = Head(rx_buf) /\ Linked(Head(rx_buf), Ahead)
    BY <1>3, <1>6 DEF Chain, RingInv, LineInv
  <2>2. /\ Suspect(broken, noise, Ahead) \/ Reached(sent, Ahead, p', c')
        /\ c' # NoByte => c' = Head(rx_buf) /\ Head(rx_buf).is = ESC
    BY <2>1, PlaceFacts, ReadOn
  <2>3. ReadInv'
    BY <1>1, <1>2, <1>3, <1>6, <2>1, <2>2 DEF ReadInv, Expected
  <2> QED
    BY <1>4, <1>5, <2>3 DEF Chain
<1>7. CASE Len(rx_buf) # 1
  <2>1. /\ rx_buf'[1] = rx_buf[2] /\ 1 \in 1 .. Len(rx_buf) - 1 /\ 2 \in 1 .. Len(rx_buf)
        /\ 1 + 1 = 2 /\ rx_buf' # <<>>
    BY <1>3, <1>7
  <2>2. Linked(Head(rx_buf), rx_buf[2]) /\ Clear(broken, Head(rx_buf), rx_buf[2])
    BY <1>3, <2>1 DEF Chain, RingInv
  <2>3. /\ Suspect(broken, noise, rx_buf[2]) \/ Reached(sent, rx_buf[2], p', c')
        /\ c' # NoByte => c' = Head(rx_buf) /\ Head(rx_buf).is = ESC
    BY <2>1, <2>2, PlaceFacts, ReadOn
  <2>4. Clear(broken, c', rx_buf[2])
    BY <2>2, <2>3, ConstantFacts DEF Clear
  <2>5. ReadInv'
    BY <1>1, <2>1, <2>3, <2>4 DEF ReadInv, Expected
  <2> QED
    BY <1>4, <1>5, <2>5 DEF Chain
<1> QED
  BY <1>6, <1>7

\* The second byte of an escape that is not there yet: the packet it splits is
\* broken.
LEMMA SplitChain ==
  ASSUME TypeOK, Grows, SentInv, Chain, Escaped, rx_buf = <<>>
  PROVE  Chain'
<1>1. /\ c # NoByte /\ c' = NoByte /\ broken' = broken \cup {c.of}
      /\ UNCHANGED <<sent, next, tx_buf, rx_buf, noise, last, arrived, stray>>
  BY DEF Escaped
<1>2. Ahead' = Ahead
  BY <1>1 DEF Ahead, Coming
<1>3. Suspect(broken', noise', Ahead)
  <2>1. CASE Suspect(broken, noise, Ahead)
    BY <2>1, SuspectGrows
  <2>2. CASE Reached(sent, Ahead, p, c)
    <3>1. /\ Ahead.at > 0
          /\ c = Coded(sent[Ahead.of], Ahead.of, Ahead.at, 1)
      BY <1>1, <2>2 DEF Reached
    <3>2. c.of = Ahead.of
      BY <3>1 DEF Coded, Byte
    <3> QED
      BY <1>1, <3>1, <3>2 DEF Suspect
  <2> QED
    BY <2>1, <2>2 DEF Chain, ReadInv, Expected
<1>4. LineInv' /\ RingInv'
  BY <1>1, LineFrame, RingFrame DEF Chain
<1>5. ReadInv'
  BY <1>1, <1>2, <1>3 DEF ReadInv, Expected
<1> QED
  BY <1>4, <1>5 DEF Chain

LEMMA ChainStep == TypeOK /\ SentInv /\ Chain /\ [Next]_vars => Chain'
<1> SUFFICES ASSUME TypeOK, SentInv, Chain, [Next]_vars
             PROVE  Chain'
  OBVIOUS
<1>0. Grows
  BY HistoryGrows
<1>1. CASE slip_send_packet
  BY <1>0, <1>1, SendPacketChain
<1>2. CASE slip_send_byte
  BY <1>0, <1>2, SendByteChain
<1>3. CASE Deliver
  BY <1>0, <1>3, DeliverChain
<1>4. CASE Lose
  BY <1>0, <1>4, LoseChain
<1>5. CASE Disturb
  BY <1>0, <1>5, DisturbChain
<1>6. CASE slip_recv_packet
  <2>1. rx_buf # <<>> /\ rx_buf' = Tail(rx_buf) /\ UNCHANGED broken
    BY <1>6 DEF slip_recv_packet
  <2> QED
    BY <1>0, <1>6, <2>1, ReadChain
<1>7. CASE Escaped
  <2>1. CASE rx_buf = <<>>
    BY <1>0, <1>7, <2>1, SplitChain
  <2>2. CASE rx_buf # <<>>
    <3>1. rx_buf' = Tail(rx_buf) /\ UNCHANGED broken
      BY <1>7, <2>2 DEF Escaped
    <3> QED
      BY <1>0, <1>7, <2>2, <3>1, ReadChain
  <2> QED
    BY <2>1, <2>2
<1>8. CASE NothingYet \/ UNCHANGED vars
  <2>1. UNCHANGED <<sent, next, tx_buf, rx_buf, c, p, noise, last, broken>>
    BY <1>8 DEF NothingYet, vars
  <2>2. Ahead' = Ahead
    BY <2>1 DEF Ahead, Coming
  <2> QED
    BY <1>0, <2>1, <2>2, LineFrame, RingFrame, ReadFrame DEF Chain
<1> QED
  BY <1>1, <1>2, <1>3, <1>4, <1>5, <1>6, <1>7, <1>8 DEF Next
LEMMA ChainInit == Init => Chain
<1> SUFFICES ASSUME Init
             PROVE  Chain
  OBVIOUS
<1>1. Ahead = Byte(1, 0, 1, END) /\ Coming = Ahead
  BY DEF Init, Ahead, Coming
<1>2. Ahead.of = 1 /\ Ahead.at = 0
  BY <1>1 DEF Byte
<1>3. LineInv
  BY <1>1, <1>2, ConstantFacts DEF Init, LineInv, Linked, Precedes
<1>4. RingInv
  BY DEF Init, RingInv
<1>5. ReadInv
  BY <1>1, <1>2 DEF Init, ReadInv, Expected, Reached
<1> QED
  BY <1>3, <1>4, <1>5 DEF Chain

-----------------------------------------------------------------------------
\* What the caller is given.

IInv == TypeOK /\ SentInv /\ Chain /\ Confined

\* The END behind packet k is in a ring.
Holds(s, k, ring) ==
    \E i \in DOMAIN ring : k # 0 /\ ring[i].of = k /\ ring[i].at > Len(s[k])

LEMMA HoldsFacts ==
  ASSUME NEW s, NEW k \in Nat \ {0}, NEW S, NEW ring \in Seq(S), NEW b \in S
  PROVE  /\ Holds(s, k, ring) => Holds(s, k, Append(ring, b))
         /\ b.of = k /\ b.at > Len(s[k]) => Holds(s, k, Append(ring, b))
         /\ ring # <<>> /\ Holds(s, k, ring) =>
               \/ Head(ring).of = k /\ Head(ring).at > Len(s[k])
               \/ Holds(s, k, Tail(ring))
<1>1. ASSUME Holds(s, k, ring)
      PROVE  Holds(s, k, Append(ring, b))
  <2>1. PICK i \in 1 .. Len(ring) : ring[i].of = k /\ ring[i].at > Len(s[k])
    BY <1>1 DEF Holds
  <2>2. i \in DOMAIN Append(ring, b) /\ Append(ring, b)[i] = ring[i]
    OBVIOUS
  <2> QED
    BY <2>1, <2>2 DEF Holds
<1>2. ASSUME b.of = k, b.at > Len(s[k])
      PROVE  Holds(s, k, Append(ring, b))
  <2>1. /\ Len(ring) + 1 \in DOMAIN Append(ring, b)
        /\ Append(ring, b)[Len(ring) + 1] = b
    OBVIOUS
  <2> QED
    BY <1>2, <2>1 DEF Holds
<1>3. ASSUME ring # <<>>, Holds(s, k, ring)
      PROVE  \/ Head(ring).of = k /\ Head(ring).at > Len(s[k])
             \/ Holds(s, k, Tail(ring))
  <2>1. PICK i \in 1 .. Len(ring) : ring[i].of = k /\ ring[i].at > Len(s[k])
    BY <1>3 DEF Holds
  <2>2. CASE i = 1
    BY <1>3, <2>1, <2>2, TailFacts
  <2>3. CASE i # 1
    <3>1. i - 1 \in DOMAIN Tail(ring) /\ Tail(ring)[i - 1] = ring[i]
      BY <1>3, <2>3
    <3> QED
      BY <2>1, <3>1 DEF Holds
  <2> QED
    BY <2>2, <2>3
<1> QED
  BY <1>1, <1>2, <1>3

\* The byte that slip_recv_packet reads when it reads an END: whose it is, and
\* what the receiver has by then.
LEMMA EndFacts ==
  ASSUME TypeOK, SentInv, Chain, rx_buf # <<>>, NEW b, b = Head(rx_buf)
  PROVE  /\ b.at = 0 => p = <<>> \/ noise > 0 \/ b.of - 1 \in broken
         /\ \A k \in 1 .. Len(sent) :
               b.of = k /\ b.at > Len(sent[k]) /\ k \notin broken =>
                  c = NoByte /\ b.is = END /\ p = Cut(sent[k])
<1>1. Legit(sent, b) \/ Added(noise, b)
  <2>1. b = rx_buf[1] /\ 1 \in 1 .. Len(rx_buf)
    BY TailFacts DEF TypeOK
  <2> QED
    BY <2>1 DEF SentInv
<1>2. Expected(b)
  <2>1. b = rx_buf[1]
    BY TailFacts DEF TypeOK
  <2> QED
    BY <2>1 DEF Chain, ReadInv
<1>3. b.at = 0 => p = <<>> \/ noise > 0 \/ b.of - 1 \in broken
  BY <1>2 DEF Expected, Suspect, Reached
<1>4. ASSUME NEW k \in 1 .. Len(sent), b.of = k, b.at > Len(sent[k]), k \notin broken
      PROVE  c = NoByte /\ b.is = END /\ p = Cut(sent[k])
  <2>1. Legit(sent, b)
    BY <1>1, <1>4 DEF Added
  <2>2. PICK data \in Seq(Code) : data = sent[k]
    BY <1>4, <2>1, LegitFacts DEF TypeOK
  <2>3. b.at = Len(data) + 1 /\ b.at > 0 /\ b.at \notin 1 .. Len(data)
    <3>1. b.at \in 0 .. Len(data) + 1
      BY <1>4, <2>1, <2>2, LegitFacts DEF TypeOK
    <3> QED
      BY <1>4, <2>2, <3>1
  <2>4. b.half = 1 /\ b.is = END
    BY <1>4, <2>1, <2>2, <2>3, LegitFacts DEF TypeOK
  <2>5. p = Taken(data, Len(data)) /\ c = NoByte
    <3>1. Reached(sent, b, p, c)
      BY <1>2, <1>4, <2>3 DEF Expected, Suspect
    <3>2. b.at - 1 = Len(data)
      BY <2>3
    <3> QED
      BY <1>4, <2>2, <2>3, <2>4, <3>1, <3>2 DEF Reached
  <2> QED
    BY <2>2, <2>4, <2>5, TakenFacts
<1> QED
  BY <1>3, <1>4

\* A packet whose last END is on its way stays so until it is returned or
\* broken.
LEMMA StaysOnTheWay ==
  ASSUME TypeOK, SentInv, Chain, Grows, Next, NEW k \in 1 .. Len(sent), OnTheWay(k)
  PROVE  k \in arrived' \cup broken' \/ OnTheWay(k)'
<1> DEFINE InTx == Holds(sent, k, tx_buf)
           InRx == Holds(sent, k, rx_buf)
<1>1. /\ k \in Nat \ {0} /\ sent'[k] = sent[k]
      /\ tx_buf \in Seq(Bytes) /\ rx_buf \in Seq(Bytes)
  BY DEF TypeOK, Grows
<1>2. next.of = k \/ InTx \/ InRx
  BY <1>1 DEF OnTheWay, Holds, EndOf
<1>3. SUFFICES \/ k \in arrived' \cup broken' \/ next'.of = k
               \/ Holds(sent, k, tx_buf') \/ Holds(sent, k, rx_buf')
  BY <1>1 DEF OnTheWay, Holds, EndOf
<1>4. CASE slip_send_packet
  <2>1. next = NoByte /\ UNCHANGED <<tx_buf, rx_buf>>
    BY <1>4 DEF slip_send_packet
  <2> QED
    BY <1>1, <1>2, <2>1, ConstantFacts
<1>5. CASE slip_send_byte
  <2>1. /\ next # NoByte /\ next' = Behind(sent[next.of], next) /\ UNCHANGED rx_buf
        /\ \/ tx_buf' = Append(tx_buf, next)
           \/ broken' = broken \cup {next.of} /\ UNCHANGED tx_buf
    BY <1>5 DEF slip_send_byte
  <2>2. Legit(sent, next) /\ next \in Bytes /\ sent \in Seq(Payloads) /\ Len(sent) <= MaxPackets
    BY <2>1 DEF SentInv, TypeOK
  <2>3. CASE InTx \/ InRx
    BY <1>1, <2>1, <2>2, <2>3, HoldsFacts
  <2>4. CASE next.of = k
    <3>1. next.at \in Nat /\ Len(sent[k]) \in Nat
      BY <2>2, <2>4, LegitFacts
    <3>2. CASE next.at > Len(sent[k])
      <4>1. CASE tx_buf' = Append(tx_buf, next)
        BY <1>1, <2>2, <2>4, <3>2, <4>1, HoldsFacts
      <4>2. CASE broken' = broken \cup {next.of}
        BY <2>4, <4>2
      <4> QED
        BY <2>1, <4>1, <4>2
    <3>3. CASE next.at <= Len(sent[k])
      BY <2>1, <2>2, <2>4, <3>3, BehindFacts
    <3> QED
      BY <3>1, <3>2, <3>3
  <2> QED
    BY <1>2, <2>3, <2>4
<1>6. CASE Deliver
  <2>1. /\ tx_buf # <<>> /\ tx_buf' = Tail(tx_buf) /\ UNCHANGED next
        /\ rx_buf' = Append(rx_buf, Head(tx_buf)) /\ Head(tx_buf) \in Bytes
    BY <1>1, <1>6, TailFacts DEF Deliver
  <2>2. InRx => Holds(sent, k, rx_buf')
    BY <1>1, <2>1, HoldsFacts
  <2>3. InTx => Holds(sent, k, tx_buf') \/ Holds(sent, k, rx_buf')
    BY <1>1, <2>1, HoldsFacts
  <2> QED
    BY <1>2, <2>1, <2>2, <2>3
<1>7. CASE Lose
  <2>1. /\ tx_buf # <<>> /\ tx_buf' = Tail(tx_buf) /\ UNCHANGED <<next, rx_buf>>
        /\ broken' = broken \cup {Head(tx_buf).of} /\ Head(tx_buf) \in Bytes
    BY <1>1, <1>7, TailFacts DEF Lose
  <2>2. InTx => Head(tx_buf).of = k \/ Holds(sent, k, tx_buf')
    BY <1>1, <2>1, HoldsFacts
  <2> QED
    BY <1>2, <2>1, <2>2
<1>8. CASE Disturb
  <2>1. PICK is \in Code : rx_buf' = Append(rx_buf, Byte(0, 0, 1, is))
    BY <1>8 DEF Disturb
  <2>2. UNCHANGED <<next, tx_buf>> /\ Byte(0, 0, 1, is) \in Bytes
    BY <1>8, ConstantFacts DEF Disturb
  <2> QED
    BY <1>1, <1>2, <2>1, <2>2, HoldsFacts
<1>9. ASSUME rx_buf # <<>>, rx_buf' = Tail(rx_buf), UNCHANGED <<next, tx_buf>>
      PROVE  \/ next'.of = k \/ Holds(sent, k, tx_buf') \/ Holds(sent, k, rx_buf')
             \/ Head(rx_buf).of = k /\ Head(rx_buf).at > Len(sent[k])
  <2>1. Head(rx_buf) \in Bytes
    BY <1>1, <1>9, TailFacts
  <2> QED
    BY <1>1, <1>2, <1>9, <2>1, HoldsFacts
<1>10. CASE slip_recv_packet
  <2>1. /\ rx_buf # <<>> /\ rx_buf' = Tail(rx_buf) /\ UNCHANGED <<next, tx_buf, broken>>
        /\ Head(rx_buf).is = END =>
              arrived' = IF EndOf(Head(rx_buf).of, Head(rx_buf))
                            /\ p = Cut(sent[Head(rx_buf).of])
                         THEN arrived \cup {Head(rx_buf).of} ELSE arrived
    BY <1>10, ConstantFacts DEF slip_recv_packet
  <2>2. CASE Head(rx_buf).of = k /\ Head(rx_buf).at > Len(sent[k]) /\ k \notin broken
    <3>1. Head(rx_buf).is = END /\ p = Cut(sent[k])
      BY <2>1, <2>2, EndFacts
    <3> QED
      BY <1>1, <2>1, <2>2, <3>1 DEF EndOf
  <2> QED
    BY <1>9, <2>1, <2>2
<1>11. CASE Escaped
  <2>1. c # NoByte /\ UNCHANGED <<next, tx_buf>>
    BY <1>11 DEF Escaped
  <2>2. CASE rx_buf = <<>> /\ UNCHANGED rx_buf
    BY <1>2, <2>1, <2>2
  <2>3. CASE rx_buf # <<>> /\ rx_buf' = Tail(rx_buf) /\ UNCHANGED broken
    <3>1. Head(rx_buf).of = k /\ Head(rx_buf).at > Len(sent[k]) => k \in broken
      BY <2>1, <2>3, EndFacts
    <3> QED
      BY <1>9, <2>1, <2>3, <3>1
  <2> QED
    BY <1>11, <2>2, <2>3 DEF Escaped
<1>12. CASE NothingYet
  BY <1>2, <1>12 DEF NothingYet, vars
<1> QED
  BY <1>4, <1>5, <1>6, <1>7, <1>8, <1>10, <1>11, <1>12 DEF Next

LEMMA ConfinedStep ==
  TypeOK /\ SentInv /\ Chain /\ Confined /\ [Next]_vars => Confined'
<1> SUFFICES ASSUME TypeOK, SentInv, Chain, Confined, [Next]_vars
             PROVE  Confined'
  OBVIOUS
<1>0. Grows
  BY HistoryGrows
<1>1. CASE Next
  <2>1. ASSUME NEW k \in 1 .. Len(sent')
        PROVE  k \in arrived' \cup broken' \/ OnTheWay(k)'
    <3>1. CASE k \in 1 .. Len(sent) /\ OnTheWay(k)
      BY <1>0, <1>1, <3>1, StaysOnTheWay
    <3>2. CASE k \in arrived \cup broken
      <4>1. arrived \subseteq arrived'
        BY <1>1 DEF Next, slip_send_packet, slip_send_byte, Deliver, Lose, Disturb,
                    slip_recv_packet, Escaped, NothingYet, vars
      <4> QED
        BY <1>0, <3>2, <4>1 DEF Grows
    <3>3. CASE k \notin 1 .. Len(sent)
      <4>1. slip_send_packet
        BY <1>1, <3>3 DEF Next, slip_send_byte, Deliver, Lose, Disturb,
                          slip_recv_packet, Escaped, NothingYet, vars
      <4>2. PICK data \in Payloads : /\ sent' = Append(sent, data)
                                     /\ next' = FirstByte(data, Len(sent) + 1)
        BY <4>1 DEF slip_send_packet
      <4>3. k = Len(sent) + 1
        BY <3>3, <4>2 DEF TypeOK
      <4>4. next'.of = Len(sent) + 1
        <5>1. data \in Seq(Code) /\ Len(sent) < MaxPackets
          BY <4>1, SlipAssumption DEF slip_send_packet
        <5> QED
          BY <4>2, <5>1, FirstFacts DEF TypeOK
      <4> QED
        BY <4>3, <4>4 DEF OnTheWay
    <3> QED
      BY <3>1, <3>2, <3>3 DEF Confined
  <2>2. ASSUME NEW k \in stray'
        PROVE  noise' > 0 \/ k - 1 \in broken'
    <3>1. \/ k \in stray
          \/ /\ slip_recv_packet /\ rx_buf # <<>>
             /\ k = Head(rx_buf).of /\ Head(rx_buf).at = 0 /\ p # <<>>
      BY <1>1, <2>2 DEF Next, slip_send_packet, slip_send_byte, Deliver, Lose, Disturb,
                        slip_recv_packet, Escaped, NothingYet, vars
    <3>2. noise > 0 \/ k - 1 \in broken
      BY <3>1, EndFacts DEF Confined
    <3>3. broken \subseteq broken' /\ (noise > 0 => noise' > 0)
      BY <1>0, SlipAssumption DEF Grows, TypeOK
    <3> QED
      BY <3>2, <3>3
  <2> QED
    BY <2>1, <2>2 DEF Confined
<1>2. CASE UNCHANGED vars
  BY <1>2 DEF vars, Confined, OnTheWay, EndOf
<1> QED
  BY <1>1, <1>2

\* The inductive invariant: every byte on its way stands behind the one sent
\* before it, and the receiver is where the bytes it has read have brought it,
\* for every packet that is not broken.
THEOREM Invariance == Spec => []IInv
<1>1. Init => IInv
  <2>1. Init => Confined
    BY DEF Init, Confined
  <2> QED
    BY <2>1, TypeInit, ChainInit DEF IInv
<1>2. IInv /\ [Next]_vars => IInv'
  BY TypeStep, ChainStep, ConfinedStep DEF IInv
<1> QED
  BY <1>1, <1>2, PTL DEF Spec

\* Damage is confined: slip_recv_packet returns every packet that arrives
\* whole, as it was given to slip_send_packet and cut to max_packet_size,
\* whatever came before it; and the END that slip_send_packet puts first
\* returns something only after noise or behind a packet that did not arrive
\* whole.
THEOREM DamageIsConfined == Spec => []Confined
<1>1. IInv => Confined
  BY DEF IInv
<1> QED
  BY <1>1, Invariance, PTL
=============================================================================
