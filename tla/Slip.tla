-------------------------------- MODULE Slip --------------------------------
(***************************************************************************)
(* SLIP packets over a serial line (my_libs/protocols/slip_prot.c with     *)
(* slip_prot_uart_drv.c): slip_send_packet on one side, slip_recv_packet,  *)
(* called again and again, on the other, and between them the rings of     *)
(* their USARTs, which are queues (RingsAreQueues in module UsartProofs),  *)
(* and a line that loses bytes and adds others.                            *)
(*                                                                         *)
(* A byte carries the packet it belongs to, 0 for noise, its place in it   *)
(* (0 for the END before it, the END behind it comes after the last) and   *)
(* which half of an escape it is.                                          *)
(***************************************************************************)
EXTENDS Integers, Sequences

CONSTANTS
    Plain,              \* the data bytes with no special code
    END, ESC, ESC_END, ESC_ESC,
    Payloads,           \* bound: the packets sent
    MaxPackets,         \* bound: how many
    MaxNoise,           \* bound: bytes the line adds
    TxSize, RxSize,     \* sizes of the rings
    max_packet_size

Code == Plain \cup {END, ESC, ESC_END, ESC_ESC}

ASSUME SlipAssumption ==
    /\ Payloads \subseteq Seq(Code)
    /\ END # ESC /\ ESC_END # ESC_ESC /\ {END, ESC} \cap {ESC_END, ESC_ESC} = {}
    /\ MaxPackets \in Nat /\ MaxNoise \in Nat
    /\ TxSize \in Nat /\ RxSize \in Nat /\ max_packet_size \in Nat

VARIABLES
    sent,       \* history: the packets given to slip_send_packet
    next,       \* what the call under way sends next, or NoByte
    tx_buf, rx_buf,
    c,          \* the ESC whose second byte is to be read, or NoByte
    p,          \* the first bytes_received bytes of the receiver's buffer
    noise,      \* how many bytes the line has added
    last,       \* history: the byte that reached rx_buf last
    broken,     \* history: packets that did not arrive whole
    arrived,    \* history: packets returned as they were sent
    stray       \* history: packets whose first END returned something

vars == <<sent, next, tx_buf, rx_buf, c, p, noise, last, broken, arrived, stray>>

Byte(of, at, half, is) == [of |-> of, at |-> at, half |-> half, is |-> is]
NoByte == Byte(0, 0, 1, END)

Init ==
    /\ sent = <<>> /\ next = NoByte /\ tx_buf = <<>> /\ rx_buf = <<>>
    /\ c = NoByte /\ p = <<>>
    /\ noise = 0 /\ last = NoByte /\ broken = {}
    /\ arrived = {} /\ stray = {}

--------------------------------------------------------------------------
(* slip_send_packet.                                                       *)

Stuffed(b) == CASE b = END -> <<ESC, ESC_END>>
                [] b = ESC -> <<ESC, ESC_ESC>>
                [] b \notin {END, ESC} -> <<b>>

\* What is sent at a place of packet k.
Codes(data, at) == IF at \in DOMAIN data THEN Stuffed(data[at]) ELSE <<END>>
Coded(data, k, at, half) == Byte(k, at, half, Codes(data, at)[half])

\* Seeded fault: no END before the packet.
FirstByte_NoFlush(data, k) == Coded(data, k, 1, 1)

\* An END flushes what noise has left in the receiver.
FirstByte(data, k) == Coded(data, k, 0, 1)

\* The loop over the data, and the END behind it.
Behind(data, b) ==
    CASE b.half < Len(Codes(data, b.at)) -> Coded(data, b.of, b.at, b.half + 1)
      [] b.half = Len(Codes(data, b.at)) /\ b.at <= Len(data) ->
            Coded(data, b.of, b.at + 1, 1)
      [] b.at > Len(data) -> NoByte

slip_send_packet ==
    /\ next = NoByte /\ Len(sent) < MaxPackets
    /\ \E data \in Payloads : /\ sent' = Append(sent, data)
                             /\ next' = FirstByte(data, Len(sent) + 1)
    /\ UNCHANGED <<tx_buf, rx_buf, c, p, noise, last, broken, arrived, stray>>

\* A byte that finds no room is dropped: nobody looks at the result.
slip_send_byte ==
    /\ next # NoByte /\ next' = Behind(sent[next.of], next)
    /\ \/ /\ Len(tx_buf) < TxSize
          /\ tx_buf' = Append(tx_buf, next) /\ UNCHANGED broken
       \/ /\ Len(tx_buf) = TxSize
          /\ broken' = broken \cup {next.of} /\ UNCHANGED tx_buf
    /\ UNCHANGED <<sent, rx_buf, c, p, noise, last, arrived, stray>>

--------------------------------------------------------------------------
(* The line, and the interrupt handlers at its ends.                       *)

\* A packet that begins behind an ESC counts as broken: its END is data.
Deliver ==
    /\ tx_buf # <<>> /\ tx_buf' = Tail(tx_buf)
    /\ Len(rx_buf) < RxSize
    /\ rx_buf' = Append(rx_buf, Head(tx_buf)) /\ last' = Head(tx_buf)
    /\ broken' = IF last.is = ESC /\ Head(tx_buf).at = 0
                 THEN broken \cup {Head(tx_buf).of} ELSE broken
    /\ UNCHANGED <<sent, next, c, p, noise, arrived, stray>>

\* On the line, or at a full buffer.
Lose ==
    /\ tx_buf # <<>> /\ tx_buf' = Tail(tx_buf)
    /\ broken' = broken \cup {Head(tx_buf).of}
    /\ UNCHANGED <<sent, next, rx_buf, c, p, noise, last, arrived, stray>>

Disturb ==
    /\ noise < MaxNoise /\ noise' = noise + 1
    /\ Len(rx_buf) < RxSize
    /\ \E is \in Code : /\ rx_buf' = Append(rx_buf, Byte(0, 0, 1, is))
                        /\ last' = Byte(0, 0, 1, is)
    /\ LET coming == IF tx_buf # <<>> THEN Head(tx_buf) ELSE next
       IN  broken' = IF coming.at > 0 THEN broken \cup {coming.of} ELSE broken
    /\ UNCHANGED <<sent, next, tx_buf, c, p, arrived, stray>>

--------------------------------------------------------------------------
(* slip_recv_packet.                                                       *)

\* Seeded fault: the size of the buffer is not looked at.
HasRoom_Always == TRUE

HasRoom == Len(p) < max_packet_size

\* What does not fit is cut off.
Store(is) == p' = IF HasRoom THEN Append(p, is) ELSE p

Unstuffed(is) == CASE is = ESC_END -> END [] is = ESC_ESC -> ESC
                   [] is \notin {ESC_END, ESC_ESC} -> is

\* What the receiver makes of a whole packet.
Cut(data) == SubSeq(data, 1, IF Len(data) < max_packet_size THEN Len(data)
                             ELSE max_packet_size)

\* b is the END behind packet k.
EndOf(k, b) == k # 0 /\ b.of = k /\ b.at > Len(sent[k])

\* The next round of the loop, in this call or the next one.
slip_recv_packet ==
    /\ c = NoByte /\ rx_buf # <<>> /\ rx_buf' = Tail(rx_buf)
    /\ LET b == Head(rx_buf)
       IN  \/ /\ b.is = END
              /\ arrived' = IF EndOf(b.of, b) /\ p = Cut(sent[b.of])
                            THEN arrived \cup {b.of} ELSE arrived
              /\ stray' = IF b.of # 0 /\ b.at = 0 /\ p # <<>>
                          THEN stray \cup {b.of} ELSE stray
              /\ p' = <<>>
              /\ UNCHANGED c
           \/ b.is = ESC /\ c' = b /\ UNCHANGED <<p, arrived, stray>>
           \/ b.is \notin {END, ESC} /\ Store(b.is) /\ UNCHANGED <<c, arrived, stray>>
    /\ UNCHANGED <<sent, next, tx_buf, noise, last, broken>>

\* The byte after an ESC is read at once.  When it is not there yet the read
\* fails, unnoticed, and leaves the ESC, which is stored.
Escaped ==
    /\ c # NoByte /\ c' = NoByte
    /\ \/ /\ rx_buf # <<>> /\ rx_buf' = Tail(rx_buf)
          /\ Store(Unstuffed(Head(rx_buf).is))
          /\ UNCHANGED broken
       \/ /\ rx_buf = <<>> /\ UNCHANGED rx_buf
          /\ Store(ESC)
          /\ broken' = broken \cup {c.of}
    /\ UNCHANGED <<sent, next, tx_buf, noise, last, arrived, stray>>

\* A call that finds nothing returns 0 and keeps what it has.
NothingYet == c = NoByte /\ rx_buf = <<>> /\ UNCHANGED vars

Next == slip_send_packet \/ slip_send_byte \/ Deliver \/ Lose \/ Disturb
            \/ slip_recv_packet \/ Escaped \/ NothingYet

Spec == Init /\ [][Next]_vars
--------------------------------------------------------------------------
Bytes == [of : 0 .. MaxPackets, at : Nat, half : 1 .. 2, is : Code]

\* Every variable keeps its type; rings and packet stay within their sizes.
TypeOK ==
    /\ sent \in Seq(Payloads) /\ Len(sent) <= MaxPackets
    /\ next \in Bytes
    /\ tx_buf \in Seq(Bytes) /\ Len(tx_buf) <= TxSize
    /\ rx_buf \in Seq(Bytes) /\ Len(rx_buf) <= RxSize
    /\ c \in Bytes /\ c.is \in {ESC, END}
    /\ p \in Seq(Code) /\ Len(p) <= max_packet_size
    /\ noise \in 0 .. MaxNoise /\ last \in Bytes
    /\ broken \subseteq 0 .. MaxPackets
    /\ arrived \cup stray \subseteq 1 .. MaxPackets

\* The END behind packet k has not been read.
OnTheWay(k) ==
    \/ next.of = k
    \/ \E i \in DOMAIN tx_buf : EndOf(k, tx_buf[i])
    \/ \E i \in DOMAIN rx_buf : EndOf(k, rx_buf[i])

\* A packet that arrives whole is returned as it was sent, cut to the size of
\* the buffer, whatever was lost, added or misread before it; and the END
\* before a packet gives the caller something only after noise or behind a
\* packet that did not arrive whole.
Confined ==
    /\ \A k \in 1 .. Len(sent) : k \in arrived \cup broken \/ OnTheWay(k)
    /\ \A k \in stray : noise > 0 \/ k - 1 \in broken
=============================================================================
