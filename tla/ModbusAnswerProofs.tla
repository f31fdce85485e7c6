------------------------- MODULE ModbusAnswerProofs -------------------------
(***************************************************************************)
(* Proofs that the Modbus slave sends whole answers and answers a request  *)
(* once.                                                                   *)
(***************************************************************************)
EXTENDS ModbusProofs

--------------------------------------------------------------------------
(* Whole answers.                                                          *)

\* What an answer that is being queued still needs has room, and is what
\* packet_buf holds unless another frame has ended.
CopyInv ==
    /\ answers \in Seq(1 .. Len(asks))
    /\ pc # "copy" => n = 0
    /\ pc = "copy" =>
           /\ answers # <<>> /\ Len(tx_buf) + (Size - n) <= TxSize
           /\ ~overlap => \A i \in 1 .. Size :
                  packet_buf[i] = AnswerByte(answers[Len(answers)], i)

Sent == wire \o tx_buf
Pos(a, i) == Size * (a - 1) + i

\* WholeAnswers in two parts.
LengthInv == Len(Sent) = Size * Len(answers) - (IF pc = "copy" THEN Size - n ELSE 0)
PlaceInv == ~overlap => \A a \in 1 .. Len(answers), i \in 1 .. Size :
                Pos(a, i) <= Len(Sent) => Sent[Pos(a, i)] = AnswerByte(answers[a], i)

LEMMA WholeParts == WholeAnswers <=> LengthInv /\ PlaceInv
    BY DEF WholeAnswers, LengthInv, PlaceInv, Sent, Pos

\* A byte moved from one sequence to the other leaves the two together alone.
LEMMA Moved ==
    ASSUME NEW S, NEW w \in Seq(S), NEW t \in Seq(S), t # <<>>
    PROVE  Append(w, Head(t)) \o Tail(t) = w \o t
<1>1. Append(w, Head(t)) \o Tail(t) \in Seq(S) /\ w \o t \in Seq(S)
    OBVIOUS
<1>2. Len(Append(w, Head(t)) \o Tail(t)) = Len(w \o t)
    OBVIOUS
<1>3. \A i \in 1 .. Len(w \o t) : (Append(w, Head(t)) \o Tail(t))[i] = (w \o t)[i]
    OBVIOUS
<1> QED
    BY <1>1, <1>2, <1>3

LEMMA Added ==
    ASSUME NEW S, NEW w \in Seq(S), NEW t \in Seq(S), NEW x \in S
    PROVE  /\ Len(w \o Append(t, x)) = Len(w \o t) + 1
           /\ (w \o Append(t, x))[Len(w \o t) + 1] = x
           /\ \A i \in 1 .. Len(w \o t) : (w \o Append(t, x))[i] = (w \o t)[i]
    OBVIOUS

\* Answers do not overlap.
LEMMA Places ==
    ASSUME NEW a \in Nat \ {0}, NEW b \in Nat, a <= b, NEW i \in 1 .. Size
    PROVE  /\ Pos(a, i) \in Nat \ {0} /\ Pos(a, i) <= Size * b
           /\ Size * (a - 1) \in Nat
<1>1. Size * (a - 1) \in Nat /\ Size * (b - a) \in Nat /\ Size * b \in Nat
    BY Sizes
<1>2. Size * b = Size * (a - 1) + Size + Size * (b - a)
    BY Sizes
<1> QED
    BY <1>1, <1>2, Sizes DEF Pos

LEMMA SamePlace ==
    ASSUME NEW m \in Nat \ {0}, NEW k \in 0 .. Size - 1,
           NEW a \in 1 .. m, NEW i \in 1 .. Size, Pos(a, i) = Size * (m - 1) + k + 1
    PROVE  a = m /\ i = k + 1
<1>1. CASE a = m
    <2>1. Size * (m - 1) \in Nat
        BY Sizes
    <2> QED
        BY <1>1, <2>1, Sizes DEF Pos
<1>2. CASE a < m
    <2>1. Pos(a, i) <= Size * (m - 1) /\ Pos(a, i) \in Nat
        BY <1>2, Places
    <2>2. Size * (m - 1) \in Nat
        BY Sizes
    <2> QED
        BY <2>1, <2>2, Sizes
<1> QED
    BY <1>1, <1>2

LEMMA SmallRemainder == \A k, s \in Nat : k < s => k % s = k
    OBVIOUS

LEMMA WholeStep ==
    IInv /\ CopyInv /\ LengthInv /\ PlaceInv /\ [Next]_vars
        => CopyInv' /\ LengthInv' /\ PlaceInv'
<1> SUFFICES ASSUME TypeOK, BytesInv, CopyInv, LengthInv, PlaceInv, [Next]_vars
             PROVE  CopyInv' /\ LengthInv' /\ PlaceInv'
    BY DEF IInv
<1> USE DEF stack, driver, task, usart, master, history
<1>0. asks' = asks => \A id, i : AnswerByte(id, i)' = AnswerByte(id, i)
    BY DEF AnswerByte
\* Most steps touch nothing of this.
<1>1. CASE /\ UNCHANGED <<asks, answers, wire, tx_buf, overlap, n>>
           /\ pc' = "copy" <=> pc = "copy"
           /\ pc = "copy" => packet_buf' = packet_buf
    <2>1. CopyInv'
        BY <1>0, <1>1 DEF CopyInv
    <2>2. LengthInv'
        BY <1>1 DEF LengthInv, Sent
    <2>3. PlaceInv'
        BY <1>0, <1>1 DEF PlaceInv, Sent
    <2> QED
        BY <2>1, <2>2, <2>3
<1>2. CASE Request
    <2>1. PICK q \in Requests[Len(asks) + 1] : asks' = Append(asks, q)
        BY <1>2 DEF Request
    <2>2. \A id \in 1 .. Len(asks) : asks'[id] = asks[id]
        BY <2>1 DEF TypeOK
    <2>3. \A id \in 1 .. Len(asks), i \in 1 .. Size : AnswerByte(id, i)' = AnswerByte(id, i)
        BY <2>2 DEF AnswerByte
    <2>4. answers \in Seq(1 .. Len(asks)) /\ \A a \in 1 .. Len(answers) : answers[a] \in 1 .. Len(asks)
        BY DEF CopyInv
    <2>5. CopyInv'
        <3>1. answers' \in Seq(1 .. Len(asks'))
            <4>1. 1 .. Len(asks) \subseteq 1 .. Len(asks')
                BY <2>1 DEF TypeOK
            <4> QED
                BY <1>2, <2>4, <4>1, SeqOfMore DEF Request
        <3>2. pc = "copy" => Len(answers) \in 1 .. Len(answers)
            BY <2>4 DEF CopyInv
        <3> QED
            BY <1>2, <2>3, <2>4, <3>1, <3>2 DEF Request, CopyInv
    <2>6. LengthInv'
        BY <1>2 DEF Request, LengthInv, Sent
    <2>7. PlaceInv'
        BY <1>2, <2>3, <2>4 DEF Request, PlaceInv, Sent
    <2> QED
        BY <2>5, <2>6, <2>7
<1>3. CASE Arrive \/ Silence \/ Shift
    BY <1>1, <1>3 DEF Arrive, Silence, Shift
<1>4. CASE xMBRTUReceiveFSM
    BY <1>1, <1>4 DEF xMBRTUReceiveFSM
<1>5. CASE xMBRTUTransmitFSM
    <2>1. UNCHANGED <<asks, answers, overlap, n, pc, packet_buf>>
        BY <1>5 DEF xMBRTUTransmitFSM
    <2>2. Sent' = Sent /\ (tx_buf' = tx_buf \/ (tx_buf # <<>> /\ tx_buf' = Tail(tx_buf)))
        <3>1. tx_buf \in Seq(Known) /\ wire \in Seq(Known)
            BY DEF BytesInv
        <3>2. CASE UNCHANGED <<tx_buf, wire>>
            <4>1. wire' = wire /\ tx_buf' = tx_buf
                BY <3>2
            <4>2. Sent' = Sent
                BY <4>1, Zenon DEF Sent
            <4> QED
                BY <4>1, <4>2
        <3>3. CASE /\ tx_buf # <<>> /\ tx_buf' = Tail(tx_buf)
                   /\ wire' = Append(wire, Head(tx_buf))
            BY <3>1, <3>3, Moved DEF Sent
        <3> QED
            BY <1>5, <3>2, <3>3 DEF xMBRTUTransmitFSM
    <2>3. Len(tx_buf') <= Len(tx_buf) /\ Len(tx_buf') \in Nat /\ Len(tx_buf) \in Nat
        BY <2>2, Queues DEF BytesInv
    <2>4. CopyInv'
        <3>1. pc = "copy" => Len(tx_buf') + (Size - n) <= TxSize
            BY <2>3, Sizes DEF CopyInv, TypeOK
        <3> QED
            BY <1>0, <2>1, <3>1 DEF CopyInv
    <2>5. LengthInv'
        BY <2>1, <2>2 DEF LengthInv
    <2>6. PlaceInv'
        BY <1>0, <2>1, <2>2 DEF PlaceInv
    <2> QED
        BY <2>4, <2>5, <2>6
<1>6. CASE xMBRTUTimerT35Expired
    <2>1. CASE packet_buf' = packet_buf /\ overlap' = overlap
        BY <1>1, <1>6, <2>1 DEF xMBRTUTimerT35Expired
    <2>2. CASE pc # "copy" /\ overlap' = overlap
        BY <1>1, <1>6, <2>2 DEF xMBRTUTimerT35Expired
    <2>3. CASE overlap'
        BY <1>6, <2>3 DEF xMBRTUTimerT35Expired, CopyInv, LengthInv, PlaceInv, Sent
    <2> QED
        BY <1>6, <2>1, <2>2, <2>3 DEF xMBRTUTimerT35Expired, TypeOK
<1>7. CASE PollBegin \/ xMBPortFrameReceived
    BY <1>1, <1>7 DEF PollBegin, xMBPortFrameReceived, Runs
<1>8. CASE eMBRTUReceive
    <2>1. pc = "receive" /\ pc' # "copy"
        BY <1>8, Polled DEF eMBRTUReceive, Runs
    <2> QED
        BY <1>1, <1>8, <2>1 DEF eMBRTUReceive
<1>9. CASE Execute
    BY <1>1, <1>9 DEF Execute, Runs
<1>10. CASE eMBRTUSend
    <2>0. pc = "send" /\ n = 0 /\ UNCHANGED <<asks, wire, tx_buf, overlap, n>> /\ Sent' = Sent
        BY <1>10 DEF eMBRTUSend, Runs, CopyInv, Sent
    <2>1. CASE ~TxRoom
        BY <1>1, <1>10, <2>0, <2>1 DEF eMBRTUSend
    <2>2. CASE TxRoom
        <3>1. pc' = "copy" /\ answers' = Append(answers, InBuffer)
            BY <1>10, <2>2 DEF eMBRTUSend
        <3>2. InBuffer \in 1 .. Len(asks) /\ answers \in Seq(1 .. Len(asks))
            BY <2>0, InBufferSent DEF CopyInv
        <3>3. /\ answers' \in Seq(1 .. Len(asks)) /\ answers' # <<>>
              /\ Len(answers) \in Nat /\ Len(answers') = Len(answers) + 1
              /\ answers'[Len(answers')] = InBuffer
              /\ \A a \in 1 .. Len(answers) : answers'[a] = answers[a]
            BY <3>1, <3>2
        <3>4. \A i \in 1 .. Size : packet_buf'[i] = AnswerByte(InBuffer, i)
            BY <1>10, Sizes DEF eMBRTUSend, Fill
        <3>5. Len(tx_buf) \in Nat /\ Len(tx_buf) + Size <= TxSize
            BY <2>2, Sizes DEF TypeOK, TxRoom
        <3>6. CopyInv'
            BY <1>0, <2>0, <3>1, <3>3, <3>4, <3>5, Sizes DEF CopyInv
        <3>7. Len(Sent) = Size * Len(answers) /\ Size * (Len(answers) + 1) = Size * Len(answers) + Size
              /\ Size * Len(answers) \in Nat
            BY <2>0, <3>3, Sizes DEF LengthInv
        <3>8. LengthInv'
            <4>1. Size * Len(answers') = Size * Len(answers) + Size
                BY <3>3, <3>7
            <4>2. Len(Sent') = Size * Len(answers') - Size
                BY <2>0, <3>7, <4>1, Sizes
            <4> QED
                BY <2>0, <3>1, <4>2, Sizes DEF LengthInv
        <3>9. PlaceInv'
            <4>1. ASSUME NEW i \in 1 .. Size PROVE Pos(Len(answers) + 1, i) > Len(Sent)
                BY <3>3, <3>7, Sizes DEF Pos
            <4> SUFFICES ASSUME ~overlap, NEW a \in 1 .. Len(answers'), NEW i \in 1 .. Size,
                                Pos(a, i) <= Len(Sent)
                         PROVE  Sent[Pos(a, i)] = AnswerByte(answers'[a], i)
                BY <1>0, <2>0 DEF PlaceInv
            <4>2. CASE a \in 1 .. Len(answers)
                BY <3>3, <4>2 DEF PlaceInv
            <4>3. CASE a = Len(answers) + 1
                <5>1. Pos(a, i) > Len(Sent) /\ Pos(a, i) \in Int /\ Len(Sent) \in Int
                    BY <3>7, <4>1, <4>3, Sizes DEF Pos
                <5> QED
                    BY <5>1
            <4> QED
                BY <3>3, <4>2, <4>3
        <3> QED
            BY <3>6, <3>8, <3>9
    <2> QED
        BY <2>1, <2>2
<1>11. CASE xMBPortSerialSendBuf
    <2> DEFINE m == Len(answers)
               x == packet_buf[n + 1]
    <2>0. /\ pc = "copy" /\ UNCHANGED <<asks, answers, wire, overlap, packet_buf>>
          /\ n \in 0 .. Size - 1 /\ Len(tx_buf) \in Nat /\ Len(tx_buf) + (Size - n) <= TxSize
          /\ answers \in Seq(1 .. Len(asks)) /\ m \in Nat \ {0}
        BY <1>11 DEF xMBPortSerialSendBuf, Runs, CopyInv, TypeOK
    <2>1. /\ tx_buf' = Append(tx_buf, x) /\ n' = (n + 1) % Size
          /\ pc' = IF n + 1 = Size THEN "xmit" ELSE "copy"
        BY <1>11, <2>0, Sizes DEF xMBPortSerialSendBuf, After
    <2>2. n' = IF n + 1 = Size THEN 0 ELSE n + 1
        <3>1. CASE n + 1 = Size
            BY <2>1, <3>1, Sizes
        <3>2. CASE n + 1 < Size
            <4>1. n + 1 \in Nat /\ Size \in Nat
                BY <2>0, Sizes
            <4>2. (n + 1) % Size = n + 1
                BY <3>2, <4>1, SmallRemainder
            <4> QED
                BY <2>1, <3>2, <4>2
        <3> QED
            BY <2>0, <3>1, <3>2, Sizes
    <2>3. wire \in Seq(Known) /\ tx_buf \in Seq(Known) /\ x \in Known
        BY <2>0, Sizes DEF BytesInv
    <2>4. /\ Len(Sent') = Len(Sent) + 1 /\ Sent'[Len(Sent) + 1] = x
          /\ \A i \in 1 .. Len(Sent) : Sent'[i] = Sent[i]
          /\ Len(Sent) \in Nat
        BY <2>0, <2>1, <2>3, Added DEF Sent
    <2>5. Len(Sent) = Size * m - (Size - n) /\ Size * m = Size * (m - 1) + Size
          /\ Size * (m - 1) \in Nat
        BY <2>0, Sizes DEF LengthInv
    <2>6. CopyInv'
        <3>1. Len(tx_buf') = Len(tx_buf) + 1
            BY <2>1, <2>3, Queues
        <3> QED
            BY <1>0, <2>0, <2>1, <2>2, <3>1, Sizes DEF CopyInv
    <2>7. LengthInv'
        <3> DEFINE P == Size * m
        <3>2. P \in Nat /\ Len(Sent) = P - (Size - n)
            BY <2>0, <2>5, Sizes
        <3> HIDE DEF P
        <3>3. Len(Sent') = P - (IF pc' = "copy" THEN Size - n' ELSE 0)
            BY <2>0, <2>1, <2>2, <2>4, <3>2, Sizes
        <3>1. Len(Sent') = Size * m - (IF pc' = "copy" THEN Size - n' ELSE 0)
            BY <3>3 DEF P
        <3> QED
            BY <2>0, <3>1 DEF LengthInv
    <2>8. PlaceInv'
        <3> SUFFICES ASSUME ~overlap, NEW a \in 1 .. m, NEW i \in 1 .. Size,
                            Pos(a, i) <= Len(Sent')
                     PROVE  Sent'[Pos(a, i)] = AnswerByte(answers[a], i)
            BY <1>0, <2>0 DEF PlaceInv
        <3>1. Pos(a, i) \in Nat \ {0}
            <4>1. a \in Nat \ {0} /\ m \in Nat /\ a <= m
                BY <2>0
            <4> QED
                BY <4>1, Places
        <3>2. CASE Pos(a, i) <= Len(Sent)
            BY <2>4, <3>1, <3>2 DEF PlaceInv
        <3>3. CASE Pos(a, i) = Len(Sent) + 1
            <4>1. Pos(a, i) = Size * (m - 1) + n + 1
                BY <2>0, <2>5, <3>3, Sizes
            <4>2. a = m /\ i = n + 1
                BY <2>0, <4>1, SamePlace
            <4> QED
                BY <2>0, <2>4, <3>3, <4>2 DEF CopyInv
        <3> QED
            BY <2>4, <3>1, <3>2, <3>3
    <2> QED
        BY <2>6, <2>7, <2>8
<1>12. CASE StartXmit \/ ReadCr1 \/ WriteCr1
    BY <1>1, <1>12 DEF StartXmit, ReadCr1, WriteCr1, After, Runs
<1>13. CASE eMBEnable \/ eMBDisable
    BY <1>1, <1>13 DEF eMBEnable, eMBDisable, Runs
<1>14. CASE UNCHANGED vars
    BY <1>1, <1>14 DEF vars
<1> QED
    BY <1>2, <1>3, <1>4, <1>5, <1>6, <1>7, <1>8, <1>9, <1>10, <1>11, <1>12,
       <1>13, <1>14 DEF Next, Bus, MB_USART_ISR_FN, eMBPoll

LEMMA InitWhole == Init => IInv /\ CopyInv /\ LengthInv /\ PlaceInv
<1> SUFFICES ASSUME Init PROVE IInv /\ CopyInv /\ LengthInv /\ PlaceInv
    OBVIOUS
<1>1. IInv
    BY InitTypes
<1>2. /\ wire = <<>> /\ tx_buf = <<>> /\ answers = <<>> /\ pc = "idle" /\ n = 0
    BY DEF Init
<1>3. Sent = <<>>
    BY <1>2 DEF Sent
<1> QED
    BY <1>1, <1>2, <1>3, Sizes DEF CopyInv, LengthInv, PlaceInv

\* An answer is queued whole or not at all and goes out whole and in order,
\* for frames and rings of any size.
THEOREM AnswersAreWhole == Spec => []WholeAnswers
<1> DEFINE WInv == IInv /\ CopyInv /\ LengthInv /\ PlaceInv
<1>1. Init => WInv
    BY InitWhole
<1>2. WInv /\ [Next]_vars => WInv'
    BY TypeStep, WholeStep
<1>3. WInv => WholeAnswers
    BY WholeParts
<1> QED
    BY <1>1, <1>2, <1>3, PTL DEF Spec

--------------------------------------------------------------------------
(* One answer.                                                             *)

\* b was sent before d.
Before(b, d) == b[1] < d[1] \/ (b[1] = d[1] /\ b[2] < d[2])

\* The bytes that are not in a packet yet.
Up == {rx_buf[i] : i \in 1 .. Len(rx_buf)} \cup {line[i] : i \in 1 .. Len(line)}
          \cup ({rdr} \ {NoByte})

\* Nothing of frame a, or of one before it, is still on its way.
Beyond(a) == \A b \in Up : b[1] > a

\* Bytes come in the order they were sent.
LineInv ==
    \A i \in 1 .. Len(line) :
        /\ line[i] = <<Len(asks), Size - Len(line) + i>>
        /\ rdr # NoByte => Before(rdr, line[i])
        /\ \A j \in 1 .. Len(rx_buf) : Before(rx_buf[j], line[i])
RingInv ==
    \A j \in 1 .. Len(rx_buf) :
        /\ rdr # NoByte => Before(rx_buf[j], rdr)
        /\ \A k \in 1 .. Len(rx_buf) : j < k => Before(rx_buf[j], rx_buf[k])
OrderInv == LineInv /\ RingInv

\* A frame that is answered, executed or waiting in packet_buf is complete,
\* and later than all that were answered before.
AnsweredInv ==
    /\ \A i, j \in 1 .. Len(answers) : i < j => answers[i] < answers[j]
    /\ \A i \in 1 .. Len(answers) :
           asks[answers[i]].to = "us" /\ Beyond(answers[i])
NewFrame(id) == Beyond(id) /\ \A i \in 1 .. Len(answers) : answers[i] < id
WaitingInv ==
    /\ FrameRcvFlag => pc \in {"idle", "clear"}
    /\ FrameRcvFlag \/ pc \in {"clear", "receive"} =>
           \A id \in 1 .. Len(asks) : Packet = Frame(id) => NewFrame(id)
WorkInv ==
    pc \in {"execute", "broadcast", "send"} =>
        /\ NewFrame(InBuffer)
        /\ asks[InBuffer].to = IF pc = "broadcast" THEN "all" ELSE "us"
RegsInv ==
    \A a \in DOMAIN regs : regs[a] # 0 =>
        /\ regs[a] \in 1 .. Len(asks)
        /\ a \in Written(asks[regs[a]]) /\ asks[regs[a]].to # "other"
OnceInv == ~overlap => AnsweredInv /\ WaitingInv /\ WorkInv /\ RegsInv

LEMMA OrderStep == IInv /\ OrderInv /\ [Next]_vars => OrderInv'
<1> SUFFICES ASSUME TypeOK, BytesInv, OrderInv, [Next]_vars PROVE OrderInv'
    BY DEF IInv
<1> USE DEF stack, driver, task, usart, master, history
<1>0. /\ line \in Seq(Received) /\ rx_buf \in Seq(Received)
      /\ Len(line) \in Nat /\ Len(rx_buf) \in Nat /\ Len(asks) \in Nat
      /\ rdr \in Received \cup {NoByte}
    BY DEF BytesInv, TypeOK
<1>1. CASE UNCHANGED <<asks, line, rx_buf, rdr>>
    BY <1>1 DEF OrderInv, LineInv, RingInv
<1>2. CASE Request
    <2>1. PICK q \in Requests[Len(asks) + 1] : asks' = Append(asks, q)
        BY <1>2 DEF Request
    <2>2. Len(asks') = Len(asks) + 1
        BY <2>1 DEF TypeOK
    <2>3. /\ Len(line') = Size /\ \A i \in 1 .. Size : line'[i] = <<Len(asks) + 1, i>>
          /\ UNCHANGED <<rx_buf, rdr>>
        BY <1>2, Sizes DEF Request, Frame
    <2>4. \A b \in Received : b[1] < Len(asks) + 1
        BY <1>0 DEF Received
    <2>5. LineInv'
        <3> SUFFICES ASSUME NEW i \in 1 .. Len(line')
                     PROVE  /\ line'[i] = <<Len(asks'), Size - Len(line') + i>>
                            /\ rdr' # NoByte => Before(rdr', line'[i])
                            /\ \A j \in 1 .. Len(rx_buf') : Before(rx_buf'[j], line'[i])
            BY DEF LineInv
        <3>1. line'[i] = <<Len(asks) + 1, i>> /\ i = Size - Len(line') + i
            BY <2>3, Sizes
        <3>2. \A b \in Received : Before(b, line'[i])
            BY <2>4, <3>1 DEF Before
        <3>3. \A j \in 1 .. Len(rx_buf') : rx_buf'[j] \in Received
            BY <1>0, <2>3
        <3> QED
            BY <1>0, <2>2, <2>3, <3>1, <3>2, <3>3
    <2>6. RingInv'
        BY <2>3 DEF OrderInv, RingInv
    <2> QED
        BY <2>5, <2>6 DEF OrderInv
<1>3. CASE Arrive
    <2>1. /\ Len(line') = Len(line) - 1 /\ \A i \in 1 .. Len(line') : line'[i] = line[i + 1]
          /\ line # <<>> /\ Head(line) = line[1] /\ Len(line) >= 1
          /\ UNCHANGED <<asks, rx_buf>>
        BY <1>0, <1>3 DEF Arrive
    <2>2. rdr' = rdr \/ rdr' = line[1]
        BY <1>3, <2>1 DEF Arrive
    <2>3. LineInv'
        <3> SUFFICES ASSUME NEW i \in 1 .. Len(line')
                     PROVE  /\ line'[i] = <<Len(asks), Size - Len(line') + i>>
                            /\ rdr' # NoByte => Before(rdr', line'[i])
                            /\ \A j \in 1 .. Len(rx_buf) : Before(rx_buf[j], line'[i])
            BY <2>1 DEF LineInv
        <3>1. i + 1 \in 1 .. Len(line) /\ 1 \in 1 .. Len(line) /\ line'[i] = line[i + 1]
              /\ Len(line) = Len(line') + 1
            BY <1>0, <2>1
        <3>2. line[i + 1] = <<Len(asks), Size - Len(line) + (i + 1)>>
              /\ line[1] = <<Len(asks), Size - Len(line) + 1>>
            BY <3>1 DEF OrderInv, LineInv
        <3>3. Before(line[1], line[i + 1])
            BY <1>0, <3>1, <3>2, Sizes DEF Before
        <3>4. Size - Len(line) + (i + 1) = Size - Len(line') + i
            BY <1>0, <2>1, Sizes
        <3> QED
            BY <2>2, <3>1, <3>2, <3>3, <3>4 DEF OrderInv, LineInv
    <2>4. RingInv'
        BY <1>0, <2>1, <2>2 DEF OrderInv, LineInv, RingInv
    <2> QED
        BY <2>3, <2>4 DEF OrderInv
<1>4. CASE xMBRTUReceiveFSM
    <2>1. UNCHANGED <<asks, line>> /\ (rdr = NoByte => UNCHANGED <<rx_buf, rdr>>)
        BY <1>4 DEF xMBRTUReceiveFSM
    <2>2. CASE rdr = NoByte
        BY <1>1, <2>1, <2>2
    <2>3. CASE rdr # NoByte
        <3>1. rdr' = NoByte /\ rx_buf' \in {rx_buf, <<>>, Append(rx_buf, rdr)}
            BY <1>4, <2>3 DEF xMBRTUReceiveFSM
        <3>2. CASE rx_buf' = rx_buf \/ rx_buf' = <<>>
            BY <2>1, <3>1, <3>2 DEF OrderInv, LineInv, RingInv
        <3>3. CASE rx_buf' = Append(rx_buf, rdr)
            <4>1. /\ Len(rx_buf') = Len(rx_buf) + 1 /\ rx_buf'[Len(rx_buf) + 1] = rdr
                  /\ \A j \in 1 .. Len(rx_buf) : rx_buf'[j] = rx_buf[j]
                BY <1>0, <3>3
            <4>2. \A j \in 1 .. Len(rx_buf') : j \in 1 .. Len(rx_buf) \/ j = Len(rx_buf) + 1
                BY <1>0, <4>1
            <4>3. LineInv'
                BY <2>1, <2>3, <3>1, <4>1, <4>2 DEF OrderInv, LineInv
            <4>4. RingInv'
                <5> SUFFICES ASSUME NEW j \in 1 .. Len(rx_buf'), NEW k \in 1 .. Len(rx_buf'), j < k
                             PROVE  Before(rx_buf'[j], rx_buf'[k])
                    BY <3>1 DEF RingInv
                <5>1. j \in 1 .. Len(rx_buf)
                    BY <1>0, <4>1
                <5>2. CASE k \in 1 .. Len(rx_buf)
                    BY <4>1, <5>1, <5>2 DEF OrderInv, RingInv
                <5>3. CASE k = Len(rx_buf) + 1
                    BY <2>3, <4>1, <5>1, <5>3 DEF OrderInv, RingInv
                <5> QED
                    BY <4>2, <5>2, <5>3
            <4> QED
                BY <4>3, <4>4 DEF OrderInv
        <3> QED
            BY <3>1, <3>2, <3>3
    <2> QED
        BY <2>2, <2>3
<1>5. CASE xMBRTUTimerT35Expired
    <2>1. UNCHANGED <<asks, line, rdr>> /\ (rx_buf' = rx_buf \/ rx_buf' = <<>>)
        BY <1>5 DEF xMBRTUTimerT35Expired
    <2> QED
        BY <2>1 DEF OrderInv, LineInv, RingInv
<1>6. CASE Silence \/ Shift \/ xMBRTUTransmitFSM \/ UNCHANGED vars
    BY <1>1, <1>6 DEF Silence, Shift, xMBRTUTransmitFSM, vars
<1>7. CASE PollBegin \/ xMBPortFrameReceived \/ eMBRTUReceive \/ Execute \/ eMBRTUSend
    BY <1>1, <1>7 DEF PollBegin, xMBPortFrameReceived, eMBRTUReceive, Execute, eMBRTUSend
<1>8. CASE \/ xMBPortSerialSendBuf \/ StartXmit \/ ReadCr1 \/ WriteCr1
           \/ eMBEnable \/ eMBDisable
    BY <1>1, <1>8 DEF xMBPortSerialSendBuf, StartXmit, ReadCr1, WriteCr1, eMBEnable, eMBDisable
<1> QED
    BY <1>2, <1>3, <1>4, <1>5, <1>6, <1>7, <1>8 DEF Next, Bus, MB_USART_ISR_FN, eMBPoll

\* What is still on its way was on its way before, or belongs to a new frame.
LEMMA BeyondStays ==
    ASSUME TypeOK, BytesInv, [Next]_vars, NEW a \in 0 .. Len(asks), Beyond(a)
    PROVE  Beyond(a)'
<1> USE DEF stack, driver, task, usart, master, history
<1>0. /\ line \in Seq(Received) /\ rx_buf \in Seq(Received)
      /\ Len(line) \in Nat /\ Len(rx_buf) \in Nat /\ Len(asks) \in Nat
    BY DEF BytesInv, TypeOK
<1>1. CASE Up' \subseteq Up
    BY <1>1 DEF Beyond
<1>2. CASE UNCHANGED <<line, rx_buf, rdr>>
    <2>1. Up' = Up
        BY <1>2 DEF Up
    <2> QED
        BY <1>1, <2>1
<1>3. CASE Request
    <2>1. /\ Len(line') = Size /\ \A i \in 1 .. Size : line'[i] = <<Len(asks) + 1, i>>
          /\ UNCHANGED <<rx_buf, rdr>>
        BY <1>3, Sizes DEF Request, Frame
    <2>2. \A b \in Up' : b \in Up \/ b[1] = Len(asks) + 1
        BY <2>1 DEF Up
    <2> QED
        BY <1>0, <2>2 DEF Beyond
<1>4. CASE Arrive
    <2>1. /\ Len(line') = Len(line) - 1 /\ \A i \in 1 .. Len(line') : line'[i] = line[i + 1]
          /\ Len(line) >= 1 /\ rx_buf' = rx_buf /\ (rdr' = rdr \/ rdr' = line[1])
        BY <1>0, <1>4 DEF Arrive
    <2>2. /\ \A i \in 1 .. Len(line') : i + 1 \in 1 .. Len(line)
          /\ 1 \in 1 .. Len(line)
        BY <1>0, <2>1
    <2>3. Up' \subseteq Up
        BY <2>1, <2>2 DEF Up
    <2> QED
        BY <1>1, <2>3
<1>5. CASE xMBRTUReceiveFSM
    <2>1. /\ line' = line
          /\ \/ UNCHANGED <<rx_buf, rdr>>
             \/ rdr' = NoByte /\ rx_buf' \in {rx_buf, <<>>}
             \/ rdr # NoByte /\ rdr' = NoByte /\ rx_buf' = Append(rx_buf, rdr)
        BY <1>5 DEF xMBRTUReceiveFSM
    <2>2. CASE rx_buf' \in {rx_buf, <<>>} /\ rdr' \in {rdr, NoByte}
        <3>1. Up' \subseteq Up
            BY <2>1, <2>2 DEF Up
        <3> QED
            BY <1>1, <3>1
    <2>3. CASE rdr # NoByte /\ rdr' = NoByte /\ rx_buf' = Append(rx_buf, rdr)
        <3>1. /\ Len(rx_buf') = Len(rx_buf) + 1 /\ rx_buf'[Len(rx_buf) + 1] = rdr
              /\ \A j \in 1 .. Len(rx_buf) : rx_buf'[j] = rx_buf[j]
            BY <1>0, <2>3 DEF BytesInv
        <3>2. \A j \in 1 .. Len(rx_buf') : j \in 1 .. Len(rx_buf) \/ j = Len(rx_buf) + 1
            BY <1>0, <3>1
        <3>3. \A j \in 1 .. Len(rx_buf') : rx_buf'[j] \in Up
            BY <2>3, <3>1, <3>2 DEF Up
        <3>4. Up' \subseteq Up
            BY <2>1, <2>3, <3>3 DEF Up
        <3> QED
            BY <1>1, <3>4
    <2> QED
        BY <2>1, <2>2, <2>3
<1>6. CASE xMBRTUTimerT35Expired
    <2>1. UNCHANGED <<line, rdr>> /\ (rx_buf' = rx_buf \/ rx_buf' = <<>>)
        BY <1>6 DEF xMBRTUTimerT35Expired
    <2>2. Up' \subseteq Up
        BY <2>1 DEF Up
    <2> QED
        BY <1>1, <2>2
<1>7. CASE Silence \/ Shift \/ xMBRTUTransmitFSM \/ UNCHANGED vars
    BY <1>2, <1>7 DEF Silence, Shift, xMBRTUTransmitFSM, vars
<1>8. CASE PollBegin \/ xMBPortFrameReceived \/ eMBRTUReceive \/ Execute \/ eMBRTUSend
    BY <1>2, <1>8 DEF PollBegin, xMBPortFrameReceived, eMBRTUReceive, Execute, eMBRTUSend
<1>9. CASE \/ xMBPortSerialSendBuf \/ StartXmit \/ ReadCr1 \/ WriteCr1
           \/ eMBEnable \/ eMBDisable
    BY <1>2, <1>9 DEF xMBPortSerialSendBuf, StartXmit, ReadCr1, WriteCr1, eMBEnable, eMBDisable
<1> QED
    BY <1>3, <1>4, <1>5, <1>6, <1>7, <1>8, <1>9 DEF Next, Bus, MB_USART_ISR_FN, eMBPoll

\* A frame that has just been put in packet_buf is complete and new.
LEMMA PacketIsNew ==
    ASSUME TypeOK, BytesInv, CopyInv, OrderInv, AnsweredInv, [Next]_vars,
           xMBRTUTimerT35Expired, rtof, eRcvState = "RCV",
           NEW id \in 1 .. Len(asks), Packet' = Frame(id)
    PROVE  Beyond(id)' /\ \A i \in 1 .. Len(answers) : answers[i] < id
<1>1. /\ packet_size' = Len(rx_buf)
      /\ packet_buf' = [i \in 1 .. RxSize |->
             IF i <= Len(rx_buf) THEN rx_buf[i] ELSE packet_buf[i]]
    BY DEF xMBRTUTimerT35Expired
<1>2. Len(rx_buf) \in 0 .. RxSize /\ rx_buf \in Seq(Received) /\ line \in Seq(Received)
    BY Sizes DEF TypeOK, BytesInv
<1>3. DOMAIN (Packet') = 1 .. Len(rx_buf) /\ DOMAIN Frame(id) = 1 .. Size
    BY <1>1 DEF Packet, Frame
<1>4. Len(rx_buf) = Size
    BY <1>2, <1>3, Sizes
<1>5. \A i \in 1 .. Size : rx_buf[i] = <<id, i>>
    <2> SUFFICES ASSUME NEW i \in 1 .. Size PROVE rx_buf[i] = <<id, i>>
        OBVIOUS
    <2>1. (Packet')[i] = packet_buf'[i]
        BY <1>1, <1>4 DEF Packet
    <2>2. packet_buf'[i] = rx_buf[i]
        BY <1>1, <1>4, Sizes
    <2>3. Frame(id)[i] = <<id, i>>
        BY DEF Frame
    <2> QED
        BY <2>1, <2>2, <2>3
<1>6. \A b \in Received : Before(<<id, Size>>, b) => b[1] > id
    <2> SUFFICES ASSUME NEW b \in Received, Before(<<id, Size>>, b) PROVE b[1] > id
        OBVIOUS
    <2>1. b[1] \in Int /\ b[2] \in 1 .. Size
        BY DEF Received
    <2> QED
        BY <2>1, Sizes DEF Before
<1>7. ASSUME NEW b \in Up' PROVE b[1] > id
    <2>1. /\ rx_buf' = <<>> /\ line' = line /\ rdr' = rdr
        BY DEF xMBRTUTimerT35Expired, master
    <2>2. Size \in 1 .. Len(rx_buf)
        BY <1>4, Sizes
    <2>3. CASE b = rdr /\ rdr # NoByte
        <3>1. rdr \in Received
            BY <2>3 DEF BytesInv
        <3>2. Before(<<id, Size>>, rdr)
            BY <1>5, <2>2, <2>3, Sizes DEF OrderInv, RingInv
        <3> QED
            BY <1>6, <2>3, <3>1, <3>2
    <2>4. CASE \E i \in 1 .. Len(line) : b = line[i]
        <3>1. PICK i \in 1 .. Len(line) : b = line[i]
            BY <2>4
        <3>2. line[i] \in Received
            BY <1>2
        <3>3. Before(<<id, Size>>, line[i])
            <4>1. Before(rx_buf[Size], line[i])
                BY <2>2 DEF OrderInv, LineInv
            <4>2. rx_buf[Size] = <<id, Size>>
                BY <1>5, Sizes
            <4> QED
                BY <4>1, <4>2
        <3> QED
            BY <1>6, <3>1, <3>2, <3>3
    <2> QED
        BY <2>1, <2>3, <2>4 DEF Up
<1>8. ASSUME NEW i \in 1 .. Len(answers) PROVE answers[i] < id
    <2>1. rx_buf[1] \in Up /\ rx_buf[1] = <<id, 1>>
        BY <1>4, <1>5, Sizes DEF Up
    <2>2. Beyond(answers[i])
        BY DEF AnsweredInv
    <2>3. answers[i] \in Int
        BY DEF CopyInv
    <2> QED
        BY <2>1, <2>2, <2>3 DEF Beyond
<1> QED
    BY <1>7, <1>8 DEF Beyond

LEMMA OnceStep == IInv /\ CopyInv /\ OrderInv /\ OnceInv /\ [Next]_vars => OnceInv'
<1> SUFFICES ASSUME TypeOK, BytesInv, CopyInv, OrderInv, OnceInv, [Next]_vars, ~overlap'
             PROVE  AnsweredInv' /\ WaitingInv' /\ WorkInv' /\ RegsInv'
    BY DEF IInv, OnceInv
<1> USE DEF stack, driver, task, usart, master, history
<1>0. /\ answers \in Seq(1 .. Len(asks)) /\ Len(asks) \in Nat
      /\ \A i \in 1 .. Len(answers) : answers[i] \in 1 .. Len(asks)
    BY DEF CopyInv, TypeOK
<1>a. \A a \in 0 .. Len(asks) : Beyond(a) => Beyond(a)'
    BY BeyondStays
\* What was answered stays answered in order.
<1>b. ASSUME AnsweredInv, UNCHANGED <<asks, answers>> PROVE AnsweredInv'
    BY <1>0, <1>a, <1>b DEF AnsweredInv
<1>c. ASSUME NEW id \in 0 .. Len(asks), NewFrame(id), UNCHANGED answers PROVE NewFrame(id)'
    BY <1>a, <1>c DEF NewFrame
<1>d. InBuffer \in 0 .. Len(asks)
    BY InBufferSent
<1>1. CASE UNCHANGED <<asks, answers, regs, packet_buf, packet_size, FrameRcvFlag, pc, overlap>>
    <2>1. AnsweredInv /\ WaitingInv /\ WorkInv /\ RegsInv
        BY <1>1 DEF OnceInv
    <2>2. Packet' = Packet /\ InBuffer' = InBuffer
        BY <1>1 DEF Packet, InBuffer
    <2>3. WaitingInv'
        BY <1>1, <1>c, <2>1, <2>2 DEF WaitingInv
    <2>4. WorkInv'
        BY <1>1, <1>c, <1>d, <2>1, <2>2 DEF WorkInv
    <2>5. RegsInv'
        BY <1>1, <2>1 DEF RegsInv
    <2> QED
        BY <1>1, <1>b, <2>1, <2>3, <2>4, <2>5
\* The steps that queue an answer.
<1>2. CASE /\ pc \in {"copy", "xmit", "read", "write"}
           /\ pc' \in {"copy", "xmit", "read", "write", "idle"}
           /\ UNCHANGED <<asks, answers, regs, packet_buf, packet_size, FrameRcvFlag, overlap>>
    <2>1. AnsweredInv /\ WaitingInv /\ RegsInv
        BY <1>2 DEF OnceInv
    <2>2. WaitingInv' /\ WorkInv'
        BY <1>2, <2>1 DEF WaitingInv, WorkInv
    <2>3. RegsInv'
        BY <1>2, <2>1 DEF RegsInv
    <2> QED
        BY <1>2, <1>b, <2>1, <2>2, <2>3
<1>3. CASE Request
    <2>1. PICK q \in Requests[Len(asks) + 1] : asks' = Append(asks, q)
        BY <1>3 DEF Request
    <2>2. /\ \A id \in 1 .. Len(asks) : asks'[id] = asks[id]
          /\ Len(asks') = Len(asks) + 1
        BY <2>1 DEF TypeOK
    <2>3. UNCHANGED <<answers, regs, packet_buf, packet_size, FrameRcvFlag, pc, overlap>>
        BY <1>3 DEF Request
    <2>4. AnsweredInv /\ WaitingInv /\ WorkInv /\ RegsInv
        BY <2>3 DEF OnceInv
    <2>5. Packet' = Packet /\ InBuffer' = InBuffer
        BY <2>3 DEF Packet, InBuffer
    <2>6. AnsweredInv'
        <3>1. \A i \in 1 .. Len(answers) :
                  /\ asks'[answers[i]] = asks[answers[i]]
                  /\ answers[i] \in 0 .. Len(asks)
            BY <1>0, <2>2
        <3>2. \A i \in 1 .. Len(answers) : \A d \in Up' : d[1] > answers[i]
            BY <1>a, <2>4, <3>1 DEF AnsweredInv, Beyond
        <3> QED
            BY <2>3, <2>4, <3>1, <3>2 DEF AnsweredInv, Beyond
    <2>7. Packet # Frame(Len(asks) + 1)
        <3> SUFFICES ASSUME Packet = Frame(Len(asks) + 1) PROVE FALSE
            OBVIOUS
        <3>1. packet_size \in 0 .. RxSize /\ Packet[1] = <<Len(asks) + 1, 1>> /\ 1 \in DOMAIN Packet
            BY Sizes DEF Frame, TypeOK
        <3>2. packet_buf[1] = <<Len(asks) + 1, 1>>
            BY <3>1 DEF Packet
        <3>3. packet_buf[1] \in Known
            BY Sizes DEF BytesInv
        <3> QED
            BY <1>0, <3>2, <3>3 DEF Known, NoByte
    <2>8. WaitingInv'
        <3>1. \A id \in 1 .. Len(asks') : id \in 1 .. Len(asks) \/ id = Len(asks) + 1
            BY <1>0, <2>2
        <3> QED
            BY <1>c, <2>3, <2>4, <2>5, <2>7, <3>1 DEF WaitingInv, Frame
    <2>9. WorkInv'
        <3>1. pc \in {"execute", "broadcast", "send"} => InBuffer \in 1 .. Len(asks)
            BY InBufferSent
        <3> QED
            BY <1>c, <1>d, <2>2, <2>3, <2>4, <2>5, <3>1 DEF WorkInv
    <2>10. RegsInv'
        <3> SUFFICES ASSUME NEW a \in DOMAIN regs, regs[a] # 0
                     PROVE  /\ regs[a] \in 1 .. Len(asks')
                            /\ a \in Written(asks'[regs[a]]) /\ asks'[regs[a]].to # "other"
            BY <2>3 DEF RegsInv
        <3>1. /\ regs[a] \in 1 .. Len(asks)
              /\ a \in Written(asks[regs[a]]) /\ asks[regs[a]].to # "other"
            BY <2>4 DEF RegsInv
        <3> QED
            BY <1>0, <2>2, <3>1
    <2> QED
        BY <2>6, <2>8, <2>9, <2>10
<1>4. CASE Arrive \/ Silence \/ Shift
    BY <1>1, <1>4 DEF Arrive, Silence, Shift
<1>5. CASE xMBRTUReceiveFSM \/ xMBRTUTransmitFSM
    BY <1>1, <1>5 DEF xMBRTUReceiveFSM, xMBRTUTransmitFSM
<1>6. CASE xMBRTUTimerT35Expired
    <2>1. CASE ~(rtof /\ eRcvState = "RCV")
        BY <1>1, <1>6, <2>1 DEF xMBRTUTimerT35Expired
    <2>2. CASE rtof /\ eRcvState = "RCV"
        <3>1. /\ UNCHANGED <<asks, answers, regs, pc>> /\ FrameRcvFlag' = TRUE
              /\ ~overlap /\ pc \in {"idle", "clear"}
            BY <1>6, <2>2 DEF xMBRTUTimerT35Expired
        <3>2. AnsweredInv /\ RegsInv
            BY <3>1 DEF OnceInv
        <3>3. \A id \in 1 .. Len(asks) : Packet' = Frame(id) => NewFrame(id)'
            BY <1>6, <2>2, <3>1, <3>2, PacketIsNew DEF NewFrame
        <3>4. WaitingInv'
            BY <3>1, <3>3 DEF WaitingInv, Frame
        <3>5. WorkInv' /\ RegsInv'
            BY <3>1, <3>2 DEF WorkInv, RegsInv
        <3> QED
            BY <1>b, <3>1, <3>2, <3>4, <3>5
    <2> QED
        BY <2>1, <2>2
<1>7. CASE PollBegin
    <2>1. /\ UNCHANGED <<asks, answers, regs, packet_buf, packet_size, FrameRcvFlag, overlap>>
          /\ pc' = "clear" /\ FrameRcvFlag
        BY <1>7 DEF PollBegin
    <2>2. AnsweredInv /\ WaitingInv /\ RegsInv
        BY <2>1 DEF OnceInv
    <2>3. Packet' = Packet
        BY <2>1 DEF Packet
    <2>4. WaitingInv'
        BY <1>c, <2>1, <2>2, <2>3 DEF WaitingInv, Frame
    <2>5. WorkInv' /\ RegsInv'
        BY <2>1, <2>2 DEF WorkInv, RegsInv
    <2> QED
        BY <1>b, <2>1, <2>2, <2>4, <2>5
<1>8. CASE xMBPortFrameReceived
    <2>1. /\ UNCHANGED <<asks, answers, regs, packet_buf, packet_size, overlap>>
          /\ pc = "clear" /\ pc' = "receive" /\ FrameRcvFlag' = FALSE
        BY <1>8 DEF xMBPortFrameReceived, Runs
    <2>2. AnsweredInv /\ WaitingInv /\ RegsInv
        BY <2>1 DEF OnceInv
    <2>3. Packet' = Packet
        BY <2>1 DEF Packet
    <2>4. WaitingInv'
        BY <1>c, <2>1, <2>2, <2>3 DEF WaitingInv, Frame
    <2>5. WorkInv' /\ RegsInv'
        BY <2>1, <2>2 DEF WorkInv, RegsInv
    <2> QED
        BY <1>b, <2>1, <2>2, <2>4, <2>5
<1>9. CASE eMBRTUReceive
    <2>1. /\ UNCHANGED <<asks, answers, regs, packet_buf, packet_size, FrameRcvFlag, overlap>>
          /\ pc = "receive"
        BY <1>9 DEF eMBRTUReceive, Runs
    <2>2. AnsweredInv /\ WaitingInv /\ RegsInv /\ ~FrameRcvFlag
        BY <2>1 DEF OnceInv, WaitingInv
    <2>3. RegsInv'
        BY <2>1, <2>2 DEF RegsInv
    <2>4. CASE pc' = "idle"
        <3>1. WaitingInv' /\ WorkInv'
            BY <2>1, <2>2, <2>4 DEF WaitingInv, WorkInv
        <3> QED
            BY <1>b, <2>1, <2>2, <2>3, <3>1
    <2>5. CASE \E id \in 1 .. Len(asks) :
                  /\ Packet = Frame(id) /\ packet_buf[1] = <<id, 1>>
                  /\ \/ pc' = "execute" /\ asks[id].to = "us"
                     \/ pc' = "broadcast" /\ asks[id].to = "all"
        <3>1. PICK id \in 1 .. Len(asks) :
                  /\ Packet = Frame(id) /\ packet_buf[1] = <<id, 1>>
                  /\ \/ pc' = "execute" /\ asks[id].to = "us"
                     \/ pc' = "broadcast" /\ asks[id].to = "all"
            BY <2>5
        <3>2. InBuffer' = id /\ id \in 0 .. Len(asks)
            BY <1>0, <2>1, <3>1 DEF InBuffer
        <3>3. NewFrame(id)
            BY <2>1, <2>2, <3>1 DEF WaitingInv
        <3>4. NewFrame(id)'
            BY <1>c, <2>1, <3>2, <3>3
        <3>5. NewFrame(InBuffer)'
            BY <3>2, <3>4 DEF NewFrame, Beyond
        <3>6. WorkInv'
            BY <2>1, <3>1, <3>2, <3>5 DEF WorkInv
        <3>7. WaitingInv'
            BY <2>1, <2>2, <3>1 DEF WaitingInv
        <3> QED
            BY <1>b, <2>1, <2>2, <2>3, <3>6, <3>7
    <2> QED
        BY <1>9, <2>4, <2>5, Polled
<1>10. CASE Execute
    <2>1. /\ UNCHANGED <<asks, answers, packet_size, FrameRcvFlag, overlap>>
          /\ \/ pc = "execute" /\ pc' = "send"
             \/ pc = "broadcast" /\ pc' = "idle"
        BY <1>10 DEF Execute, Runs
    <2>2. AnsweredInv /\ WaitingInv /\ WorkInv /\ RegsInv /\ ~FrameRcvFlag
        BY <2>1 DEF OnceInv, WaitingInv
    <2>3. InBuffer \in 1 .. Len(asks)
        BY <2>1, InBufferSent
    <2>4. NewFrame(InBuffer) /\ asks[InBuffer].to = IF pc = "broadcast" THEN "all" ELSE "us"
        BY <2>1, <2>2 DEF WorkInv
    <2>5. WaitingInv'
        BY <2>1, <2>2 DEF WaitingInv
    <2>6. InBuffer' = InBuffer
        <3>1. CASE packet_buf' = packet_buf
            BY <3>1 DEF InBuffer
        <3>2. CASE Fill(InBuffer)
            <4>1. packet_buf'[1] = AnswerByte(InBuffer, 1)
                BY <3>2, Sizes DEF Fill
            <4>2. packet_buf'[1][1] = InBuffer \/ packet_buf'[1][1] = -InBuffer
                BY <4>1 DEF AnswerByte
            <4> DEFINE b == InBuffer
            <4>3. b \in 1 .. Len(asks) /\ (packet_buf'[1][1] = b \/ packet_buf'[1][1] = -b)
                BY <2>3, <4>2
            <4> HIDE DEF b
            <4>4. InBuffer' = b
                BY <1>0, <4>3 DEF InBuffer
            <4> QED
                BY <4>4 DEF b
        <3> QED
            BY <1>10, <3>1, <3>2 DEF Execute
    <2>7. WorkInv'
        <3>1. NewFrame(InBuffer)'
            <4>1. \A id : id = InBuffer => NewFrame(id)'
                BY <1>c, <1>d, <2>1, <2>4
            <4> QED
                BY <2>6, <4>1 DEF NewFrame, Beyond
        <3> QED
            BY <2>1, <2>4, <2>6, <3>1 DEF WorkInv
    <2>8. RegsInv'
        <3>1. regs' = [a \in DOMAIN regs |->
                         IF a \in Written(asks[InBuffer]) THEN InBuffer ELSE regs[a]]
            BY <1>10 DEF Execute
        <3>2. asks[InBuffer].to # "other"
            BY <2>4
        <3> SUFFICES ASSUME NEW a \in DOMAIN regs, regs'[a] # 0
                     PROVE  /\ regs'[a] \in 1 .. Len(asks)
                            /\ a \in Written(asks[regs'[a]]) /\ asks[regs'[a]].to # "other"
            BY <2>1, <3>1 DEF RegsInv
        <3>3. CASE a \in Written(asks[InBuffer])
            BY <2>3, <3>1, <3>2, <3>3
        <3>4. CASE a \notin Written(asks[InBuffer])
            BY <2>2, <3>1, <3>4 DEF RegsInv
        <3> QED
            BY <3>3, <3>4
    <2> QED
        BY <1>b, <2>1, <2>2, <2>5, <2>7, <2>8
<1>11. CASE eMBRTUSend
    <2>1. /\ UNCHANGED <<asks, regs, FrameRcvFlag, overlap>>
          /\ pc = "send" /\ pc' \in {"copy", "idle"}
          /\ answers' \in {answers, Append(answers, InBuffer)}
        BY <1>11 DEF eMBRTUSend, Runs
    <2>2. AnsweredInv /\ WaitingInv /\ WorkInv /\ RegsInv /\ ~FrameRcvFlag
        BY <2>1 DEF OnceInv, WaitingInv
    <2>3. WaitingInv' /\ WorkInv' /\ RegsInv'
        BY <2>1, <2>2 DEF WaitingInv, WorkInv, RegsInv
    <2>4. CASE answers' = answers
        BY <1>b, <2>1, <2>2, <2>3, <2>4
    <2>5. CASE answers' = Append(answers, InBuffer)
        <3>1. InBuffer \in 1 .. Len(asks) /\ NewFrame(InBuffer) /\ asks[InBuffer].to = "us"
            BY <2>1, <2>2, InBufferSent DEF WorkInv
        <3> DEFINE b == InBuffer
        <3>2. /\ b \in 1 .. Len(asks) /\ asks[b].to = "us"
              /\ \A i \in 1 .. Len(answers) : answers[i] < b
              /\ answers' = Append(answers, b)
            BY <2>5, <3>1 DEF NewFrame
        <3>3. \A id : id = b => Beyond(id)'
            BY <1>a, <1>d, <3>1 DEF NewFrame
        <3> HIDE DEF b
        <3>4. /\ Len(answers') = Len(answers) + 1 /\ answers'[Len(answers) + 1] = b
              /\ \A i \in 1 .. Len(answers) : answers'[i] = answers[i]
              /\ Len(answers) \in Nat
            BY <1>0, <3>2
        <3>5. \A i \in 1 .. Len(answers') : i \in 1 .. Len(answers) \/ i = Len(answers) + 1
            BY <3>4
        <3>6. \A i, j \in 1 .. Len(answers') : i < j => answers'[i] < answers'[j]
            BY <2>2, <3>2, <3>4, <3>5 DEF AnsweredInv
        <3>7. ASSUME NEW i \in 1 .. Len(answers')
              PROVE  asks[answers'[i]].to = "us" /\ \A d \in Up' : d[1] > answers'[i]
            <4>1. CASE i \in 1 .. Len(answers)
                <5>1. /\ answers'[i] = answers[i] /\ answers[i] \in 0 .. Len(asks)
                      /\ asks[answers[i]].to = "us" /\ Beyond(answers[i])
                    BY <1>0, <2>2, <3>4, <4>1 DEF AnsweredInv
                <5>2. \A d \in Up' : d[1] > answers[i]
                    BY <1>a, <5>1 DEF Beyond
                <5> QED
                    BY <2>1, <5>1, <5>2
            <4>2. CASE i = Len(answers) + 1
                BY <3>2, <3>3, <3>4, <4>2 DEF Beyond
            <4> QED
                BY <3>5, <4>1, <4>2
        <3>8. AnsweredInv'
            BY <2>1, <3>6, <3>7 DEF AnsweredInv, Beyond
        <3> QED
            BY <2>3, <3>8
    <2> QED
        BY <2>1, <2>4, <2>5
<1>12. CASE xMBPortSerialSendBuf \/ StartXmit \/ ReadCr1 \/ WriteCr1
    BY <1>2, <1>12 DEF xMBPortSerialSendBuf, StartXmit, ReadCr1, WriteCr1, Runs, After
<1>13. CASE eMBEnable \/ eMBDisable
    BY <1>1, <1>13 DEF eMBEnable, eMBDisable
<1>14. CASE UNCHANGED vars
    BY <1>1, <1>14 DEF vars
<1> QED
    BY <1>3, <1>4, <1>5, <1>6, <1>7, <1>8, <1>9, <1>10, <1>11, <1>12, <1>13,
       <1>14 DEF Next, Bus, MB_USART_ISR_FN, eMBPoll

\* Every request to this slave is answered at most once and in order, and a
\* register holds what a request wrote there, as long as no frame ends while
\* the one before is worked on; for any requests and sizes.
THEOREM AnsweredOnce == Spec => []OneAnswer
<1> DEFINE OInv == IInv /\ CopyInv /\ LengthInv /\ PlaceInv /\ OrderInv /\ OnceInv
<1>1. Init => OInv
    <2> SUFFICES ASSUME Init PROVE OInv
        OBVIOUS
    <2>1. IInv /\ CopyInv /\ LengthInv /\ PlaceInv
        BY InitWhole
    <2>2. /\ line = <<>> /\ rx_buf = <<>> /\ answers = <<>> /\ pc = "idle"
          /\ FrameRcvFlag = FALSE
        BY DEF Init
    <2>3. OrderInv
        BY <2>2 DEF OrderInv, LineInv, RingInv
    <2>4. \A a \in DOMAIN regs : regs[a] = 0
        BY DEF Init
    <2>5. OnceInv
        BY <2>2, <2>4 DEF OnceInv, AnsweredInv, WaitingInv, WorkInv, RegsInv
    <2> QED
        BY <2>1, <2>3, <2>5
<1>2. OInv /\ [Next]_vars => OInv'
    BY TypeStep, WholeStep, OrderStep, OnceStep
<1>3. OInv => OneAnswer
    BY DEF OneAnswer, OnceInv, AnsweredInv, RegsInv
<1> QED
    BY <1>1, <1>2, <1>3, PTL DEF Spec
=============================================================================
