---------------------------- MODULE ModbusProofs ----------------------------
(***************************************************************************)
(* Proofs about the Modbus slave: its type invariant, for requests, rings  *)
(* and frames of any size, and that no answer is left behind.              *)
(***************************************************************************)
EXTENDS Modbus, TLAPS

\* The bytes of the frames sent so far, and those of their answers too.
Received == (1 .. Len(asks)) \X (1 .. Size)
Known == {NoByte} \cup ((-Len(asks) .. Len(asks)) \X (1 .. Size))

\* What is received are bytes of frames that were sent; what is executed or
\* answered has a frame's first byte at the front of the packet, even if the
\* handler has put another frame there.
BytesInv ==
    /\ Len(asks) <= MaxFrames
    /\ line \in Seq(Received) /\ rx_buf \in Seq(Received)
    /\ rdr \in Received \cup {NoByte}
    /\ packet_buf \in [1 .. RxSize -> Known]
    /\ tx_buf \in Seq(Known) /\ wire \in Seq(Known)
    /\ pc \in {"execute", "broadcast", "send"} => packet_buf[1][1] # 0

\* Until the first stop: bytes that are queued are being sent as soon as the
\* task has said so, with the transmit interrupt on as soon as it has turned
\* it on, and none are before the first start.
ArmedInv ==
    ~stopped =>
        /\ tx_buf # <<>> /\ pc \notin {"copy", "xmit"} => eSndState = "XMIT"
        /\ tx_buf # <<>> /\ pc \notin {"copy", "xmit", "read", "write"} => "TXE" \in cr1
        /\ eMBState = "DISABLED" => pc = "idle" /\ tx_buf = <<>>

\* The inductive invariant.
IInv == TypeOK /\ BytesInv

--------------------------------------------------------------------------
(* No answer is left behind.                                               *)

LEMMA ArmedStep == ArmedInv /\ [Next]_vars => ArmedInv'
<1> SUFFICES ASSUME ArmedInv, [Next]_vars PROVE ArmedInv'
    OBVIOUS
<1> USE DEF ArmedInv, stack, driver, task, usart, master, history
<1>1. CASE Bus
    BY <1>1 DEF Bus, Request, Arrive, Silence, Shift
<1>2. CASE xMBRTUReceiveFSM
    BY <1>2 DEF xMBRTUReceiveFSM
<1>3. CASE xMBRTUTransmitFSM
    BY <1>3 DEF xMBRTUTransmitFSM
<1>4. CASE xMBRTUTimerT35Expired
    BY <1>4 DEF xMBRTUTimerT35Expired
<1>5. CASE PollBegin \/ xMBPortFrameReceived
    BY <1>5 DEF PollBegin, xMBPortFrameReceived, Runs
<1>6. CASE eMBRTUReceive
    <2>1. pc = "receive"
        BY <1>6 DEF eMBRTUReceive, Runs
    <2>2. UNCHANGED <<stopped, tx_buf, eSndState, cr1, eMBState>>
        BY <1>6 DEF eMBRTUReceive
    <2> QED
        BY <2>1, <2>2
<1>7. CASE Execute
    BY <1>7 DEF Execute, Runs
<1>8. CASE eMBRTUSend
    BY <1>8 DEF eMBRTUSend, Runs
<1>9. CASE xMBPortSerialSendBuf
    BY <1>9 DEF xMBPortSerialSendBuf, Runs, After
<1>10. CASE StartXmit
    BY <1>10 DEF StartXmit, Runs, After
<1>11. CASE ReadCr1
    BY <1>11 DEF ReadCr1, Runs, After
<1>12. CASE WriteCr1
    BY <1>12 DEF WriteCr1, Runs, After
<1>13. CASE eMBEnable
    BY <1>13 DEF eMBEnable, Runs
<1>14. CASE eMBDisable
    BY <1>14 DEF eMBDisable, Runs
<1>15. CASE UNCHANGED vars
    BY <1>15 DEF vars
<1> QED
    BY <1>1, <1>2, <1>3, <1>4, <1>5, <1>6, <1>7, <1>8, <1>9, <1>10, <1>11,
       <1>12, <1>13, <1>14, <1>15 DEF Next, MB_USART_ISR_FN, eMBPoll

\* Between polls no byte of an answer waits with the transmit interrupt off,
\* unless the slave has been stopped, whatever the requests and the sizes.
THEOREM QueuedAreArmed == Spec => []QueuedIsArmed
<1>1. Init => ArmedInv
    BY DEF Init, ArmedInv
<1>2. ArmedInv => QueuedIsArmed
    BY DEF ArmedInv, QueuedIsArmed
<1> QED
    BY <1>1, ArmedStep, <1>2, PTL DEF Spec

--------------------------------------------------------------------------
(* Types.                                                                  *)

LEMMA SeqOfMore ==
    ASSUME NEW S, NEW T, S \subseteq T, NEW s \in Seq(S)
    PROVE  s \in Seq(T)
    OBVIOUS

\* A queue taken from or added to is one.
LEMMA Queues ==
    ASSUME NEW S, NEW s \in Seq(S)
    PROVE  /\ s # <<>> => Head(s) \in S /\ Tail(s) \in Seq(S) /\ Len(Tail(s)) = Len(s) - 1
           /\ \A x \in S : Append(s, x) \in Seq(S) /\ Len(Append(s, x)) = Len(s) + 1
           /\ Len(s) \in Nat
    OBVIOUS

LEMMA Sizes == Size \in Nat /\ Size >= 1 /\ RxSize \in Nat /\ RxSize >= Size
                 /\ TxSize \in Nat /\ NRegs \in Nat /\ MaxFrames \in Nat
    BY ModbusAssumption DEF MaxFrames

\* What is received or answered are bytes.
LEMMA KnownBytes ==
    ASSUME TypeOK, BytesInv
    PROVE  /\ Received \subseteq Known /\ Known \subseteq Bytes
           /\ NoByte \in Known /\ Len(asks) \in Nat
<1>1. Len(asks) \in Nat /\ Len(asks) <= MaxFrames
    BY DEF TypeOK, BytesInv
<1> QED
    BY <1>1, Sizes DEF Received, Known, Bytes

\* A request is for this slave, for all or for another.
LEMMA Addressed ==
    ASSUME NEW q \in RequestType
    PROVE  q.to \in Addressees
    BY DEF RequestType

\* A byte of an answer to a frame that was sent.
LEMMA AnswerBytes ==
    ASSUME TypeOK, BytesInv, NEW id \in 1 .. Len(asks), NEW i \in 1 .. Size
    PROVE  AnswerByte(id, i) \in Known /\ AnswerByte(id, i)[1] # 0
<1>1. Len(asks) \in Nat
    BY KnownBytes
<1>2. AnswerByte(id, i) = <<id, i>> \/ AnswerByte(id, i) = <<-id, i>>
    BY DEF AnswerByte
<1> QED
    BY <1>1, <1>2 DEF Known

\* The frame at the front of the packet is one that was sent.
LEMMA InBufferSent ==
    ASSUME TypeOK, BytesInv
    PROVE  /\ InBuffer \in 0 .. Len(asks)
           /\ pc \in {"execute", "broadcast", "send"} => InBuffer \in 1 .. Len(asks)
<1>1. packet_buf[1] \in Known /\ Len(asks) \in Nat
    BY Sizes, KnownBytes DEF BytesInv
<1>2. packet_buf[1][1] \in -Len(asks) .. Len(asks)
    BY <1>1 DEF Known, NoByte
<1> QED
    BY <1>1, <1>2 DEF InBuffer, BytesInv

\* A frame that is executed is one that was sent, to this slave or to all.
LEMMA Polled ==
    ASSUME TypeOK, BytesInv, eMBRTUReceive
    PROVE  \/ pc' = "idle"
           \/ \E id \in 1 .. Len(asks) :
                 /\ Packet = Frame(id) /\ packet_buf[1] = <<id, 1>>
                 /\ \/ pc' = "execute" /\ asks[id].to = "us"
                    \/ pc' = "broadcast" /\ asks[id].to = "all"
<1>1. CASE pc' = "idle"
    BY <1>1
<1>2. CASE \E id \in 1 .. Len(asks) :
              /\ Packet = Frame(id)
              /\ pc' = CASE asks[id].to = "us" -> "execute"
                         [] asks[id].to = "all" -> "broadcast"
                         [] asks[id].to = "other" -> "idle"
    <2>1. PICK id \in 1 .. Len(asks) :
              /\ Packet = Frame(id)
              /\ pc' = CASE asks[id].to = "us" -> "execute"
                         [] asks[id].to = "all" -> "broadcast"
                         [] asks[id].to = "other" -> "idle"
        BY <1>2
    <2>2. asks[id].to \in Addressees
        <3>1. asks \in Seq(RequestType)
            BY DEF TypeOK
        <3>2. asks[id] \in RequestType
            BY <3>1
        <3> QED
            BY <3>2, Addressed
    <2>3. packet_size \in 0 .. RxSize /\ Packet[1] = <<id, 1>> /\ 1 \in DOMAIN Packet
        BY <2>1, Sizes DEF Frame, TypeOK
    <2>4. packet_buf[1] = <<id, 1>>
        BY <2>3 DEF Packet
    <2> QED
        BY <2>1, <2>2, <2>4 DEF Addressees
<1> QED
    BY <1>1, <1>2 DEF eMBRTUReceive

LEMMA TypeStep == IInv /\ [Next]_vars => IInv'
<1> SUFFICES ASSUME TypeOK, BytesInv, [Next]_vars PROVE IInv'
    BY DEF IInv
<1> USE DEF stack, driver, task, usart, master, history
<1>0. asks' = asks => Received' = Received /\ Known' = Known
    BY DEF Received, Known
<1>1. CASE Request
    <2>3. PICK q \in Requests[Len(asks) + 1] : asks' = Append(asks, q)
        BY <1>1 DEF Request
    <2>4. Len(asks) \in Nat /\ Len(asks) + 1 \in 1 .. MaxFrames /\ asks \in Seq(RequestType)
        BY <1>1, Sizes DEF Request, TypeOK
    <2>5. q \in RequestType
        BY <2>3, <2>4, ModbusAssumption DEF MaxFrames
    <2>6. asks' \in Seq(RequestType) /\ Len(asks') = Len(asks) + 1
        BY <2>3, <2>4, <2>5, Queues
    <2>7. Received \subseteq Received' /\ Known \subseteq Known'
        BY <2>4, <2>6 DEF Received, Known
    <2>8. line' \in Seq(Received')
        BY <1>1, <2>4, <2>6, Sizes DEF Request, Frame, Received
    <2>9. Received' \subseteq Bytes
        BY <2>4, <2>6, Sizes DEF Received, Bytes
    <2>1. TypeOK'
        <3>1. line' \in Seq(Bytes)
            BY <2>8, <2>9, SeqOfMore
        <3> QED
            BY <1>1, <2>6, <3>1 DEF Request, TypeOK
    <2>2. BytesInv'
        <3>1. rx_buf' \in Seq(Received') /\ rdr' \in Received' \cup {NoByte}
            BY <1>1, <2>7, SeqOfMore DEF Request, BytesInv
        <3>2. tx_buf' \in Seq(Known') /\ wire' \in Seq(Known')
            BY <1>1, <2>7, SeqOfMore DEF Request, BytesInv
        <3>3. packet_buf' \in [1 .. RxSize -> Known']
            BY <1>1, <2>7 DEF Request, BytesInv
        <3> QED
            BY <1>1, <2>4, <2>6, <2>8, <3>1, <3>2, <3>3 DEF Request, BytesInv
    <2> QED
        BY <2>1, <2>2 DEF IInv
<1>2. CASE Arrive
    <2>3. Head(line) \in Received /\ line' \in Seq(Received)
        BY <1>2, Queues DEF Arrive, BytesInv
    <2>4. Received \subseteq Bytes
        BY KnownBytes
    <2>1. TypeOK'
        <3>1. line' \in Seq(Bytes)
            BY <2>3, <2>4, SeqOfMore
        <3>2. rdr' \in Bytes
            BY <1>2, <2>3, <2>4 DEF Arrive, TypeOK
        <3>3. ore' \in BOOLEAN
            BY <1>2 DEF Arrive, TypeOK
        <3>4. UNCHANGED <<stack, driver, task, cr1, rtoen, txe, rtof, isr, asks, history>>
            BY <1>2 DEF Arrive
        <3> QED
            BY <3>1, <3>2, <3>3, <3>4 DEF TypeOK
    <2>2. BytesInv'
        BY <1>0, <1>2, <2>3 DEF Arrive, BytesInv
    <2> QED
        BY <2>1, <2>2 DEF IInv
<1>3. CASE Silence
    <2>1. TypeOK'
        BY <1>3 DEF Silence, TypeOK
    <2>2. BytesInv'
        BY <1>0, <1>3 DEF Silence, BytesInv
    <2> QED
        BY <2>1, <2>2 DEF IInv
<1>4. CASE Shift
    <2>1. TypeOK'
        BY <1>4 DEF Shift, TypeOK
    <2>2. BytesInv'
        BY <1>0, <1>4 DEF Shift, BytesInv
    <2> QED
        BY <2>1, <2>2 DEF IInv
<1>5. CASE xMBRTUReceiveFSM
    <2>3. rdr # NoByte => rdr \in Received
        BY DEF BytesInv
    <2>4. /\ rx_buf' \in Seq(Received) /\ Len(rx_buf') <= RxSize
          /\ rdr' \in {rdr, NoByte}
        <3>1. rx_buf \in Seq(Received) /\ Len(rx_buf) \in Nat /\ Len(rx_buf) <= RxSize
            BY DEF BytesInv, TypeOK
        <3>2. CASE rdr = NoByte \/ rx_buf' = rx_buf
            BY <1>5, <3>1, <3>2 DEF xMBRTUReceiveFSM
        <3>3. CASE rdr # NoByte /\ rx_buf' = IF RxRoom THEN Append(rx_buf, rdr) ELSE <<>>
            BY <1>5, <2>3, <3>1, <3>3, Queues, Sizes DEF xMBRTUReceiveFSM, RxRoom
        <3> QED
            BY <1>5, <3>2, <3>3 DEF xMBRTUReceiveFSM
    <2>5. Received \subseteq Bytes /\ NoByte \in Bytes
        BY KnownBytes
    <2>1. TypeOK'
        <3>1. rx_buf' \in Seq(Bytes)
            BY <2>4, <2>5, SeqOfMore
        <3>2. rdr' \in Bytes
            BY <2>4, <2>5 DEF TypeOK
        <3>3. cr1' \subseteq Sources /\ rtoen' \in BOOLEAN
            BY <1>5 DEF xMBRTUReceiveFSM, TypeOK, Sources
        <3>4. eRcvState' \in {"INIT", "IDLE", "RCV", "ERROR"} /\ isr' = "tx"
            BY <1>5 DEF xMBRTUReceiveFSM, TypeOK
        <3>5. UNCHANGED <<stack, eSndState, FrameRcvFlag, tx_buf, task, ore, txe,
                          rtof, master, history>>
            BY <1>5 DEF xMBRTUReceiveFSM
        <3> QED
            BY <2>4, <3>1, <3>2, <3>3, <3>4, <3>5 DEF TypeOK
    <2>2. BytesInv'
        BY <1>0, <1>5, <2>4 DEF xMBRTUReceiveFSM, BytesInv
    <2> QED
        BY <2>1, <2>2 DEF IInv
<1>6. CASE xMBRTUTransmitFSM
    <2>3. tx_buf' \in Seq(Known) /\ Len(tx_buf') <= TxSize /\ wire' \in Seq(Known)
        <3>1. /\ tx_buf \in Seq(Known) /\ wire \in Seq(Known)
              /\ Len(tx_buf) \in Nat /\ Len(tx_buf) <= TxSize
            BY DEF BytesInv, TypeOK
        <3>2. CASE UNCHANGED <<tx_buf, wire>>
            BY <3>1, <3>2
        <3>3. CASE /\ tx_buf # <<>> /\ tx_buf' = Tail(tx_buf)
                   /\ wire' = Append(wire, Head(tx_buf))
            BY <3>1, <3>3, Queues, Sizes
        <3> QED
            BY <1>6, <3>2, <3>3 DEF xMBRTUTransmitFSM
    <2>4. Known \subseteq Bytes
        BY KnownBytes
    <2>1. TypeOK'
        <3>1. tx_buf' \in Seq(Bytes) /\ wire' \in Seq(Bytes)
            BY <2>3, <2>4, SeqOfMore
        <3>2. cr1' \subseteq Sources
            BY <1>6 DEF xMBRTUTransmitFSM, TypeOK, Sources
        <3>3. txe' \in BOOLEAN
            BY <1>6 DEF xMBRTUTransmitFSM, TypeOK
        <3>4. eSndState' \in {"IDLE", "XMIT"} /\ isr' = "rto"
            BY <1>6 DEF xMBRTUTransmitFSM, TypeOK
        <3>5. UNCHANGED <<stack, eRcvState, FrameRcvFlag, rx_buf, task, rtoen, rdr,
                          ore, rtof, master, answers, overlap, stopped>>
            BY <1>6 DEF xMBRTUTransmitFSM
        <3> QED
            BY <2>3, <3>1, <3>2, <3>3, <3>4, <3>5 DEF TypeOK
    <2>2. BytesInv'
        BY <1>0, <1>6, <2>3 DEF xMBRTUTransmitFSM, BytesInv
    <2> QED
        BY <2>1, <2>2 DEF IInv
<1>7. CASE xMBRTUTimerT35Expired
    <2>3. /\ packet_buf' \in [1 .. RxSize -> Known]
          /\ rx_buf' \in Seq(Received) /\ Len(rx_buf') <= RxSize
          /\ packet_size' \in 0 .. RxSize
          /\ packet_buf[1][1] # 0 => packet_buf'[1][1] # 0
        <3>1. /\ rx_buf \in Seq(Received) /\ Len(rx_buf) \in Nat /\ Len(rx_buf) <= RxSize
              /\ packet_buf \in [1 .. RxSize -> Known] /\ packet_size \in 0 .. RxSize
            BY DEF BytesInv, TypeOK
        <3>2. Received \subseteq Known /\ \A b \in Received : b[1] # 0
            BY KnownBytes DEF Received
        <3>3. CASE UNCHANGED <<rx_buf, packet_buf, packet_size>>
            BY <3>1, <3>3
        <3>4. CASE /\ rx_buf' = <<>> /\ packet_size' = Len(rx_buf)
                   /\ packet_buf' = [i \in 1 .. RxSize |->
                          IF i <= Len(rx_buf) THEN rx_buf[i] ELSE packet_buf[i]]
            <4>1. \A i \in 1 .. RxSize : i <= Len(rx_buf) => rx_buf[i] \in Received
                BY <3>1
            <4> QED
                BY <3>1, <3>2, <3>4, <4>1, Sizes
        <3> QED
            BY <1>7, <3>3, <3>4 DEF xMBRTUTimerT35Expired
    <2>4. Known \subseteq Bytes /\ Received \subseteq Bytes
        BY KnownBytes
    <2>1. TypeOK'
        <3>1. rx_buf' \in Seq(Bytes) /\ packet_buf' \in [1 .. RxSize -> Bytes]
            BY <2>3, <2>4, SeqOfMore
        <3>2. overlap' \in BOOLEAN
            BY <1>7 DEF xMBRTUTimerT35Expired, TypeOK
        <3>3. cr1' \subseteq Sources
            BY <1>7 DEF xMBRTUTimerT35Expired, TypeOK, Sources
        <3>4. /\ FrameRcvFlag' \in BOOLEAN /\ rtoen' \in BOOLEAN /\ rtof' \in BOOLEAN
              /\ eRcvState' \in {"INIT", "IDLE", "RCV", "ERROR"} /\ isr' = "no"
            BY <1>7 DEF xMBRTUTimerT35Expired, TypeOK
        <3>5. UNCHANGED <<eMBState, regs, eSndState, tx_buf, task, rdr, ore, txe,
                          master, answers, wire, stopped>>
            BY <1>7 DEF xMBRTUTimerT35Expired
        <3> QED
            BY <2>3, <3>1, <3>2, <3>3, <3>4, <3>5 DEF TypeOK
    <2>2. BytesInv'
        BY <1>0, <1>7, <2>3 DEF xMBRTUTimerT35Expired, BytesInv
    <2> QED
        BY <2>1, <2>2 DEF IInv
<1>8. CASE PollBegin
    <2>1. TypeOK'
        BY <1>8 DEF PollBegin, TypeOK, Runs
    <2>2. BytesInv'
        BY <1>0, <1>8 DEF PollBegin, BytesInv, Runs
    <2> QED
        BY <2>1, <2>2 DEF IInv
<1>9. CASE xMBPortFrameReceived
    <2>1. TypeOK'
        BY <1>9 DEF xMBPortFrameReceived, TypeOK, Runs
    <2>2. BytesInv'
        BY <1>0, <1>9 DEF xMBPortFrameReceived, BytesInv, Runs
    <2> QED
        BY <2>1, <2>2 DEF IInv
<1>10. CASE eMBRTUReceive
    <2>3. /\ pc' \in {"idle", "execute", "broadcast"}
          /\ pc' # "idle" => packet_buf[1][1] # 0
        BY <1>10, Polled
    <2>1. TypeOK'
        BY <1>10, <2>3 DEF eMBRTUReceive, TypeOK
    <2>2. BytesInv'
        BY <1>0, <1>10, <2>3 DEF eMBRTUReceive, BytesInv
    <2> QED
        BY <2>1, <2>2 DEF IInv
<1>11. CASE Execute
    <2>3. pc \in {"execute", "broadcast"} /\ pc' \in {"send", "idle"}
        BY <1>11 DEF Execute, Runs
    <2>4. InBuffer \in 1 .. Len(asks) /\ Len(asks) <= MaxFrames /\ Len(asks) \in Nat
        BY <2>3, InBufferSent, KnownBytes DEF BytesInv
    <2>5. regs' \in [0 .. NRegs - 1 -> 0 .. MaxFrames]
        <3>1. PICK W : regs' = [a \in DOMAIN regs |-> IF a \in W THEN InBuffer ELSE regs[a]]
            BY <1>11 DEF Execute
        <3>2. InBuffer \in 0 .. MaxFrames
            BY <2>4, Sizes
        <3>3. regs \in [0 .. NRegs - 1 -> 0 .. MaxFrames]
            BY DEF TypeOK
        <3> QED
            BY <3>1, <3>2, <3>3
    <2>6. packet_buf' \in [1 .. RxSize -> Known] /\ packet_buf'[1][1] # 0
        <3>1. packet_buf \in [1 .. RxSize -> Known] /\ packet_buf[1][1] # 0
            BY <2>3 DEF BytesInv
        <3>2. CASE UNCHANGED packet_buf
            BY <3>1, <3>2
        <3>3. CASE Fill(InBuffer)
            BY <2>4, <3>1, <3>3, AnswerBytes, Sizes DEF Fill
        <3> QED
            BY <1>11, <3>2, <3>3 DEF Execute
    <2>7. Known \subseteq Bytes
        BY KnownBytes
    <2>1. TypeOK'
        <3>1. packet_buf' \in [1 .. RxSize -> Bytes]
            BY <2>6, <2>7
        <3> QED
            BY <1>11, <2>3, <2>5, <3>1 DEF Execute, TypeOK
    <2>2. BytesInv'
        BY <1>0, <1>11, <2>6 DEF Execute, BytesInv
    <2> QED
        BY <2>1, <2>2 DEF IInv
<1>12. CASE eMBRTUSend
    <2>3. pc = "send" /\ pc' \in {"copy", "idle"}
        BY <1>12 DEF eMBRTUSend, Runs
    <2>4. InBuffer \in 1 .. Len(asks) /\ Len(asks) <= MaxFrames /\ Len(asks) \in Nat
        BY <2>3, InBufferSent, KnownBytes DEF BytesInv
    <2>5. answers' \in Seq(1 .. MaxFrames)
        <3>1. InBuffer \in 1 .. MaxFrames /\ answers \in Seq(1 .. MaxFrames)
            BY <2>4, Sizes DEF TypeOK
        <3>2. answers' = answers \/ answers' = Append(answers, InBuffer)
            BY <1>12 DEF eMBRTUSend
        <3> QED
            BY <3>1, <3>2, Queues
    <2>6. packet_buf' \in [1 .. RxSize -> Known]
        <3>1. packet_buf \in [1 .. RxSize -> Known]
            BY DEF BytesInv
        <3>2. Fill(InBuffer)
            BY <1>12 DEF eMBRTUSend
        <3> QED
            BY <2>4, <3>1, <3>2, AnswerBytes, Sizes DEF Fill
    <2>7. Known \subseteq Bytes
        BY KnownBytes
    <2>1. TypeOK'
        <3>1. packet_buf' \in [1 .. RxSize -> Bytes]
            BY <2>6, <2>7
        <3> QED
            BY <1>12, <2>3, <2>5, <3>1 DEF eMBRTUSend, TypeOK
    <2>2. BytesInv'
        BY <1>0, <1>12, <2>3, <2>6 DEF eMBRTUSend, BytesInv
    <2> QED
        BY <2>1, <2>2 DEF IInv
<1>13. CASE xMBPortSerialSendBuf
    <2>3. /\ tx_buf' \in Seq(Known) /\ Len(tx_buf') <= TxSize
          /\ n' \in 0 .. Size - 1 /\ pc' \in {"copy", "xmit", "idle"}
        <3>1. /\ tx_buf \in Seq(Known) /\ Len(tx_buf) \in Nat /\ n \in 0 .. Size - 1
              /\ packet_buf[n + 1] \in Known
            BY Sizes DEF BytesInv, TypeOK
        <3>2. (n + 1) % Size \in 0 .. Size - 1
            BY <3>1, Sizes
        <3>3. CASE Len(tx_buf) < TxSize
            BY <1>13, <3>1, <3>2, <3>3, Queues, Sizes DEF xMBPortSerialSendBuf, After
        <3>4. CASE ~(Len(tx_buf) < TxSize)
            BY <1>13, <3>4, Sizes DEF xMBPortSerialSendBuf
        <3> QED
            BY <3>3, <3>4
    <2>4. Known \subseteq Bytes
        BY KnownBytes
    <2>1. TypeOK'
        <3>1. tx_buf' \in Seq(Bytes)
            BY <2>3, <2>4, SeqOfMore
        <3> QED
            BY <1>13, <2>3, <3>1 DEF xMBPortSerialSendBuf, TypeOK
    <2>2. BytesInv'
        BY <1>0, <1>13, <2>3 DEF xMBPortSerialSendBuf, BytesInv
    <2> QED
        BY <2>1, <2>2 DEF IInv
<1>14. CASE StartXmit
    <2>1. TypeOK'
        BY <1>14 DEF StartXmit, TypeOK, After, Runs
    <2>2. BytesInv'
        BY <1>0, <1>14 DEF StartXmit, BytesInv, After, Runs
    <2> QED
        BY <2>1, <2>2 DEF IInv
<1>15. CASE ReadCr1
    <2>1. TypeOK'
        BY <1>15 DEF ReadCr1, TypeOK, After, Runs
    <2>2. BytesInv'
        BY <1>0, <1>15 DEF ReadCr1, BytesInv, After, Runs
    <2> QED
        BY <2>1, <2>2 DEF IInv
<1>16. CASE WriteCr1
    <2>1. TypeOK'
        BY <1>16 DEF WriteCr1, TypeOK, After, Runs, Sources
    <2>2. BytesInv'
        BY <1>0, <1>16 DEF WriteCr1, BytesInv, After, Runs, Sources
    <2> QED
        BY <2>1, <2>2 DEF IInv
<1>17. CASE eMBEnable
    <2>1. TypeOK'
        BY <1>17 DEF eMBEnable, TypeOK, Runs, Sources
    <2>2. BytesInv'
        BY <1>0, <1>17 DEF eMBEnable, BytesInv, Runs, Sources
    <2> QED
        BY <2>1, <2>2 DEF IInv
<1>18. CASE eMBDisable
    <2>1. TypeOK'
        BY <1>18 DEF eMBDisable, TypeOK, Runs
    <2>2. BytesInv'
        BY <1>0, <1>18 DEF eMBDisable, BytesInv, Runs
    <2> QED
        BY <2>1, <2>2 DEF IInv
<1>19. CASE UNCHANGED vars
    BY <1>0, <1>19 DEF vars, IInv, TypeOK, BytesInv
<1> QED
    BY <1>1, <1>2, <1>3, <1>4, <1>5, <1>6, <1>7, <1>8, <1>9, <1>10,
       <1>11, <1>12, <1>13, <1>14, <1>15, <1>16, <1>17, <1>18, <1>19
    DEF Next, Bus, MB_USART_ISR_FN, eMBPoll

LEMMA InitTypes == Init => IInv
<1> SUFFICES ASSUME Init PROVE IInv
    OBVIOUS
<1>1. /\ rx_buf = <<>> /\ tx_buf = <<>> /\ asks = <<>> /\ line = <<>>
      /\ answers = <<>> /\ wire = <<>>
    BY DEF Init
<1>2. NoByte \in Known /\ NoByte \in Bytes
    BY DEF Known, Bytes
<1>3. packet_buf \in [1 .. RxSize -> Known] /\ packet_buf \in [1 .. RxSize -> Bytes]
    BY <1>2 DEF Init
<1>4. TypeOK
    <2>1. regs \in [0 .. NRegs - 1 -> 0 .. MaxFrames]
        BY Sizes DEF Init
    <2>2. /\ Len(rx_buf) <= RxSize /\ Len(tx_buf) <= TxSize /\ n \in 0 .. Size - 1
          /\ packet_size \in 0 .. RxSize
        BY <1>1, Sizes DEF Init
    <2>3. /\ rx_buf \in Seq(Bytes) /\ tx_buf \in Seq(Bytes) /\ line \in Seq(Bytes)
          /\ wire \in Seq(Bytes) /\ answers \in Seq(1 .. MaxFrames)
          /\ asks \in Seq(RequestType)
        BY <1>1
    <2> QED
        BY <1>2, <1>3, <2>1, <2>2, <2>3 DEF Init, TypeOK
<1>5. BytesInv
    BY <1>1, <1>3, Sizes DEF Init, BytesInv
<1> QED
    BY <1>4, <1>5 DEF IInv

\* Rings, packet and registers keep their types, whatever is sent, cut,
\* dropped or overwritten, for rings and frames of any size.
THEOREM TypeCorrect == Spec => []TypeOK
<1>1. Init => IInv
    BY InitTypes
<1>2. IInv => TypeOK
    BY DEF IInv
<1> QED
    BY <1>1, TypeStep, <1>2, PTL DEF Spec
=============================================================================
