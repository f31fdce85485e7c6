------------------------------- MODULE Modbus -------------------------------
(***************************************************************************)
(* The Modbus RTU slave: the receiver and the transmitter in the interrupt *)
(* handler of the USART (my_libs/protocols/modbus_serial_drv.c), eMBPoll   *)
(* in a task (library/modbus/source/mb.c, mbrtu.c, mbfunc.c), and the      *)
(* registers (all/modbus_cb.c).                                            *)
(*                                                                         *)
(* A frame is Size bytes, the first its address and function, the last its *)
(* checksum; byte i of the n-th frame sent is <<n, i>> and byte i of an    *)
(* answer that is not the echo of the request <<-n, i>>.  The checksum is  *)
(* right exactly when a packet is one whole request: such an answer has    *)
(* another length, and no damage goes unnoticed.  The rings are queues     *)
(* (RingsAreQueues in module UsartProofs).                                 *)
(***************************************************************************)
EXTENDS Integers, Sequences

CONSTANTS
    Requests,   \* bound: what each frame sent may ask
    NRegs,      \* REG_HOLDING_NREGS and REG_INPUT_NREGS
    Size,       \* bytes of a frame and of an answer
    RxSize,     \* bytes of rx_buf, and of packet_buf
    TxSize      \* bytes of tx_buf

MaxFrames == Len(Requests)

Addressees == {"us", "all", "other"}
Reads == {"READ_INPUT", "READ_HOLDING"}
Writes == {"WRITE", "WRITE_MULTIPLE"}
Fns == Reads \cup Writes \cup {"OTHER"}
Counts == 0 .. 65535
RequestType ==
    [to : Addressees, fits : BOOLEAN, addr : Nat, count : Counts, fn : Fns]

ASSUME ModbusAssumption ==
    /\ Requests \in Seq(SUBSET RequestType)
    /\ NRegs \in Nat /\ Size \in Nat \ {0}
    /\ RxSize \in Nat /\ RxSize >= Size /\ TxSize \in Nat

VARIABLES
    eMBState, eRcvState, eSndState,
    FrameRcvFlag,
    rx_buf, tx_buf,                 \* the rings, as queues
    packet_buf, packet_size,
    regs,       \* for each holding register, the frame that last wrote it
    pc, n,      \* the task's place in eMBPoll, and bytes queued of an answer
    saved,      \* CR1 as the task has read it
    cr1, rtoen, \* interrupts enabled, and the receiver timeout in CR2
    rdr, ore, txe, rtof,            \* the USART: data register and flags
    isr,        \* place in the interrupt handler
    asks, line, \* requests sent, and the bytes of the last still to come
    answers, wire,  \* history: frames answered, and bytes on the wire
    overlap,    \* history: a frame has ended while eMBPoll worked
    stopped     \* history: eMBDisable has been called

stack == <<eMBState, packet_buf, packet_size, regs>>
driver == <<eRcvState, eSndState, FrameRcvFlag, rx_buf, tx_buf>>
task == <<pc, n, saved>>
usart == <<cr1, rtoen, rdr, ore, txe, rtof>>
master == <<asks, line>>
history == <<answers, wire, overlap, stopped>>
vars == <<stack, driver, task, usart, isr, master, history>>

NoByte == <<0, 0>>
Frame(id) == [i \in 1 .. Size |-> <<id, i>>]
Packet == [i \in 1 .. packet_size |-> packet_buf[i]]

Init ==
    /\ eMBState = "DISABLED"
    /\ eRcvState = "INIT" /\ eSndState = "IDLE" /\ FrameRcvFlag = FALSE
    /\ rx_buf = <<>> /\ tx_buf = <<>>
    /\ packet_buf = [i \in 1 .. RxSize |-> NoByte] /\ packet_size = 0
    /\ regs = [a \in 0 .. NRegs - 1 |-> 0]
    /\ pc = "idle" /\ n = 0 /\ saved = {}
    /\ cr1 = {} /\ rtoen = FALSE
    /\ rdr = NoByte /\ ore = FALSE /\ txe = TRUE /\ rtof = FALSE
    /\ isr = "no"
    /\ asks = <<>> /\ line = <<>>
    /\ answers = <<>> /\ wire = <<>> /\ overlap = FALSE /\ stopped = FALSE

--------------------------------------------------------------------------
(* The bus and the USART.                                                  *)

\* A master sends its next request, whether or not it was answered.
Request ==
    /\ line = <<>> /\ Len(asks) < MaxFrames
    /\ \E q \in Requests[Len(asks) + 1] : asks' = Append(asks, q)
    /\ line' = Frame(Len(asks) + 1)
    /\ UNCHANGED <<stack, driver, task, usart, isr, history>>

\* A byte arrives; the handler is served within a character time, but with
\* its interrupt off the byte before may still be there.
Arrive ==
    /\ line # <<>> /\ line' = Tail(line)
    /\ \/ rdr = NoByte /\ rdr' = Head(line) /\ UNCHANGED ore
       \/ rdr # NoByte /\ "RXNE" \notin cr1 /\ ore' = TRUE /\ UNCHANGED rdr
    /\ UNCHANGED <<stack, driver, task, cr1, rtoen, txe, rtof, isr, asks,
                   history>>

\* 3.5 characters of silence; inside a frame too, which they cut.
Silence ==
    /\ rtoen /\ ~rtof /\ rtof' = TRUE
    /\ UNCHANGED <<stack, driver, task, cr1, rtoen, rdr, ore, txe, isr, master,
                   history>>

Shift ==
    /\ ~txe /\ txe' = TRUE
    /\ UNCHANGED <<stack, driver, task, cr1, rtoen, rdr, ore, rtof, isr,
                   master, history>>

\* The interrupt line.  Nothing clears an overrun.
Pending ==
    \/ "RXNE" \in cr1 /\ (rdr # NoByte \/ ore)
    \/ "TXE" \in cr1 /\ txe
    \/ "RTO" \in cr1 /\ rtof

\* The handler is entered.
Entered == (isr = "no" /\ Pending) \/ isr = "latched"

\* The task runs when the handler need not.
Runs(at) == isr = "no" /\ ~Pending /\ pc = at

--------------------------------------------------------------------------
(* MB_USART_ISR_FN: it looks at the flags one after the other, and at no   *)
(* enable bit.                                                             *)

\* Seeded fault: the byte is stored without room for it.
RxRoom_Always == TRUE

RxRoom == Len(rx_buf) < RxSize

\* A frame that is too long is dropped, its rest ignored until the silence.
xMBRTUReceiveFSM ==
    /\ Entered /\ isr' = "tx"
    /\ \/ rdr = NoByte /\ UNCHANGED <<rx_buf, eRcvState, rdr, cr1, rtoen>>
       \/ /\ rdr # NoByte /\ rdr' = NoByte
          /\ \/ eRcvState \in {"INIT", "ERROR"} /\ UNCHANGED <<rx_buf, eRcvState>>
             \/ /\ eRcvState \in {"IDLE", "RCV"}
                /\ rx_buf' = IF RxRoom THEN Append(rx_buf, rdr) ELSE <<>>
                /\ eRcvState' = IF RxRoom THEN "RCV" ELSE "ERROR"
          /\ rtoen' = TRUE /\ cr1' = cr1 \cup {"RTO"}
    /\ UNCHANGED <<stack, eSndState, FrameRcvFlag, tx_buf, task, ore, txe,
                   rtof, master, history>>

xMBRTUTransmitFSM ==
    /\ isr = "tx" /\ isr' = "rto"
    /\ \/ ~txe /\ UNCHANGED <<eSndState, tx_buf, cr1, txe, wire>>
       \/ /\ txe /\ eSndState = "XMIT" /\ tx_buf # <<>>
          /\ wire' = Append(wire, Head(tx_buf)) /\ tx_buf' = Tail(tx_buf)
          /\ txe' = FALSE
          /\ UNCHANGED <<eSndState, cr1>>
       \/ /\ txe /\ (eSndState = "IDLE" \/ tx_buf = <<>>)
          /\ cr1' = (cr1 \ {"TXE"}) \cup {"RXNE"}
          /\ eSndState' = "IDLE"
          /\ UNCHANGED <<tx_buf, txe, wire>>
    /\ UNCHANGED <<stack, eRcvState, FrameRcvFlag, rx_buf, task, rtoen, rdr,
                   ore, rtof, master, answers, overlap, stopped>>

xMBRTUTimerT35Expired ==
    /\ isr = "rto" /\ isr' = "no"
    /\ \/ /\ ~rtof
          /\ UNCHANGED <<eRcvState, FrameRcvFlag, rx_buf, packet_buf,
                         packet_size, cr1, rtoen, rtof, overlap>>
       \/ /\ rtof /\ rtof' = FALSE
          /\ \/ /\ eRcvState = "RCV"
                /\ FrameRcvFlag' = TRUE
                /\ packet_size' = Len(rx_buf)
                /\ packet_buf' = [i \in 1 .. RxSize |->
                       IF i <= Len(rx_buf) THEN rx_buf[i] ELSE packet_buf[i]]
                /\ rx_buf' = <<>>
                /\ overlap' = (overlap \/ pc \notin {"idle", "clear"})
             \/ /\ eRcvState # "RCV"
                /\ UNCHANGED <<FrameRcvFlag, rx_buf, packet_buf, packet_size,
                               overlap>>
          /\ rtoen' = FALSE /\ cr1' = cr1 \ {"RTO"}
          /\ eRcvState' = "IDLE"
    /\ UNCHANGED <<eMBState, regs, eSndState, tx_buf, task, rdr, ore, txe,
                   master, answers, wire, stopped>>

--------------------------------------------------------------------------
(* The functions (mbfunc.c, modbus_cb.c).                                  *)

\* The registers asked for; eMBFuncReadHoldingRegister loses the high byte.
RegCount(q) ==
    CASE q.fn = "WRITE" -> 1
      [] q.fn = "READ_HOLDING" -> q.count % 256
      [] OTHER -> q.count

MaxCount(fn) == CASE fn = "READ_INPUT" -> 124 [] fn = "READ_HOLDING" -> 125
                  [] OTHER -> 120

\* The exception a request raises, NONE when it is carried out.
Exception(q) ==
    CASE q.fn = "OTHER" -> "ILLEGAL_FUNCTION"
      [] q.fn # "OTHER" /\ (~q.fits \/ RegCount(q) \notin 1 .. MaxCount(q.fn)) ->
             "ILLEGAL_DATA_VALUE"
      [] q.fn # "OTHER" /\ q.fits /\ RegCount(q) \in 1 .. MaxCount(q.fn) ->
             IF q.addr + RegCount(q) <= NRegs THEN "NONE"
             ELSE "ILLEGAL_DATA_ADDRESS"

\* The registers a request writes.
Written(q) ==
    IF q.fn \in Writes /\ Exception(q) = "NONE"
    THEN q.addr .. q.addr + RegCount(q) - 1 ELSE {}

\* The answer to a single write is the request.
IsEcho(q) == q.fn = "WRITE" /\ Exception(q) = "NONE"

AnswerByte(id, i) == <<IF IsEcho(asks[id]) THEN id ELSE -id, i>>

\* The answer to a frame is put at the beginning of packet_buf.
Fill(id) ==
    packet_buf' = [i \in 1 .. RxSize |->
                      IF i <= Size THEN AnswerByte(id, i) ELSE packet_buf[i]]

--------------------------------------------------------------------------
(* eMBPoll.                                                                *)

\* The frame whose first byte is in the buffer.
InBuffer == IF packet_buf[1][1] < 0 THEN -packet_buf[1][1] ELSE packet_buf[1][1]

PollBegin ==
    /\ Runs("idle") /\ eMBState = "ENABLED" /\ FrameRcvFlag
    /\ pc' = "clear"
    /\ UNCHANGED <<stack, driver, n, saved, usart, isr, master, history>>

\* Seeded fault: the flag is left set.
xMBPortFrameReceived_Keeps ==
    /\ Runs("clear") /\ pc' = "receive"
    /\ UNCHANGED <<stack, driver, n, saved, usart, isr, master, history>>

\* The flag was tested in the step before.
xMBPortFrameReceived ==
    /\ Runs("clear") /\ pc' = "receive"
    /\ FrameRcvFlag' = FALSE
    /\ UNCHANGED <<stack, eRcvState, eSndState, rx_buf, tx_buf, n, saved,
                   usart, isr, master, history>>

\* Interrupts are masked while the packet is checked, not afterwards.
eMBRTUReceive ==
    /\ Runs("receive")
    /\ \/ \E id \in 1 .. Len(asks) :
             /\ Packet = Frame(id)
             /\ pc' = CASE asks[id].to = "us" -> "execute"
                        [] asks[id].to = "all" -> "broadcast"
                        [] asks[id].to = "other" -> "idle"
       \/ /\ \A id \in 1 .. Len(asks) : Packet # Frame(id)
          /\ pc' = "idle"
    /\ UNCHANGED <<stack, driver, n, saved, usart, isr, master, history>>

\* The function is called; one that reads builds its answer in the buffer.
\* What was sent to all is not answered.
Execute ==
    LET q == asks[InBuffer]
    IN  /\ \/ Runs("execute") /\ pc' = "send"
           \/ Runs("broadcast") /\ pc' = "idle"
        /\ regs' = [a \in DOMAIN regs |->
                       IF a \in Written(q) THEN InBuffer ELSE regs[a]]
        /\ \/ q.fn \in Reads /\ Fill(InBuffer)
           \/ q.fn \notin Reads /\ UNCHANGED packet_buf
        /\ UNCHANGED <<eMBState, packet_size, driver, n, saved, usart, isr,
                       master, history>>

\* Seeded fault: the answer is queued without room for all of it.
TxRoom_Some == Len(tx_buf) < TxSize

TxRoom == Size <= TxSize - Len(tx_buf)

\* eMBRTUSend to the test of xMBPortSerialSendBuf, whose failure goes
\* unnoticed.
eMBRTUSend ==
    /\ Runs("send")
    /\ Fill(InBuffer)
    /\ \/ TxRoom /\ pc' = "copy" /\ answers' = Append(answers, InBuffer)
       \/ ~TxRoom /\ pc' = "idle" /\ UNCHANGED answers
    /\ UNCHANGED <<eMBState, packet_size, regs, driver, n, saved, usart, isr,
                   master, wire, overlap, stopped>>

\* Seeded fault: the interrupt is enabled before the state is changed.
After_Swapped == [copy |-> "read", read |-> "write", write |-> "xmit", xmit |-> "idle"]

\* The order of the steps that start the transmitter.
After == [copy |-> "xmit", xmit |-> "read", read |-> "write", write |-> "idle"]

\* One round of the loop, and what it does when a byte finds no room.
xMBPortSerialSendBuf ==
    /\ Runs("copy")
    /\ IF Len(tx_buf) < TxSize
       THEN /\ tx_buf' = Append(tx_buf, packet_buf[n + 1])
            /\ n' = (n + 1) % Size
            /\ pc' = IF n + 1 = Size THEN After["copy"] ELSE "copy"
       ELSE tx_buf' = <<>> /\ n' = 0 /\ pc' = "idle"
    /\ UNCHANGED <<stack, eRcvState, eSndState, FrameRcvFlag, rx_buf, saved,
                   usart, isr, master, history>>

StartXmit ==
    /\ Runs("xmit") /\ pc' = After["xmit"]
    /\ eSndState' = "XMIT"
    /\ UNCHANGED <<stack, eRcvState, FrameRcvFlag, rx_buf, tx_buf, n, saved,
                   usart, isr, master, history>>

\* usart_enable_tx_interrupt reads CR1 and writes it: an enable bit the
\* handler changes in between is lost.
ReadCr1 ==
    /\ Runs("read") /\ pc' = After["read"]
    /\ saved' = cr1
    /\ UNCHANGED <<stack, driver, n, usart, isr, master, history>>

WriteCr1 ==
    /\ Runs("write") /\ pc' = After["write"]
    /\ cr1' = saved \cup {"TXE"} /\ saved' = {}
    /\ UNCHANGED <<stack, driver, n, rtoen, rdr, ore, txe, rtof, isr, master,
                   history>>

\* xMBPortStart.
eMBEnable ==
    /\ Runs("idle") /\ eMBState = "DISABLED"
    /\ eMBState' = "ENABLED"
    /\ cr1' = {"RXNE", "RTO"} /\ rtoen' = TRUE
    /\ eRcvState' = "IDLE"
    /\ UNCHANGED <<packet_buf, packet_size, regs, eSndState, FrameRcvFlag,
                   rx_buf, tx_buf, task, rdr, ore, txe, rtof, isr, master,
                   history>>

\* xMBPortStop.  An interrupt that comes inside its critical section stays
\* pending in the NVIC, and the handler runs although its source is off.
eMBDisable ==
    /\ Runs("idle") /\ eMBState = "ENABLED"
    /\ eMBState' = "DISABLED"
    /\ cr1' = {} /\ rtoen' = FALSE
    /\ isr' \in {"no", "latched"}
    /\ stopped' = TRUE
    /\ UNCHANGED <<packet_buf, packet_size, regs, driver, task, rdr, ore, txe,
                   rtof, master, answers, wire, overlap>>

--------------------------------------------------------------------------
Bus == Request \/ Arrive \/ Silence \/ Shift

MB_USART_ISR_FN ==
    xMBRTUReceiveFSM \/ xMBRTUTransmitFSM \/ xMBRTUTimerT35Expired

eMBPoll ==
    PollBegin \/ xMBPortFrameReceived \/ eMBRTUReceive \/ Execute \/ eMBRTUSend
        \/ xMBPortSerialSendBuf \/ StartXmit \/ ReadCr1 \/ WriteCr1

Next == Bus \/ MB_USART_ISR_FN \/ eMBPoll \/ eMBEnable \/ eMBDisable

Spec == Init /\ [][Next]_vars
--------------------------------------------------------------------------
Bytes == {NoByte} \cup ((-MaxFrames .. MaxFrames) \X (1 .. Size))
Sources == {"RXNE", "TXE", "RTO"}

\* Every variable keeps its type; the rings and the packet stay within their
\* size, and a frame being received has a byte.
TypeOK ==
    /\ eMBState \in {"ENABLED", "DISABLED"}
    /\ eRcvState \in {"INIT", "IDLE", "RCV", "ERROR"}
    /\ eSndState \in {"IDLE", "XMIT"}
    /\ FrameRcvFlag \in BOOLEAN
    /\ rx_buf \in Seq(Bytes) /\ Len(rx_buf) <= RxSize
    /\ tx_buf \in Seq(Bytes) /\ Len(tx_buf) <= TxSize
    /\ packet_buf \in [1 .. RxSize -> Bytes] /\ packet_size \in 0 .. RxSize
    /\ regs \in [0 .. NRegs - 1 -> 0 .. MaxFrames]
    /\ pc \in {"idle", "clear", "receive", "execute", "broadcast", "send",
               "copy", "xmit", "read", "write"}
    /\ n \in 0 .. Size - 1
    /\ saved \subseteq Sources /\ cr1 \subseteq Sources /\ rtoen \in BOOLEAN
    /\ rdr \in Bytes /\ ore \in BOOLEAN /\ txe \in BOOLEAN /\ rtof \in BOOLEAN
    /\ isr \in {"no", "latched", "tx", "rto"}
    /\ asks \in Seq(RequestType) /\ line \in Seq(Bytes)
    /\ answers \in Seq(1 .. MaxFrames) /\ wire \in Seq(Bytes)
    /\ overlap \in BOOLEAN /\ stopped \in BOOLEAN

\* As long as no frame ends while eMBPoll works on the one before, every
\* request sent to this slave is answered at most once, in the order they
\* were sent, and a register holds what a request to this slave or to all
\* wrote there: across frames cut by silence, run together, too long,
\* received while the slave is stopped or left over from before.
OneAnswer ==
    ~overlap =>
        /\ \A i, j \in 1 .. Len(answers) : i < j => answers[i] < answers[j]
        /\ \A i \in 1 .. Len(answers) : asks[answers[i]].to = "us"
        /\ \A a \in DOMAIN regs : regs[a] # 0 =>
               a \in Written(asks[regs[a]]) /\ asks[regs[a]].to # "other"

\* An answer is queued whole or not at all and goes out whole and in order,
\* even if the next is queued, or the slave stopped, while it does.
WholeAnswers ==
    LET sent == wire \o tx_buf IN
    /\ Len(sent) = Size * Len(answers) - (IF pc = "copy" THEN Size - n ELSE 0)
    /\ ~overlap => \A a \in 1 .. Len(answers), i \in 1 .. Size :
           LET at == Size * (a - 1) + i
           IN  at <= Len(sent) => sent[at] = AnswerByte(answers[a], i)

\* Between polls no byte of an answer waits with the transmit interrupt off,
\* unless the slave has been stopped: the handler never turns it off between
\* the task's steps, and no update of CR1 undoes it.
QueuedIsArmed ==
    pc = "idle" /\ tx_buf # <<>> /\ ~stopped => "TXE" \in cr1
=============================================================================
