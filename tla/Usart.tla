------------------------------- MODULE Usart -------------------------------
(***************************************************************************)
(* The buffered USART of my_libs/usart_hl.c: a task that sends strings and *)
(* reads bytes, the interrupt handler it shares the two buffers with, and  *)
(* the peripheral.  A buffer call of the task is two steps, the entry and  *)
(* the exit of its critical section: it computes from what it read on      *)
(* entry, so only the masking keeps the handler's update from being lost.  *)
(* The handler is one step: nothing the two share runs above it.           *)
(***************************************************************************)
EXTENDS CBuffer

CONSTANTS
    Byte,       \* what a byte may be
    Zero,       \* what memory holds at reset
    NoByte,     \* the receive register is empty
    RxSize, TxSize,
    Strings     \* bound: the strings given to usart_hl_send_str

ASSUME UsartAssumption ==
    /\ RxSize \in Nat \ {0} /\ TxSize \in Nat \ {0}
    /\ Zero \in Byte /\ NoByte \notin Byte
    /\ Strings \subseteq Seq(Byte)

VARIABLES
    tx_buf, rx_buf,
    pc,         \* where the task is
    str,        \* the bytes usart_hl_send_str has still to add
    result,     \* what the last send returned
    got,        \* the byte usart_hl_get_byte returned last
    masked,     \* PRIMASK
    seen,       \* the buffer as the task read it on entry
    txeie,      \* the transmit interrupt is enabled
    txe, tdr,   \* transmit register: empty, and the byte last written to it
    rdr,        \* receive register
    ore         \* a byte was received before the last one was read

task == <<pc, str, result, got, masked, seen>>
hw == <<txe, tdr, rdr, ore>>
vars == <<tx_buf, rx_buf, txeie, task, hw>>

Blank(n) == bufferInit([i \in 0 .. n - 1 |-> Zero], n)

Init ==
    /\ tx_buf = Blank(TxSize) /\ rx_buf = Blank(RxSize)
    /\ pc = "idle" /\ str = <<>> /\ result = "OK" /\ got = Zero
    /\ masked = FALSE /\ seen = Blank(TxSize)
    /\ txeie = FALSE /\ txe = TRUE /\ tdr = Zero /\ rdr = NoByte /\ ore = FALSE

\* The interrupt line: the handler runs before the next step of the task.
Pending == (txe /\ txeie) \/ rdr # NoByte \/ ore
Runs(at) == pc = at /\ (masked \/ ~Pending)

\* Seeded fault: interrupts are left enabled.
Enter_Unmasked(at, b, to) ==
    /\ Runs(at)
    /\ masked' = FALSE
    /\ seen' = b
    /\ pc' = to
    /\ UNCHANGED <<tx_buf, rx_buf, txeie, str, result, got, hw>>

\* CRITICAL_SECTION_START and the read of the buffer's fields.
Enter(at, b, to) ==
    /\ Runs(at)
    /\ masked' = TRUE
    /\ seen' = b
    /\ pc' = to
    /\ UNCHANGED <<tx_buf, rx_buf, txeie, str, result, got, hw>>

\* CRITICAL_SECTION_END; what was read is out of scope.
Leave == masked' = FALSE /\ seen' = Blank(TxSize)

--------------------------------------------------------------------------
(* usart_hl_send is the string of one byte.                               *)
Begin(s) ==
    /\ Runs("idle")
    /\ str' = s
    /\ pc' = IF s = <<>> THEN "arm" ELSE "add"
    /\ UNCHANGED <<tx_buf, rx_buf, txeie, result, got, masked, seen, hw>>

usart_hl_send(x) == Begin(<<x>>)
usart_hl_send_str(s) == Begin(s)

AddEnter == Enter("add", tx_buf, "adding")

AddExit ==
    /\ Runs("adding")
    /\ Leave
    /\ tx_buf' = bufferAddToEnd(seen, Head(str))
    /\ \/ /\ HasRoom(seen)
          /\ pc' = IF Len(str) = 1 THEN "arm" ELSE "add"
          /\ str' = Tail(str)
          /\ UNCHANGED result
       \/ /\ ~HasRoom(seen)
          /\ pc' = "idle"
          /\ str' = <<>>
          /\ result' = "ERROR"
    /\ UNCHANGED <<rx_buf, txeie, got, hw>>

Arm ==
    /\ Runs("arm")
    /\ txeie' = TRUE
    /\ result' = "OK"
    /\ pc' = "idle"
    /\ UNCHANGED <<tx_buf, rx_buf, str, got, masked, seen, hw>>

--------------------------------------------------------------------------
(* usart_hl_get_byte tests the length before its critical section; with   *)
(* nothing received it returns without a change.                          *)
usart_hl_get_byte ==
    /\ Runs("idle")
    /\ rx_buf.length # 0
    /\ pc' = "get"
    /\ UNCHANGED <<tx_buf, rx_buf, txeie, str, result, got, masked, seen, hw>>

GetEnter == Enter("get", rx_buf, "getting")

GetExit ==
    /\ Runs("getting")
    /\ Leave
    /\ got' = IF seen.length = 0 THEN Zero ELSE Oldest(seen)
    /\ rx_buf' = bufferGetFromFront(seen)
    /\ pc' = "idle"
    /\ UNCHANGED <<tx_buf, txeie, str, result, hw>>

DumpEnter == Enter("idle", rx_buf, "dumping")

DumpExit(k) ==
    /\ Runs("dumping")
    /\ Leave
    /\ rx_buf' = bufferDumpFromFront(seen, k)
    /\ pc' = "idle"
    /\ UNCHANGED <<tx_buf, txeie, str, result, got, hw>>

\* One store, outside any critical section.
uartFlushReceiveBuffer ==
    /\ Runs("idle")
    /\ rx_buf' = bufferFlush(rx_buf)
    /\ UNCHANGED <<tx_buf, txeie, task, hw>>

--------------------------------------------------------------------------
\* Seeded fault: the interrupt is turned off with the last byte unsent.
IrqTransmit_OffEarly ==
    \/ /\ txe /\ tx_buf.length > 1
       /\ tdr' = Oldest(tx_buf)
       /\ tx_buf' = bufferGetFromFront(tx_buf)
       /\ txe' = FALSE
       /\ UNCHANGED txeie
    \/ /\ txe /\ tx_buf.length <= 1
       /\ txeie' = FALSE
       /\ UNCHANGED <<tx_buf, txe, tdr>>
    \/ /\ ~txe
       /\ UNCHANGED <<tx_buf, txeie, txe, tdr>>

IrqTransmit ==
    \/ /\ txe /\ tx_buf.length > 0
       /\ tdr' = Oldest(tx_buf)
       /\ tx_buf' = bufferGetFromFront(tx_buf)
       /\ txe' = FALSE
       /\ UNCHANGED txeie
    \/ /\ txe /\ tx_buf.length = 0
       /\ txeie' = FALSE
       /\ UNCHANGED <<tx_buf, txe, tdr>>
    \/ /\ ~txe
       /\ UNCHANGED <<tx_buf, txeie, txe, tdr>>

\* Seeded fault: a full buffer is flushed, as the Modbus driver does.
IrqReceive_FlushFull ==
    \/ /\ rdr # NoByte
       /\ rx_buf' = IF HasRoom(rx_buf)
                    THEN bufferAddToEnd(rx_buf, rdr) ELSE bufferFlush(rx_buf)
       /\ rdr' = NoByte
    \/ rdr = NoByte /\ UNCHANGED <<rx_buf, rdr>>

\* The result of bufferAddToEnd is ignored: with no room the byte is lost.
IrqReceive ==
    \/ /\ rdr # NoByte
       /\ rx_buf' = bufferAddToEnd(rx_buf, rdr)
       /\ rdr' = NoByte
    \/ rdr = NoByte /\ UNCHANGED <<rx_buf, rdr>>

\* Seeded fault: a byte received keeps the handler from transmitting.
def_usart_irq_fn_ElseIf ==
    /\ Pending /\ ~masked
    /\ IrqReceive
    /\ \/ rdr = NoByte /\ IrqTransmit
       \/ rdr # NoByte /\ UNCHANGED <<tx_buf, txeie, txe, tdr>>
    /\ UNCHANGED <<task, ore>>

\* It never clears the overrun flag, which keeps the line up for good.
def_usart_irq_fn ==
    /\ Pending /\ ~masked
    /\ IrqTransmit /\ IrqReceive
    /\ UNCHANGED <<task, ore>>

\* The peripheral moves the byte out, and receives one.
Shift ==
    /\ ~txe
    /\ txe' = TRUE
    /\ UNCHANGED <<tx_buf, rx_buf, txeie, task, tdr, rdr, ore>>

Receive(x) ==
    /\ rdr' = IF rdr = NoByte THEN x ELSE rdr
    /\ ore' = (ore \/ rdr # NoByte)
    /\ UNCHANGED <<tx_buf, rx_buf, txeie, task, txe, tdr>>

Calls ==
    \/ \E x \in Byte : usart_hl_send(x)
    \/ \E s \in Strings : usart_hl_send_str(s)
    \/ usart_hl_get_byte
    \/ DumpEnter
    \/ uartFlushReceiveBuffer

Inside ==
    \/ AddEnter \/ AddExit \/ Arm \/ GetEnter \/ GetExit
    \/ \E k \in 0 .. RxSize : DumpExit(k)

Next ==
    \/ Calls
    \/ Inside
    \/ def_usart_irq_fn
    \/ Shift
    \/ \E x \in Byte : Receive(x)

\* The handler and the peripheral always come to run; nobody has to call.
Spec ==
    /\ Init /\ [][Next]_vars
    /\ WF_vars(Inside) /\ WF_vars(def_usart_irq_fn) /\ WF_vars(Shift)
--------------------------------------------------------------------------
TaskStates ==
    {"idle", "add", "adding", "arm", "get", "getting", "dumping"}

\* Every variable keeps its type: neither side drives an index or a length
\* of a ring it shares with the other out of the ring.
TypeOK ==
    /\ tx_buf \in CBuffers(TxSize, Byte)
    /\ rx_buf \in CBuffers(RxSize, Byte)
    /\ seen \in CBuffers(TxSize, Byte) \cup CBuffers(RxSize, Byte)
    /\ pc \in TaskStates /\ str \in Seq(Byte) /\ result \in {"OK", "ERROR"}
    /\ got \in Byte /\ tdr \in Byte /\ rdr \in Byte \cup {NoByte}
    /\ masked \in BOOLEAN /\ txeie \in BOOLEAN
    /\ txe \in BOOLEAN /\ ore \in BOOLEAN

Tx == INSTANCE Fifo WITH Item <- Byte, Capacity <- TxSize,
                         q <- Contents(tx_buf), out <- tdr
Rx == INSTANCE Fifo WITH Item <- Byte, Capacity <- RxSize,
                         q <- Contents(rx_buf), out <- got

\* The two rings are queues, whatever the interleaving of task and handler:
\* what is accepted for transmission leaves in order, none of it lost, none
\* twice; what the task reads it reads in the order it was stored.
BuffersAreFifos == Tx!Lossless /\ Rx!Spec

\* When the last send said OK and the task is back, no byte waits without
\* the transmit interrupt: the handler's turning it off, having found the
\* buffer empty, never outlives an addition.  After a send that said ERROR
\* it may, with the buffer full: usart_hl_send_str gives up before it turns
\* the interrupt on, and so does every send that then finds no room.
OkMeansArmed ==
    pc = "idle" /\ result = "OK" /\ tx_buf.length > 0 => txeie

\* The byte whose presence usart_hl_get_byte tested outside its critical
\* section is still there inside it.
TestedByteIsThere == pc \in {"get", "getting"} => rx_buf.length > 0

\* A byte waiting with the transmit interrupt on is sent.
WaitingIsSent ==
    \A i \in 0 .. TxSize - 1 :
        tx_buf.length > 0 /\ tx_buf.index = i /\ txeie ~> tx_buf.index # i
=============================================================================
