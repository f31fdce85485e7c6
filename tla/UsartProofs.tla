---------------------------- MODULE UsartProofs ----------------------------
(***************************************************************************)
(* For rings of any size, any bytes and any strings: the types, the two    *)
(* invariants of Usart, and that each ring implements a queue.             *)
(***************************************************************************)
EXTENDS Usart, TLAPS

(***************************************************************************)
(* The ring.                                                               *)
(***************************************************************************)

\* Within two turns of the ring, the remainder is one subtraction at most.
LEMMA Wrap == ASSUME NEW n \in Nat \ {0}, NEW i \in 0 .. n - 1, NEW l \in 0 .. n
    PROVE  (i + l) % n = IF i + l < n THEN i + l ELSE i + l - n
<1> DEFINE k == i + l
<1>1. k \in Nat /\ k < n + n
  OBVIOUS
<1> HIDE DEF k
<1>2. CASE k < n
  <2>1. k % n = k
    BY <1>1, <1>2, SMT
  <2> QED BY <1>2, <2>1 DEF k
<1>3. CASE ~(k < n)
  <2> DEFINE j == k - n
  <2>1. j \in Nat /\ j < n /\ k = j + n
    BY <1>1, <1>3
  <2> HIDE DEF j
  <2>2. (j + n) % n = j
    BY <2>1, SMT
  <2>3. k % n = j /\ j = k - n
    BY <2>1, <2>2
  <2> QED BY <1>3, <2>3 DEF k
<1> QED BY <1>2, <1>3

LEMMA WrapFromOne ==
    ASSUME NEW n \in Nat \ {0}, NEW j \in 0 .. n - 1, NEW i \in 1 .. n
    PROVE  (j + (i - 1)) % n = IF j + (i - 1) < n THEN j + (i - 1) ELSE j + (i - 1) - n
<1> DEFINE l == i - 1
<1>1. l \in 0 .. n
  OBVIOUS
<1> HIDE DEF l
<1>2. (j + l) % n = IF j + l < n THEN j + l ELSE j + l - n
  BY <1>1, Wrap
<1> QED BY <1>2 DEF l

\* Where in memory the i-th byte of a buffer is.
Place(b, i) ==
    IF b.index + (i - 1) < b.size THEN b.index + (i - 1) ELSE b.index + (i - 1) - b.size

\* A buffer holds a sequence of bytes, as long as its length says.
LEMMA ContentsType ==
    ASSUME NEW n \in Nat \ {0}, NEW B, NEW b \in CBuffers(n, B)
    PROVE  /\ Contents(b) \in Seq(B)
           /\ Len(Contents(b)) = b.length
           /\ \A i \in 1 .. b.length :
                Contents(b)[i] = b.data[Place(b, i)] /\ Place(b, i) \in 0 .. n - 1
<1>1. /\ b.data \in [0 .. n - 1 -> B] /\ b.size = n
      /\ b.index \in 0 .. n - 1 /\ b.length \in 0 .. n
  BY DEF CBuffers
<1>2. ASSUME NEW i \in 1 .. b.length
      PROVE  bufferGetAtIndex(b, i - 1) = b.data[Place(b, i)] /\ Place(b, i) \in 0 .. n - 1
  <2>1. i \in 1 .. n
    BY <1>1
  <2>2. (b.index + (i - 1)) % b.size = Place(b, i)
    BY <1>1, <2>1, WrapFromOne DEF Place
  <2>3. Place(b, i) \in 0 .. n - 1
    BY <1>1, <2>1 DEF Place
  <2> QED BY <2>2, <2>3 DEF bufferGetAtIndex
<1>3. Contents(b) = [i \in 1 .. b.length |-> b.data[Place(b, i)]]
  BY <1>2 DEF Contents
<1>4. \A i \in 1 .. b.length : b.data[Place(b, i)] \in B
  BY <1>1, <1>2
<1>5. Contents(b) \in [1 .. b.length -> B]
  BY <1>3, <1>4
<1>6. Contents(b) \in Seq(B) /\ Len(Contents(b)) = b.length
  BY <1>1, <1>5
<1> QED BY <1>2, <1>3, <1>6

\* What bufferAddToEnd returns is a buffer, and holds one byte more.
LEMMA AddToEnd ==
    ASSUME NEW n \in Nat \ {0}, NEW B, NEW b \in CBuffers(n, B), NEW x \in B
    PROVE  /\ bufferAddToEnd(b, x) \in CBuffers(n, B)
           /\ HasRoom(b) => /\ Contents(bufferAddToEnd(b, x)) = Append(Contents(b), x)
                            /\ Len(Contents(b)) < n
           /\ ~HasRoom(b) => bufferAddToEnd(b, x) = b
<1>1. ~HasRoom(b) => bufferAddToEnd(b, x) = b
  BY DEF bufferAddToEnd
<1>2. SUFFICES ASSUME HasRoom(b)
               PROVE  /\ bufferAddToEnd(b, x) \in CBuffers(n, B)
                      /\ Contents(bufferAddToEnd(b, x)) = Append(Contents(b), x)
                      /\ Len(Contents(b)) < n
  BY <1>1
<1> DEFINE new == bufferAddToEnd(b, x)
           at == (b.index + b.length) % b.size
<1>3. /\ b.data \in [0 .. n - 1 -> B] /\ b.size = n
      /\ b.index \in 0 .. n - 1 /\ b.length \in 0 .. n - 1
  BY <1>2 DEF CBuffers, HasRoom
<1>4. at = IF b.index + b.length < n THEN b.index + b.length ELSE b.index + b.length - n
  <2>1. b.length \in 0 .. n
    BY <1>3
  <2> QED BY <1>3, <2>1, Wrap
<1>5. at \in 0 .. n - 1
  <2> HIDE DEF at
  <2> QED BY <1>3, <1>4
<1>6. /\ new = [b EXCEPT !.data[at] = x, !.length = @ + 1]
      /\ new.size = n /\ new.index = b.index /\ new.length = b.length + 1
      /\ new.data = [b.data EXCEPT ![at] = x]
  BY <1>2, <1>3 DEF bufferAddToEnd, CBuffers
<1> HIDE DEF at, new
<1>7. new \in CBuffers(n, B)
  <2>1. [b.data EXCEPT ![at] = x] \in [0 .. n - 1 -> B]
    BY <1>3, <1>5
  <2>2. new = [data |-> [b.data EXCEPT ![at] = x], size |-> n,
               index |-> b.index, length |-> b.length + 1]
    BY <1>2, <1>3 DEF bufferAddToEnd, CBuffers, new, at
  <2>3. b.length + 1 \in 0 .. n
    BY <1>3
  <2> QED BY <1>3, <2>1, <2>2, <2>3 DEF CBuffers
<1>8. /\ Contents(b) \in Seq(B) /\ Len(Contents(b)) = b.length
      /\ Contents(new) \in Seq(B) /\ Len(Contents(new)) = b.length + 1
  BY <1>6, <1>7, ContentsType
<1>9. ASSUME NEW i \in 1 .. b.length + 1
      PROVE  Contents(new)[i] = Append(Contents(b), x)[i]
  <2>1. Contents(new)[i] = new.data[Place(b, i)] /\ Place(b, i) \in 0 .. n - 1
    <3>1. Place(new, i) = Place(b, i)
      BY <1>3, <1>6 DEF Place
    <3>2. i \in 1 .. new.length
      BY <1>6
    <3> QED BY <1>7, <3>1, <3>2, ContentsType
  <2>2. CASE i = b.length + 1
    <3>1. Place(b, i) = at
      BY <1>3, <1>4, <2>2 DEF Place
    <3> QED BY <1>3, <1>5, <1>6, <1>8, <2>1, <2>2, <3>1
  <2>3. CASE i # b.length + 1
    <3>1. Place(b, i) # at
      BY <1>3, <1>4, <2>3 DEF Place
    <3>2. new.data[Place(b, i)] = b.data[Place(b, i)]
      BY <1>3, <1>6, <2>1, <3>1
    <3>3. Append(Contents(b), x)[i] = Contents(b)[i]
      BY <1>3, <1>8, <2>3
    <3>4. Contents(b)[i] = b.data[Place(b, i)]
      BY <1>3, <2>3, ContentsType
    <3> QED BY <2>1, <3>2, <3>3, <3>4
  <2> QED BY <2>2, <2>3
<1>10. Contents(new) = Append(Contents(b), x)
  BY <1>3, <1>8, <1>9
<1> QED BY <1>2, <1>3, <1>7, <1>8, <1>10 DEF new

\* The buffer with its k oldest bytes taken.
Left(b, k) == [b EXCEPT !.index = Advance(b, k), !.length = @ - k]

\* Taking k bytes, fewer than there are or all of them, leaves the others.
LEMMA TakeSome ==
    ASSUME NEW n \in Nat \ {0}, NEW B, NEW b \in CBuffers(n, B),
           NEW k \in 0 .. b.length
    PROVE  /\ Left(b, k) \in CBuffers(n, B)
           /\ Contents(Left(b, k)) = SubSeq(Contents(b), k + 1, Len(Contents(b)))
<1> DEFINE c == Left(b, k)
<1>1. /\ b.data \in [0 .. n - 1 -> B] /\ b.size = n
      /\ b.index \in 0 .. n - 1 /\ b.length \in 0 .. n
  BY DEF CBuffers
<1>2. Advance(b, k) = IF b.index + k >= n THEN b.index + k - n ELSE b.index + k
  BY <1>1 DEF Advance
<1>3. k \in Nat /\ b.length - k \in 0 .. n /\ Advance(b, k) \in 0 .. n - 1
  BY <1>1, <1>2
<1>9. c.data = b.data /\ c.size = n /\ c.index = Advance(b, k) /\ c.length = b.length - k
  BY <1>1 DEF CBuffers, Left
<1>4. c \in CBuffers(n, B)
  BY <1>1, <1>3 DEF CBuffers, Left
<1> HIDE DEF c
<1>5. /\ Contents(b) \in Seq(B) /\ Len(Contents(b)) = b.length
      /\ Contents(c) \in Seq(B) /\ Len(Contents(c)) = b.length - k
  BY <1>4, <1>9, ContentsType
<1>6. ASSUME NEW i \in 1 .. b.length - k
      PROVE  Contents(c)[i] = Contents(b)[i + k]
  <2>1. Contents(c)[i] = b.data[Place(c, i)]
    <3>1. i \in 1 .. c.length
      BY <1>9
    <3>2. Contents(c)[i] = c.data[Place(c, i)]
      BY <1>4, <3>1, ContentsType
    <3> QED BY <1>9, <3>2
  <2>2. Contents(b)[i + k] = b.data[Place(b, i + k)]
    <3>1. i + k \in 1 .. b.length
      BY <1>1
    <3> QED BY <3>1, ContentsType
  <2>3. Place(c, i) = Place(b, i + k)
    <3>1. i \in Nat /\ i >= 1 /\ i + k <= b.length
      BY <1>1, <1>3
    <3>2. b.index \in Nat /\ b.index < n /\ k \in Nat /\ n \in Nat
      BY <1>1, <1>3
    <3>3. c.index = IF b.index + k >= n THEN b.index + k - n ELSE b.index + k
      BY <1>2, <1>9
    <3> DEFINE d == b.index
               m == c.index
    <3>4. m = IF d + k >= n THEN d + k - n ELSE d + k
      BY <3>3
    <3>5. /\ Place(c, i) = IF m + (i - 1) < n THEN m + (i - 1) ELSE m + (i - 1) - n
          /\ Place(b, i + k) = IF d + (i + k - 1) < n THEN d + (i + k - 1)
                                                     ELSE d + (i + k - 1) - n
      BY <1>1, <1>9 DEF Place
    <3>6. i - 1 < n - k
      BY <1>1, <3>1, <3>2
    <3> HIDE DEF d, m
    <3>7. d \in Nat /\ d < n
      BY <3>2 DEF d
    <3>8. CASE d + k >= n
      BY <3>1, <3>2, <3>4, <3>5, <3>6, <3>7, <3>8
    <3>9. CASE d + k < n
      BY <3>1, <3>2, <3>4, <3>5, <3>6, <3>7, <3>9
    <3> QED BY <3>2, <3>7, <3>8, <3>9
  <2> QED BY <2>1, <2>2, <2>3
<1>7. Contents(c) = SubSeq(Contents(b), k + 1, Len(Contents(b)))
  <2> DEFINE s == Contents(b)
             t == Contents(c)
  <2>1. s \in Seq(B) /\ t \in Seq(B) /\ Len(t) = Len(s) - k /\ k \in 0 .. Len(s)
    BY <1>1, <1>3, <1>5
  <2>2. \A i \in 1 .. Len(s) - k : t[i] = s[i + k]
    BY <1>5, <1>6
  <2> HIDE DEF s, t
  <2>3. t = SubSeq(s, k + 1, Len(s))
    BY <2>1, <2>2
  <2> QED BY <2>3 DEF s, t
<1> QED BY <1>4, <1>7 DEF c

\* What bufferGetFromFront leaves is all but the oldest byte.
LEMMA GetFromFront ==
    ASSUME NEW n \in Nat \ {0}, NEW B, NEW b \in CBuffers(n, B)
    PROVE  /\ bufferGetFromFront(b) \in CBuffers(n, B)
           /\ b.length > 0 => /\ Contents(bufferGetFromFront(b)) = Tail(Contents(b))
                              /\ Contents(b) # <<>>
                              /\ Oldest(b) = Head(Contents(b))
                              /\ Oldest(b) \in B
           /\ b.length = 0 => bufferGetFromFront(b) = b
<1>1. /\ b.data \in [0 .. n - 1 -> B] /\ b.index \in 0 .. n - 1 /\ b.length \in 0 .. n /\ b.size = n
  BY DEF CBuffers
<1>2. CASE b.length = 0
  BY <1>1, <1>2 DEF bufferGetFromFront
<1>3. CASE b.length > 0
  <2>1. bufferGetFromFront(b) = Left(b, 1)
    BY <1>1, <1>3 DEF bufferGetFromFront, Left
  <2>2. /\ bufferGetFromFront(b) \in CBuffers(n, B)
        /\ Contents(bufferGetFromFront(b)) = SubSeq(Contents(b), 1 + 1, Len(Contents(b)))
    <3>1. 1 \in 0 .. b.length
      BY <1>1, <1>3
    <3> QED BY <2>1, <3>1, TakeSome
  <2>3. /\ Contents(b) \in Seq(B) /\ Len(Contents(b)) = b.length
        /\ Contents(b)[1] = b.data[Place(b, 1)]
    BY <1>1, <1>3, ContentsType
  <2>4. Place(b, 1) = b.index
    <3>1. b.index + (1 - 1) = b.index /\ b.index < b.size
      BY <1>1
    <3> QED BY <3>1 DEF Place
  <2>5. Contents(b) # <<>> /\ Oldest(b) = Head(Contents(b)) /\ Oldest(b) \in B
    BY <1>1, <1>3, <2>3, <2>4 DEF Oldest
  <2>6. SubSeq(Contents(b), 1 + 1, Len(Contents(b))) = Tail(Contents(b))
    BY <1>3, <2>3
  <2> QED BY <1>3, <2>2, <2>5, <2>6
<1> QED BY <1>1, <1>2, <1>3

\* Dumping and flushing throw the oldest bytes away.
LEMMA DumpFromFront ==
    ASSUME NEW n \in Nat \ {0}, NEW B, NEW b \in CBuffers(n, B), NEW k \in Nat
    PROVE  /\ bufferDumpFromFront(b, k) \in CBuffers(n, B)
           /\ \E j \in 0 .. Len(Contents(b)) :
                Contents(bufferDumpFromFront(b, k)) = SubSeq(Contents(b), j + 1, Len(Contents(b)))
<1>1. b.length \in 0 .. n /\ Len(Contents(b)) = b.length
  BY ContentsType DEF CBuffers
<1>2. CASE k < b.length
  <2>1. bufferDumpFromFront(b, k) = Left(b, k)
    BY <1>2 DEF bufferDumpFromFront, Left
  <2>2. k \in 0 .. b.length
    BY <1>1, <1>2
  <2>3. /\ bufferDumpFromFront(b, k) \in CBuffers(n, B)
        /\ Contents(bufferDumpFromFront(b, k)) = SubSeq(Contents(b), k + 1, Len(Contents(b)))
    BY <2>1, <2>2, TakeSome
  <2> QED BY <1>1, <2>2, <2>3
<1>3. CASE ~(k < b.length)
  <2>1. bufferDumpFromFront(b, k) = [b EXCEPT !.length = 0]
    BY <1>3 DEF bufferDumpFromFront
  <2>2. bufferDumpFromFront(b, k) \in CBuffers(n, B)
    BY <2>1 DEF CBuffers
  <2>3. bufferDumpFromFront(b, k).length = 0
    BY <2>1 DEF CBuffers
  <2>4. Contents(bufferDumpFromFront(b, k)) = <<>>
    BY <2>2, <2>3, ContentsType
  <2>5. SubSeq(Contents(b), b.length + 1, Len(Contents(b))) = <<>>
    BY <1>1, ContentsType
  <2> QED BY <1>1, <2>2, <2>4, <2>5
<1> QED BY <1>2, <1>3

LEMMA Flush ==
    ASSUME NEW n \in Nat \ {0}, NEW B, NEW b \in CBuffers(n, B)
    PROVE  /\ bufferFlush(b) \in CBuffers(n, B)
           /\ \E j \in 0 .. Len(Contents(b)) :
                Contents(bufferFlush(b)) = SubSeq(Contents(b), j + 1, Len(Contents(b)))
<1>1. bufferFlush(b) = bufferDumpFromFront(b, n)
  BY DEF bufferFlush, bufferDumpFromFront, CBuffers
<1> QED BY <1>1, DumpFromFront

(***************************************************************************)
(* The invariant.                                                          *)
(***************************************************************************)

\* The task in a critical section has read the buffer as it still is.
SectionInv ==
    /\ pc \in {"adding", "getting", "dumping"} => masked
    /\ pc = "adding" => seen = tx_buf
    /\ pc \in {"getting", "dumping"} => seen = rx_buf

StringInv == pc \in {"add", "adding"} => str # <<>>

\* A byte that waits unarmed after a send that said OK is being sent.
ArmedInv ==
    tx_buf.length > 0 /\ result = "OK" /\ ~txeie => pc \in {"add", "adding", "arm"}

IInv == TypeOK /\ SectionInv /\ StringInv /\ ArmedInv /\ TestedByteIsThere

TxPut(x) == HasRoom(tx_buf) /\ tx_buf' = bufferAddToEnd(tx_buf, x) /\ tdr' = tdr
TxTake == /\ tx_buf.length > 0
          /\ tx_buf' = bufferGetFromFront(tx_buf)
          /\ tdr' = Oldest(tx_buf)
RxPut(x) == rx_buf' = bufferAddToEnd(rx_buf, x) /\ got' = got
RxTake == /\ rx_buf.length > 0
          /\ rx_buf' = bufferGetFromFront(rx_buf)
          /\ got' = Oldest(rx_buf)
RxDrop == /\ \/ rx_buf' = bufferFlush(rx_buf)
             \/ \E k \in Nat : rx_buf' = bufferDumpFromFront(rx_buf, k)
          /\ got' = got

USE DEF Runs, Leave, Enter, Begin

\* What a step does to the transmit ring: it adds at the end, takes the
\* oldest byte for the transmit register, or leaves both alone.
LEMMA TxSteps ==
    ASSUME TypeOK, SectionInv, StringInv, [Next]_vars
    PROVE  \/ UNCHANGED <<tx_buf, tdr>>
           \/ pc = "adding" /\ \E x \in Byte : TxPut(x)
           \/ TxTake /\ def_usart_irq_fn
<1>1. CASE AddExit
  <2>1. tx_buf' = bufferAddToEnd(tx_buf, Head(str)) /\ tdr' = tdr /\ pc = "adding"
    BY <1>1 DEF AddExit, SectionInv, hw
  <2>2. Head(str) \in Byte
    BY <2>1 DEF TypeOK, StringInv
  <2>3. CASE HasRoom(tx_buf)
    BY <2>1, <2>2, <2>3 DEF TxPut
  <2>4. CASE ~HasRoom(tx_buf)
    BY <2>1, <2>4 DEF bufferAddToEnd
  <2> QED BY <2>3, <2>4
<1>2. CASE def_usart_irq_fn
  BY <1>2 DEF def_usart_irq_fn, IrqTransmit, TxTake
<1>3. CASE UNCHANGED vars
  BY <1>3 DEF vars, hw
<1>4. CASE Calls
  BY <1>4 DEF Calls, usart_hl_send, usart_hl_send_str, usart_hl_get_byte, DumpEnter,
              uartFlushReceiveBuffer, hw
<1>5. CASE Inside /\ ~AddExit
  BY <1>5 DEF Inside, AddEnter, Arm, GetEnter, GetExit, DumpExit, hw
<1>6. CASE Shift \/ \E x \in Byte : Receive(x)
  BY <1>6 DEF Shift, Receive
<1> QED BY <1>1, <1>2, <1>3, <1>4, <1>5, <1>6 DEF Next

\* What a step does to the receive ring.
LEMMA RxSteps ==
    ASSUME TypeOK, SectionInv, TestedByteIsThere, [Next]_vars
    PROVE  \/ UNCHANGED <<rx_buf, got>>
           \/ pc \notin {"getting", "dumping"} /\ \E x \in Byte : RxPut(x)
           \/ pc = "getting" /\ pc' = "idle" /\ RxTake
           \/ pc' = "idle" /\ RxDrop
<1>1. CASE GetExit
  BY <1>1 DEF GetExit, SectionInv, TestedByteIsThere, RxTake
<1>2. CASE \E k \in 0 .. RxSize : DumpExit(k)
  BY <1>2 DEF DumpExit, SectionInv, RxDrop
<1>3. CASE uartFlushReceiveBuffer
  BY <1>3 DEF uartFlushReceiveBuffer, RxDrop, task
<1>4. CASE def_usart_irq_fn
  <2>1. got' = got /\ pc \notin {"getting", "dumping"}
    BY <1>4 DEF def_usart_irq_fn, task, SectionInv
  <2>2. UNCHANGED rx_buf \/ (rdr # NoByte /\ rx_buf' = bufferAddToEnd(rx_buf, rdr))
    BY <1>4 DEF def_usart_irq_fn, IrqReceive
  <2> QED BY <2>1, <2>2 DEF TypeOK, RxPut
<1>5. CASE UNCHANGED vars
  BY <1>5 DEF vars, task
<1>6. CASE Calls /\ ~uartFlushReceiveBuffer
  BY <1>6 DEF Calls, usart_hl_send, usart_hl_send_str, usart_hl_get_byte, DumpEnter
<1>7. CASE AddEnter \/ AddExit \/ Arm \/ GetEnter
  BY <1>7 DEF AddEnter, AddExit, Arm, GetEnter
<1>8. CASE Shift \/ \E x \in Byte : Receive(x)
  BY <1>8 DEF Shift, Receive, task
<1> QED BY <1>1, <1>2, <1>3, <1>4, <1>5, <1>6, <1>7, <1>8 DEF Next, Inside

LEMMA RingTypes ==
    ASSUME TypeOK, SectionInv, StringInv, TestedByteIsThere, [Next]_vars
    PROVE  /\ tx_buf' \in CBuffers(TxSize, Byte) /\ tdr' \in Byte
           /\ rx_buf' \in CBuffers(RxSize, Byte) /\ got' \in Byte
<1>1. /\ tx_buf \in CBuffers(TxSize, Byte) /\ tdr \in Byte /\ TxSize \in Nat \ {0}
      /\ rx_buf \in CBuffers(RxSize, Byte) /\ got \in Byte /\ RxSize \in Nat \ {0}
  BY UsartAssumption DEF TypeOK
<1>2. tx_buf' \in CBuffers(TxSize, Byte) /\ tdr' \in Byte
  <2>1. CASE UNCHANGED <<tx_buf, tdr>>
    BY <1>1, <2>1
  <2>2. CASE \E x \in Byte : TxPut(x)
    BY <1>1, <2>2, AddToEnd DEF TxPut
  <2>3. CASE TxTake
    BY <1>1, <2>3, GetFromFront DEF TxTake
  <2> QED BY <2>1, <2>2, <2>3, TxSteps
<1>3. rx_buf' \in CBuffers(RxSize, Byte) /\ got' \in Byte
  <2>1. CASE UNCHANGED <<rx_buf, got>>
    BY <1>1, <2>1
  <2>2. CASE \E x \in Byte : RxPut(x)
    BY <1>1, <2>2, AddToEnd DEF RxPut
  <2>3. CASE RxTake
    BY <1>1, <2>3, GetFromFront DEF RxTake
  <2>4. CASE RxDrop
    BY <1>1, <2>4, DumpFromFront, Flush DEF RxDrop
  <2> QED BY <2>1, <2>2, <2>3, <2>4, RxSteps
<1> QED BY <1>2, <1>3

\* Every way a step can be taken.
LEMMA Cases ==
    ASSUME [Next]_vars
    PROVE  \/ \E s \in Strings \cup {<<x>> : x \in Byte} : Begin(s)
           \/ usart_hl_get_byte \/ DumpEnter \/ uartFlushReceiveBuffer
           \/ AddEnter \/ AddExit \/ Arm \/ GetEnter \/ GetExit
           \/ \E k \in 0 .. RxSize : DumpExit(k)
           \/ def_usart_irq_fn \/ Shift \/ (\E x \in Byte : Receive(x))
           \/ UNCHANGED vars
BY DEF Next, Calls, Inside, usart_hl_send, usart_hl_send_str

\* The strings begun with are of bytes.
LEMMA StringsOfBytes == \A s \in Strings \cup {<<x>> : x \in Byte} : s \in Seq(Byte)
<1>1. \A s \in Strings : s \in Seq(Byte)
  BY UsartAssumption
<1>2. \A x \in Byte : <<x>> \in Seq(Byte)
  OBVIOUS
<1> QED BY <1>1, <1>2

LEMMA OtherTypes ==
    ASSUME TypeOK, StringInv, [Next]_vars
    PROVE  /\ seen' \in CBuffers(TxSize, Byte) \cup CBuffers(RxSize, Byte)
           /\ pc' \in TaskStates /\ str' \in Seq(Byte) /\ result' \in {"OK", "ERROR"}
           /\ rdr' \in Byte \cup {NoByte}
<1> USE DEF TypeOK, TaskStates
<1>1. Blank(TxSize) \in CBuffers(TxSize, Byte)
  BY UsartAssumption DEF Blank, bufferInit, CBuffers
<1>2. CASE \E s \in Strings \cup {<<x>> : x \in Byte} : Begin(s)
  BY <1>2, StringsOfBytes DEF hw
<1>3. CASE usart_hl_get_byte \/ DumpEnter \/ uartFlushReceiveBuffer
  BY <1>3 DEF usart_hl_get_byte, DumpEnter, uartFlushReceiveBuffer, task, hw
<1>4. CASE AddEnter \/ Arm \/ GetEnter
  BY <1>4 DEF AddEnter, Arm, GetEnter, hw
<1>5. CASE AddExit
  <2>1. pc = "adding" /\ str # <<>>
    BY <1>5 DEF AddExit, StringInv
  <2>2. Tail(str) \in Seq(Byte) /\ <<>> \in Seq(Byte)
    BY <2>1
  <2> QED BY <1>1, <1>5, <2>2 DEF AddExit, hw
<1>6. CASE GetExit \/ \E k \in 0 .. RxSize : DumpExit(k)
  BY <1>1, <1>6 DEF GetExit, DumpExit, hw
<1>7. CASE def_usart_irq_fn \/ Shift \/ (\E x \in Byte : Receive(x)) \/ UNCHANGED vars
  BY <1>7 DEF def_usart_irq_fn, IrqTransmit, IrqReceive, Shift, Receive, vars, task, hw
<1> QED BY <1>2, <1>3, <1>4, <1>5, <1>6, <1>7, Cases

LEMMA FlagTypes ==
    ASSUME TypeOK, [Next]_vars
    PROVE  masked' \in BOOLEAN /\ txeie' \in BOOLEAN /\ txe' \in BOOLEAN /\ ore' \in BOOLEAN
<1> USE DEF TypeOK
<1>1. CASE \E s \in Strings \cup {<<x>> : x \in Byte} : Begin(s)
  BY <1>1 DEF hw
<1>2. CASE usart_hl_get_byte \/ DumpEnter \/ uartFlushReceiveBuffer
  BY <1>2 DEF usart_hl_get_byte, DumpEnter, uartFlushReceiveBuffer, task, hw
<1>3. CASE AddEnter \/ AddExit \/ Arm \/ GetEnter
  BY <1>3 DEF AddEnter, AddExit, Arm, GetEnter, hw
<1>4. CASE GetExit \/ \E k \in 0 .. RxSize : DumpExit(k)
  BY <1>4 DEF GetExit, DumpExit, hw
<1>5. CASE def_usart_irq_fn
  BY <1>5 DEF def_usart_irq_fn, IrqTransmit, task
<1>6. CASE Shift \/ UNCHANGED vars
  BY <1>6 DEF Shift, vars, task, hw
<1>7. CASE \E x \in Byte : Receive(x)
  <2>1. masked' = masked /\ txeie' = txeie /\ txe' = txe /\ (ore' = ore \/ ore' = TRUE)
    BY <1>7, Zenon DEF Receive, task
  <2> QED BY <2>1
<1> QED BY <1>1, <1>2, <1>3, <1>4, <1>5, <1>6, <1>7, Cases

LEMMA SectionNext ==
    ASSUME TypeOK, SectionInv, [Next]_vars
    PROVE  SectionInv'
<1> USE DEF SectionInv
<1>1. CASE \E s \in Strings \cup {<<x>> : x \in Byte} : Begin(s)
  BY <1>1 DEF hw
<1>2. CASE usart_hl_get_byte \/ DumpEnter \/ uartFlushReceiveBuffer
  BY <1>2 DEF usart_hl_get_byte, DumpEnter, uartFlushReceiveBuffer, task, hw
<1>3. CASE AddEnter \/ AddExit \/ Arm \/ GetEnter
  BY <1>3 DEF AddEnter, AddExit, Arm, GetEnter, hw
<1>4. CASE GetExit \/ \E k \in 0 .. RxSize : DumpExit(k)
  BY <1>4 DEF GetExit, DumpExit, hw
<1>5. CASE def_usart_irq_fn
  BY <1>5 DEF def_usart_irq_fn, task
<1>6. CASE Shift \/ (\E x \in Byte : Receive(x)) \/ UNCHANGED vars
  BY <1>6 DEF Shift, Receive, vars, task, hw
<1> QED BY <1>1, <1>2, <1>3, <1>4, <1>5, <1>6, Cases

LEMMA StringNext ==
    ASSUME TypeOK, StringInv, [Next]_vars
    PROVE  StringInv'
<1> USE DEF StringInv
<1>1. CASE \E s \in Strings \cup {<<x>> : x \in Byte} : Begin(s)
  BY <1>1 DEF hw
<1>2. CASE usart_hl_get_byte \/ DumpEnter \/ uartFlushReceiveBuffer
  BY <1>2 DEF usart_hl_get_byte, DumpEnter, uartFlushReceiveBuffer, task, hw
<1>3. CASE AddEnter \/ Arm \/ GetEnter
  BY <1>3 DEF AddEnter, Arm, GetEnter, hw
<1>4. CASE AddExit
  <2>1. pc = "adding" /\ str \in Seq(Byte) /\ str # <<>>
    BY <1>4 DEF AddExit, TypeOK
  <2>2. Len(str) # 1 => Tail(str) # <<>>
    <3>1. Len(Tail(str)) = Len(str) - 1 /\ Len(str) \in Nat /\ Len(str) # 0
      BY <2>1
    <3>2. Len(str) # 1 => Len(Tail(str)) # 0
      BY <3>1
    <3> QED BY <3>2
  <2> QED BY <1>4, <2>2 DEF AddExit
<1>5. CASE GetExit \/ \E k \in 0 .. RxSize : DumpExit(k)
  BY <1>5 DEF GetExit, DumpExit, hw
<1>6. CASE def_usart_irq_fn \/ Shift \/ (\E x \in Byte : Receive(x)) \/ UNCHANGED vars
  BY <1>6 DEF def_usart_irq_fn, Shift, Receive, vars, task, hw
<1> QED BY <1>1, <1>2, <1>3, <1>4, <1>5, <1>6, Cases

\* The handler turns the interrupt off only with the ring empty, and what
\* the task adds after that is armed before its call returns.
LEMMA ArmedNext ==
    ASSUME TypeOK, SectionInv, StringInv, ArmedInv, [Next]_vars
    PROVE  ArmedInv'
<1> USE DEF ArmedInv
<1>1. CASE \E s \in Strings \cup {<<x>> : x \in Byte} : Begin(s)
  BY <1>1 DEF hw
<1>2. CASE usart_hl_get_byte \/ DumpEnter \/ uartFlushReceiveBuffer
  BY <1>2 DEF usart_hl_get_byte, DumpEnter, uartFlushReceiveBuffer, task, hw
<1>3. CASE AddEnter \/ AddExit \/ Arm \/ GetEnter
  BY <1>3 DEF AddEnter, AddExit, Arm, GetEnter, hw
<1>4. CASE GetExit \/ \E k \in 0 .. RxSize : DumpExit(k)
  BY <1>4 DEF GetExit, DumpExit, hw
<1>5. CASE def_usart_irq_fn
  <2>1. UNCHANGED <<pc, result>>
    BY <1>5 DEF def_usart_irq_fn, task
  <2>2. \/ tx_buf.length = 0 /\ tx_buf' = tx_buf
        \/ tx_buf.length > 0 /\ txeie' = txeie
        \/ UNCHANGED <<tx_buf, txeie>>
    BY <1>5 DEF def_usart_irq_fn, IrqTransmit
  <2> QED BY <2>1, <2>2
<1>6. CASE Shift \/ (\E x \in Byte : Receive(x)) \/ UNCHANGED vars
  BY <1>6 DEF Shift, Receive, vars, task, hw
<1> QED BY <1>1, <1>2, <1>3, <1>4, <1>5, <1>6, Cases

\* Between the test and the read only the handler runs, and it only adds.
LEMMA TestedNext ==
    ASSUME TypeOK, SectionInv, TestedByteIsThere, [Next]_vars
    PROVE  TestedByteIsThere'
<1> USE DEF TestedByteIsThere
<1>1. CASE \E s \in Strings \cup {<<x>> : x \in Byte} : Begin(s)
  BY <1>1 DEF hw
<1>2. CASE usart_hl_get_byte \/ DumpEnter \/ uartFlushReceiveBuffer
  <2>1. rx_buf.length \in Nat
    BY UsartAssumption DEF TypeOK, CBuffers
  <2> QED BY <1>2, <2>1 DEF usart_hl_get_byte, DumpEnter, uartFlushReceiveBuffer, task, hw
<1>3. CASE AddEnter \/ AddExit \/ Arm \/ GetEnter
  BY <1>3 DEF AddEnter, AddExit, Arm, GetEnter, hw
<1>4. CASE GetExit \/ \E k \in 0 .. RxSize : DumpExit(k)
  BY <1>4 DEF GetExit, DumpExit, hw
<1>5. CASE def_usart_irq_fn
  <2>1. UNCHANGED pc
    BY <1>5 DEF def_usart_irq_fn, task
  <2>2. UNCHANGED rx_buf \/ rx_buf' = bufferAddToEnd(rx_buf, rdr)
    BY <1>5 DEF def_usart_irq_fn, IrqReceive
  <2>3. rx_buf.length \in Nat /\ rx_buf.data \in [0 .. RxSize - 1 -> Byte]
    BY UsartAssumption DEF TypeOK, CBuffers
  <2>4. bufferAddToEnd(rx_buf, rdr).length \in {rx_buf.length, rx_buf.length + 1}
    BY UsartAssumption DEF TypeOK, bufferAddToEnd, CBuffers
  <2> QED BY <2>1, <2>2, <2>3, <2>4
<1>6. CASE Shift \/ (\E x \in Byte : Receive(x)) \/ UNCHANGED vars
  BY <1>6 DEF Shift, Receive, vars, task, hw
<1> QED BY <1>1, <1>2, <1>3, <1>4, <1>5, <1>6, Cases

LEMMA IInvInit == Init => IInv
<1> SUFFICES ASSUME Init PROVE IInv
  OBVIOUS
<1>1. /\ Blank(TxSize) \in CBuffers(TxSize, Byte) /\ Blank(TxSize).length = 0
      /\ Blank(RxSize) \in CBuffers(RxSize, Byte)
  BY UsartAssumption DEF Blank, bufferInit, CBuffers
<1>2. TypeOK
  <2>1. /\ tx_buf \in CBuffers(TxSize, Byte) /\ rx_buf \in CBuffers(RxSize, Byte)
        /\ seen \in CBuffers(TxSize, Byte) \cup CBuffers(RxSize, Byte)
    BY <1>1 DEF Init
  <2>2. /\ pc \in TaskStates /\ str \in Seq(Byte) /\ result \in {"OK", "ERROR"}
        /\ got \in Byte /\ tdr \in Byte /\ rdr \in Byte \cup {NoByte}
    BY UsartAssumption DEF Init, TaskStates
  <2>3. masked \in BOOLEAN /\ txeie \in BOOLEAN /\ txe \in BOOLEAN /\ ore \in BOOLEAN
    BY DEF Init
  <2> QED BY <2>1, <2>2, <2>3 DEF TypeOK
<1>3. SectionInv /\ StringInv /\ ArmedInv /\ TestedByteIsThere
  BY <1>1 DEF Init, SectionInv, StringInv, ArmedInv, TestedByteIsThere
<1> QED BY <1>2, <1>3 DEF IInv

LEMMA IInvNext == IInv /\ [Next]_vars => IInv'
<1> SUFFICES ASSUME IInv, [Next]_vars PROVE IInv'
  OBVIOUS
<1>1. TypeOK /\ SectionInv /\ StringInv /\ ArmedInv /\ TestedByteIsThere
  BY DEF IInv
<1>2. TypeOK'
  <2>1. /\ tx_buf' \in CBuffers(TxSize, Byte) /\ tdr' \in Byte
        /\ rx_buf' \in CBuffers(RxSize, Byte) /\ got' \in Byte
    BY <1>1, RingTypes
  <2>2. /\ seen' \in CBuffers(TxSize, Byte) \cup CBuffers(RxSize, Byte)
        /\ pc' \in TaskStates /\ str' \in Seq(Byte) /\ result' \in {"OK", "ERROR"}
        /\ rdr' \in Byte \cup {NoByte}
    BY <1>1, OtherTypes
  <2>3. masked' \in BOOLEAN /\ txeie' \in BOOLEAN /\ txe' \in BOOLEAN /\ ore' \in BOOLEAN
    BY <1>1, FlagTypes
  <2> QED BY <2>1, <2>2, <2>3 DEF TypeOK
<1>3. SectionInv' /\ StringInv'
  BY <1>1, SectionNext, StringNext
<1>4. ArmedInv' /\ TestedByteIsThere'
  BY <1>1, ArmedNext, TestedNext
<1> QED BY <1>2, <1>3, <1>4 DEF IInv

LEMMA Invariant == Spec => []IInv
BY IInvInit, IInvNext, PTL DEF Spec

\* Every variable of the USART keeps its type: no index and no length of a
\* ring leaves the ring.
THEOREM TypeCorrect == Spec => []TypeOK
<1>1. IInv => TypeOK
  BY DEF IInv
<1> QED BY <1>1, Invariant, PTL

\* No byte is left without the transmit interrupt by a send that said OK.
THEOREM SendsAreArmed == Spec => []OkMeansArmed
<1>1. IInv => OkMeansArmed
  BY DEF IInv, ArmedInv, OkMeansArmed
<1> QED BY <1>1, Invariant, PTL

\* The byte tested outside the critical section is there inside it.
THEOREM TestStaysTrue == Spec => []TestedByteIsThere
<1>1. IInv => TestedByteIsThere
  BY DEF IInv
<1> QED BY <1>1, Invariant, PTL

(***************************************************************************)
(* Each ring implements a queue.                                           *)
(***************************************************************************)

LEMMA BlankIsEmpty == ASSUME NEW n \in Nat \ {0} PROVE Contents(Blank(n)) = <<>>
BY DEF Contents, Blank, bufferInit

LEMMA TxStep ==
    IInv /\ [Next]_vars => [Tx!Take \/ \E x \in Byte : Tx!Put(x)]_<<Contents(tx_buf), tdr>>
<1> SUFFICES ASSUME IInv, [Next]_vars
             PROVE  [Tx!Take \/ \E x \in Byte : Tx!Put(x)]_<<Contents(tx_buf), tdr>>
  OBVIOUS
<1>1. tx_buf \in CBuffers(TxSize, Byte) /\ TxSize \in Nat \ {0}
  BY UsartAssumption DEF IInv, TypeOK
<1>2. CASE UNCHANGED <<tx_buf, tdr>>
  BY <1>2 DEF Contents
<1>3. CASE \E x \in Byte : TxPut(x)
  <2>1. PICK x \in Byte : TxPut(x)
    BY <1>3
  <2>2. /\ Contents(tx_buf)' = Append(Contents(tx_buf), x)
        /\ Len(Contents(tx_buf)) < TxSize /\ tdr' = tdr
    BY <1>1, <2>1, AddToEnd DEF TxPut
  <2> QED BY <2>2 DEF Tx!Put
<1>4. CASE TxTake
  <2>1. Contents(tx_buf)' = Tail(Contents(tx_buf)) /\ Contents(tx_buf) # <<>>
    BY <1>1, <1>4, GetFromFront DEF TxTake
  <2>2. tdr' = Head(Contents(tx_buf))
    BY <1>1, <1>4, GetFromFront DEF TxTake
  <2> QED BY <2>1, <2>2 DEF Tx!Take
<1> QED BY <1>2, <1>3, <1>4, TxSteps DEF IInv

LEMMA RxStep ==
    IInv /\ [Next]_vars => [Rx!Next]_<<Contents(rx_buf), got>>
<1> SUFFICES ASSUME IInv, [Next]_vars
             PROVE  [Rx!Next]_<<Contents(rx_buf), got>>
  OBVIOUS
<1>1. rx_buf \in CBuffers(RxSize, Byte) /\ RxSize \in Nat \ {0}
  BY UsartAssumption DEF IInv, TypeOK
<1>2. CASE UNCHANGED <<rx_buf, got>>
  BY <1>2 DEF Contents
<1>3. CASE \E x \in Byte : RxPut(x)
  <2>1. PICK x \in Byte : RxPut(x)
    BY <1>3
  <2>2. CASE HasRoom(rx_buf)
    <3>1. /\ Contents(rx_buf)' = Append(Contents(rx_buf), x)
          /\ Len(Contents(rx_buf)) < RxSize /\ got' = got
      BY <1>1, <2>1, <2>2, AddToEnd DEF RxPut
    <3> QED BY <3>1 DEF Rx!Put, Rx!Next
  <2>3. CASE ~HasRoom(rx_buf)
    <3>1. rx_buf' = rx_buf /\ got' = got
      BY <1>1, <2>1, <2>3, AddToEnd DEF RxPut
    <3> QED BY <3>1 DEF Contents
  <2> QED BY <2>2, <2>3
<1>4. CASE RxTake
  <2>1. Contents(rx_buf)' = Tail(Contents(rx_buf)) /\ Contents(rx_buf) # <<>>
    BY <1>1, <1>4, GetFromFront DEF RxTake
  <2>2. got' = Head(Contents(rx_buf))
    BY <1>1, <1>4, GetFromFront DEF RxTake
  <2> QED BY <2>1, <2>2 DEF Rx!Take, Rx!Next
<1>5. CASE RxDrop
  <2>1. \E j \in 0 .. Len(Contents(rx_buf)) :
          Contents(rx_buf)' = SubSeq(Contents(rx_buf), j + 1, Len(Contents(rx_buf)))
    <3>1. CASE rx_buf' = bufferFlush(rx_buf)
      <4>1. Contents(rx_buf)' = Contents(bufferFlush(rx_buf))
        BY <3>1 DEF Contents
      <4> QED BY <1>1, <4>1, Flush
    <3>2. CASE \E k \in Nat : rx_buf' = bufferDumpFromFront(rx_buf, k)
      <4>1. PICK k \in Nat : rx_buf' = bufferDumpFromFront(rx_buf, k)
        BY <3>2
      <4>2. Contents(rx_buf)' = Contents(bufferDumpFromFront(rx_buf, k))
        BY <4>1 DEF Contents
      <4> QED BY <1>1, <4>2, DumpFromFront
    <3> QED BY <1>5, <3>1, <3>2 DEF RxDrop
  <2>2. got' = got
    BY <1>5 DEF RxDrop
  <2> QED BY <2>1, <2>2 DEF Rx!Discard, Rx!Next
<1> QED BY <1>2, <1>3, <1>4, <1>5, RxSteps DEF IInv

\* Each ring implements a queue under every interleaving of the task with
\* the interrupt handler, the transmit ring one that loses nothing.
THEOREM RingsAreQueues == Spec => BuffersAreFifos
<1>1. Init => Tx!Init /\ Rx!Init
  BY BlankIsEmpty, UsartAssumption DEF Init, Tx!Init, Rx!Init
<1>2. Spec => Tx!Lossless
  BY <1>1, Invariant, TxStep, PTL DEF Spec, Tx!Lossless
<1>3. Spec => Rx!Spec
  BY <1>1, Invariant, RxStep, PTL DEF Spec, Rx!Spec
<1> QED BY <1>2, <1>3 DEF BuffersAreFifos
=============================================================================
