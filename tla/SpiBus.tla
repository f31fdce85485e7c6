------------------------------- MODULE SpiBus -------------------------------
(***************************************************************************)
(* The SPI bus of src/main.c, shared under xSPI_Mutex by two devices: the  *)
(* MAX6675 converter, which vPID_Task reads, and the 74HC595 register that *)
(* holds the segments of the LED display, which vLed7segUpdateTask writes. *)
(*                                                                         *)
(* The processor executes the ready task of the highest priority, tasks of *)
(* one priority in any interleaving.  A refresh can preempt anything but   *)
(* the holder of the mutex; vIndDataOutTask, which writes the display      *)
(* buffer, stands for every task that does not use the bus.  The bus is    *)
(* full duplex: a word arrives in the receive FIFO for every word sent,    *)
(* whichever device it was for.                                            *)
(***************************************************************************)
EXTENDS Integers, Sequences

CONSTANTS Words,       \* what the converter may answer, 16 bits
          Numbers,     \* what is written to the display
          NumDigits,   \* positions of the display
          FifoSize     \* words the receive FIFO holds

UInt16 == 0 .. 65535

ASSUME BusAssumption ==
  /\ Words \subseteq UInt16 /\ Words # {}
  /\ Numbers \subseteq Nat
  /\ NumDigits \in 1 .. 3
  /\ FifoSize \in Nat \ {0}

VARIABLES
  pc,            \* where each task is
  holder, prio,  \* xSPI_Mutex, and the priorities with what was inherited
  tx, rx, ovr,   \* the word on the bus, the receive FIFO, its overrun flag
  cs, answer,    \* MAX6675_CS, and the word the converter has ready
  register,      \* the shift register of the 74HC595 ...
  latch,         \* ... and its outputs, the segments
  lit,           \* the positions switched on
  cur_digit, dig,
  buffer, todo,  \* the display buffer, and the writes left of a number
  num,           \* the number being displayed
  temp_cur_val,
  \* History, read by no action:
  sent,          \* the digit and the segments of the last refresh
  face,          \* what each position last showed
  scans          \* refreshes begun since the buffer last changed

busVars    == <<tx, rx, ovr, cs, answer, register>>
mutexVars  == <<holder, prio>>
scanVars   == <<latch, lit, cur_digit, dig, sent, face>>
writeVars  == <<buffer, todo, num>>
vars == <<pc, busVars, mutexVars, scanVars, writeVars, temp_cur_val, scans>>

Tasks == {"pid", "led", "ind"}
Users == {"pid", "led"}
Nobody == "nobody"

\* The priorities main() gives, above tskIDLE_PRIORITY.
BasePriority == [t \in Tasks |-> IF t = "led" THEN 2 ELSE 1]

Digits == 0 .. NumDigits - 1

\* Segments are numbered as in led7seg.c: the ten figures, E, r, and nothing.
GlyphE == 10
GlyphR == 11
Dark   == 12
Glyphs == 0 .. Dark
NoWord == 13

\* The weight of a position, of at most three.
Weight(d) == CASE d = 0 -> 1 [] d = 1 -> 10 [] d = 2 -> 100 [] OTHER -> 1000

\* 0 stands for the error sign, which is shown for that temperature.
Glyph(n, d) ==
  LET left == (n % Weight(NumDigits)) \div Weight(d)
  IN  IF n = 0 THEN IF d = 2 THEN GlyphE ELSE GlyphR
      ELSE IF left = 0 THEN Dark ELSE left % 10

\* Seeded fault: the loop over the positions ends before the last.
WriteOrder_OneShort(n) ==
  IF n = 0 THEN [i \in 1 .. NumDigits |-> i - 1]
           ELSE [i \in 1 .. NumDigits - 1 |-> NumDigits - i]

\* led7seg_write_uint goes from the highest position down, led7seg_write_err
\* from the lowest up.
WriteOrder(n) ==
  IF n = 0 THEN [i \in 1 .. NumDigits |-> i - 1]
           ELSE [i \in 1 .. NumDigits |-> NumDigits - i]

\* Bit 2 says that no thermocouple is connected; whole degrees start at bit 5.
Decode(word) == IF (word \div 4) % 2 = 1 THEN 0 ELSE word \div 32

Ready(t) == pc[t] \notin {"idle", "blocked"}
Runs(t) == Ready(t) /\ \A u \in Tasks : Ready(u) => prio[u] <= prio[t]

At(t, label) == Runs(t) /\ pc[t] = label
Goto(t, label) == pc' = [pc EXCEPT ![t] = label]

\* The 74HC595 comes up with anything in it; no position is lit before the
\* first refresh has replaced it, and one value stands for all.
Init ==
  /\ pc = [t \in Tasks |-> "idle"]
  /\ holder = Nobody /\ prio = BasePriority
  /\ tx = NoWord /\ rx = <<>> /\ ovr = FALSE
  /\ cs = FALSE /\ answer \in Words /\ register = Dark
  /\ latch = Dark /\ lit = {} /\ cur_digit = 0 /\ dig = 0
  /\ num = 245 /\ todo = <<>>
  /\ buffer = [d \in Digits |-> Glyph(245, d)]
  /\ temp_cur_val = 0
  /\ sent = [digit |-> 0, glyph |-> Dark] /\ face = [d \in Digits |-> Dark]
  /\ scans = 0

-----------------------------------------------------------------------------
\* xSPI_Mutex, by way of xSemaphoreTake and xSemaphoreGive.

FirstStep(t) == IF t = "pid" THEN "drain" ELSE "off"

\* Seeded fault: the mutex is taken whether it is held or not.
Take_NoTest(t) ==
  /\ At(t, "take")
  /\ holder' = t
  /\ Goto(t, FirstStep(t))
  /\ UNCHANGED <<prio, busVars, scanVars, writeVars, temp_cur_val, scans>>

Take(t) ==
  /\ At(t, "take") /\ holder = Nobody
  /\ holder' = t
  /\ Goto(t, FirstStep(t))
  /\ UNCHANGED <<prio, busVars, scanVars, writeVars, temp_cur_val, scans>>

\* Seeded fault: a semaphore without inheritance.
Inherited_Nothing(t) == prio

\* The holder inherits the priority of task t if that is the higher one ...
Inherited(t) == [prio EXCEPT ![holder] = IF @ < prio[t] THEN prio[t] ELSE @]

\* Seeded fault: what was inherited is kept.
Disinherited_Never(t) == prio

\* ... and returns to its own.
Disinherited(t) == [prio EXCEPT ![t] = BasePriority[t]]

Block(t) ==
  /\ At(t, "take") /\ holder # Nobody
  /\ prio' = Inherited(t)
  /\ Goto(t, "blocked")
  /\ UNCHANGED <<holder, busVars, scanVars, writeVars, temp_cur_val, scans>>

\* A task that waits is made ready, to try again.
Give(t) ==
  /\ At(t, "give") /\ holder = t
  /\ holder' = Nobody
  /\ prio' = Disinherited(t)
  /\ pc' = [u \in Tasks |-> IF u = t THEN "idle"
                            ELSE IF pc[u] = "blocked" THEN "take" ELSE pc[u]]
  /\ UNCHANGED <<busVars, scanVars, writeVars, temp_cur_val, scans>>

\* A task's period begins.
Release(t) ==
  /\ pc[t] = "idle"
  /\ Goto(t, "take")
  /\ UNCHANGED <<mutexVars, busVars, scanVars, writeVars, temp_cur_val, scans>>

-----------------------------------------------------------------------------
\* The peripheral.  A word received while the FIFO is full is lost, and so is
\* every further one until the overrun is cleared.
Receive(word) ==
  IF ovr \/ Len(rx) = FifoSize
  THEN ovr' = TRUE /\ UNCHANGED rx
  ELSE rx' = Append(rx, word) /\ UNCHANGED ovr

\* A word has been clocked out: the display's register has it, selected or
\* not; the converter has answered if it is selected, else the line floats.
ShiftDone ==
  /\ tx # NoWord
  /\ register' = tx
  /\ tx' = NoWord
  /\ \E word \in Words : (cs => word = answer) /\ Receive(word)
  /\ UNCHANGED <<pc, cs, answer, mutexVars, scanVars, writeVars, temp_cur_val, scans>>

-----------------------------------------------------------------------------
\* max6675_get_temp

\* Seeded fault: the status is not read after the data, and the overrun stays.
PidDrain_OverrunStays ==
  /\ At("pid", "drain") /\ rx # <<>>
  /\ rx' = Tail(rx)
  /\ UNCHANGED <<pc, ovr, tx, cs, answer, register, mutexVars, scanVars, writeVars,
                 temp_cur_val, scans>>

\* What refreshes have left in the FIFO is read and thrown away; the data
\* register and then the status are read, which clears an overrun.
PidDrain ==
  /\ At("pid", "drain") /\ rx # <<>>
  /\ rx' = Tail(rx) /\ ovr' = FALSE
  /\ UNCHANGED <<pc, tx, cs, answer, register, mutexVars, scanVars, writeVars,
                 temp_cur_val, scans>>

\* Seeded fault: the FIFO is not drained.
PidSelect_NoDrain ==
  /\ At("pid", "drain")
  /\ cs' = TRUE /\ answer' \in Words
  /\ Goto("pid", "send")
  /\ UNCHANGED <<tx, rx, ovr, register, mutexVars, scanVars, writeVars,
                 temp_cur_val, scans>>

\* The falling edge of MAX6675_CS ends the converter's conversion.
PidSelect ==
  /\ At("pid", "drain") /\ rx = <<>>
  /\ cs' = TRUE /\ answer' \in Words
  /\ Goto("pid", "send")
  /\ UNCHANGED <<tx, rx, ovr, register, mutexVars, scanVars, writeVars,
                 temp_cur_val, scans>>

\* spi_xfer writes a word of zeros, which are no segments ...
PidSend ==
  /\ At("pid", "send")
  /\ tx' = Dark
  /\ Goto("pid", "receive")
  /\ UNCHANGED <<rx, ovr, cs, answer, register, mutexVars, scanVars, writeVars,
                 temp_cur_val, scans>>

\* Seeded fault: a return on the error bit that forgets the mutex.
PidReceive_ErrorReturn ==
  /\ At("pid", "receive") /\ rx # <<>>
  /\ temp_cur_val' = Decode(Head(rx))
  /\ rx' = Tail(rx) /\ cs' = FALSE
  /\ Goto("pid", IF Decode(Head(rx)) = 0 THEN "idle" ELSE "give")
  /\ UNCHANGED <<tx, ovr, answer, register, mutexVars, scanVars, writeVars, scans>>

\* ... and waits for one to arrive; the converter is released.
PidReceive ==
  /\ At("pid", "receive") /\ rx # <<>>
  /\ temp_cur_val' = Decode(Head(rx))
  /\ rx' = Tail(rx) /\ cs' = FALSE
  /\ Goto("pid", "give")
  /\ UNCHANGED <<tx, ovr, answer, register, mutexVars, scanVars, writeVars, scans>>

vPID_Task ==
  \/ Take("pid") \/ Block("pid") \/ Give("pid")
  \/ PidDrain \/ PidSelect \/ PidSend \/ PidReceive

-----------------------------------------------------------------------------
\* led7seg_update

\* Seeded fault: the position is not wrapped.
LedOff_NoWrap ==
  /\ At("led", "off")
  /\ dig' = cur_digit
  /\ lit' = {}
  /\ Goto("led", "send")
  /\ UNCHANGED <<latch, cur_digit, sent, face, busVars, mutexVars, writeVars,
                 temp_cur_val, scans>>

\* Every position is switched off while the segments change.
LedOff ==
  /\ At("led", "off")
  /\ dig' = IF cur_digit >= NumDigits THEN 0 ELSE cur_digit
  /\ lit' = {}
  /\ Goto("led", "send")
  /\ UNCHANGED <<latch, cur_digit, sent, face, busVars, mutexVars, writeVars,
                 temp_cur_val, scans>>

\* spi_send waits for room in the transmitter.
LedSend ==
  /\ At("led", "send") /\ tx = NoWord
  /\ tx' = buffer[dig]
  /\ sent' = [digit |-> dig, glyph |-> buffer[dig]]
  /\ scans' = IF scans < NumDigits THEN scans + 1 ELSE scans
  /\ Goto("led", "wait")
  /\ UNCHANGED <<rx, ovr, cs, answer, register, latch, lit, cur_digit, dig, face,
                 mutexVars, writeVars, temp_cur_val>>

\* Seeded fault: HC595_CS rises without a wait for the end of the transfer.
LedLatch_NoWait ==
  /\ At("led", "wait")
  /\ latch' = register
  /\ Goto("led", "on")
  /\ UNCHANGED <<lit, cur_digit, dig, sent, face, busVars, mutexVars, writeVars,
                 temp_cur_val, scans>>

\* The bus is not busy any more; the rising edge of HC595_CS latches.
LedLatch ==
  /\ At("led", "wait") /\ tx = NoWord
  /\ latch' = register
  /\ Goto("led", "on")
  /\ UNCHANGED <<lit, cur_digit, dig, sent, face, busVars, mutexVars, writeVars,
                 temp_cur_val, scans>>

LedOn ==
  /\ At("led", "on")
  /\ lit' = lit \union {dig}
  /\ face' = [face EXCEPT ![dig] = latch]
  /\ cur_digit' = dig + 1
  /\ Goto("led", "give")
  /\ UNCHANGED <<latch, dig, sent, busVars, mutexVars, writeVars, temp_cur_val, scans>>

vLed7segUpdateTask ==
  \/ Take("led") \/ Block("led") \/ Give("led")
  \/ LedOff \/ LedSend \/ LedLatch \/ LedOn

-----------------------------------------------------------------------------
\* vIndDataOutTask: a number is written position by position.
IndStart(n) ==
  /\ pc["ind"] = "idle"
  /\ num' = n /\ todo' = WriteOrder(n)
  /\ Goto("ind", "write")
  /\ UNCHANGED <<buffer, busVars, mutexVars, scanVars, temp_cur_val, scans>>

IndWrite ==
  /\ At("ind", "write")
  /\ buffer' = [buffer EXCEPT ![Head(todo)] = Glyph(num, Head(todo))]
  /\ todo' = Tail(todo)
  /\ scans' = 0
  /\ Goto("ind", IF Tail(todo) = <<>> THEN "idle" ELSE "write")
  /\ UNCHANGED <<num, busVars, mutexVars, scanVars, temp_cur_val>>

Next ==
  \/ \E t \in Users : Release(t)
  \/ vPID_Task \/ vLed7segUpdateTask
  \/ \E n \in Numbers : IndStart(n)
  \/ IndWrite
  \/ ShiftDone

Spec == Init /\ [][Next]_vars

\* The refresh has the highest priority; the peripheral's clock runs.  The
\* sample needs the processor again and again only: a refresh takes a small
\* part of its 3 ms, and the processor is the other tasks' in between.
Fairness ==
  /\ WF_vars(vLed7segUpdateTask) /\ WF_vars(ShiftDone)
  /\ SF_vars(vPID_Task)

FairSpec == Spec /\ Fairness
-----------------------------------------------------------------------------
(***************************************************************************)
(* Properties.                                                             *)
(***************************************************************************)

PidLabels == {"idle", "take", "blocked", "drain", "send", "receive", "give"}
LedLabels == {"idle", "take", "blocked", "off", "send", "wait", "on", "give"}
IndLabels == {"idle", "write"}

LabelsOK ==
  /\ pc \in [Tasks -> PidLabels \union LedLabels \union IndLabels]
  /\ pc["pid"] \in PidLabels /\ pc["led"] \in LedLabels /\ pc["ind"] \in IndLabels

\* Every variable stays in its range; in particular the position scanned is
\* one of the display's and the FIFO never holds more than it can.
TypeOK ==
  /\ LabelsOK
  /\ holder \in Users \union {Nobody} /\ prio \in [Tasks -> 1 .. 2]
  /\ tx \in Glyphs \union {NoWord} /\ register \in Glyphs
  /\ rx \in Seq(Words) /\ Len(rx) <= FifoSize /\ ovr \in BOOLEAN
  /\ cs \in BOOLEAN /\ answer \in Words
  /\ latch \in Glyphs /\ lit \subseteq Digits
  /\ cur_digit \in 0 .. NumDigits /\ dig \in Digits
  /\ buffer \in [Digits -> Glyphs] /\ face \in [Digits -> Glyphs]
  /\ num \in Numbers \union {245} /\ todo \in Seq(Digits)
  /\ temp_cur_val \in {Decode(word) : word \in Words} \union {0}
  /\ sent \in [digit : Digits, glyph : Glyphs]
  /\ scans \in 0 .. NumDigits

\* The temperature is made of the word the converter sent for this sample: not
\* of the echo of a refresh left in the FIFO, and not of a word shifted for the
\* display while the converter was selected.
SampleIsAnswer == pc["pid"] = "give" => temp_cur_val = Decode(answer)

\* While the converter is selected no word meant for the display is on the
\* bus, and the display is not switched: max6675_get_temp and led7seg_update
\* exclude each other.
BusExclusive ==
  cs => pc["led"] \in {"idle", "take", "blocked"} /\ tx \in {NoWord, Dark}

\* At most one position is lit, with the segments that were sent for it: no
\* ghost of the neighbouring figure, and none of the zeros the sample shifts
\* through the display's register.
LitDigitShowsItself ==
  lit # {} => lit = {sent.digit} /\ latch = sent.glyph

\* A number that has been written shows on every position one scan later,
\* wherever in the scan, and however often, the write was preempted.
ScanCatchesUp ==
  scans = NumDigits /\ pc["ind"] = "idle" /\ pc["led"] = "idle"
    => \A d \in Digits : face[d] = Glyph(num, d)

\* A refresh that waits for the bus waits for its holder alone: no task of the
\* holder's own priority runs meanwhile.
NoInversion == [][IndWrite => pc["led"] # "blocked"]_vars

\* What was inherited is given back with the mutex.
PrioritiesRestored == \A t \in Tasks : holder # t => prio[t] = BasePriority[t]

\* Every refresh and every sample that is begun is finished: no deadlock on
\* the mutex and no wait for the peripheral that never ends.
RefreshCompletes == pc["led"] # "idle" ~> pc["led"] = "idle"
SampleCompletes == pc["pid"] # "idle" ~> pc["pid"] = "idle"
=============================================================================
