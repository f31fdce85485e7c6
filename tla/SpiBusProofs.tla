---------------------------- MODULE SpiBusProofs ----------------------------
(***************************************************************************)
(* IInv is an invariant of SpiBus, for every set of words the converter    *)
(* may answer, every set of numbers displayed, and any depth of the FIFO;  *)
(* the safety properties of the bus follow.                                *)
(***************************************************************************)
EXTENDS SpiBusInvariants, TLAPS

LEMMA DigitsNonEmpty == NumDigits \in Nat \ {0}
BY BusAssumption

\* Every figure written is one of the table of led7seg.c.
LEMMA GlyphFacts ==
  ASSUME NEW n \in Nat, NEW d
  PROVE  Glyph(n, d) \in Glyphs
<1> DEFINE left == (n % Weight(NumDigits)) \div Weight(d)
<1>1. Weight(d) \in {1, 10, 100, 1000} /\ Weight(NumDigits) \in {1, 10, 100, 1000}
  BY DEF Weight
<1>2. left \in Nat
  BY <1>1
<1> HIDE DEF left
<1>3. left % 10 \in 0 .. 9
  BY <1>2
<1>4. Glyph(n, d) = IF n = 0 THEN IF d = 2 THEN GlyphE ELSE GlyphR
                    ELSE IF left = 0 THEN Dark ELSE left % 10
  BY DEF Glyph, left
<1> QED
  BY <1>3, <1>4 DEF Glyphs, GlyphE, GlyphR, Dark

LEMMA InitIInv == Init => IInv
<1> SUFFICES ASSUME Init PROVE IInv
  OBVIOUS
<1> USE DEF Init
<1>1. MutexInv
  BY DEF MutexInv, LabelsOK, Tasks, Users, Nobody, BasePriority, PidInside, LedInside,
         PidLabels, LedLabels, IndLabels
<1>2. BusInv /\ SampleInv
  BY DEF BusInv, SampleInv, SampleIsAnswer, Tasks
<1>3. FigureInv
  <2>1. buffer \in [Digits -> Glyphs]
    BY GlyphFacts
  <2>2. cur_digit \in 0 .. NumDigits /\ dig \in Digits
    BY DigitsNonEmpty DEF Digits
  <2> QED
    BY <2>1, <2>2 DEF FigureInv, LitDigitShowsItself, Tasks
<1> QED
  BY <1>1, <1>2, <1>3 DEF IInv

-----------------------------------------------------------------------------
(***************************************************************************)
(* The mutex.                                                              *)
(***************************************************************************)

\* A sample never waits for the mutex: while a refresh holds it, the refresh
\* runs.
LEMMA PidNeverBlocks ==
  ASSUME MutexInv PROVE ~Block("pid")
<1> SUFFICES ASSUME Block("pid") PROVE FALSE
  OBVIOUS
<1>1. pc["pid"] = "take" /\ holder # Nobody
  BY DEF Block, At
<1>2. holder = "led" /\ pc["led"] \in LedInside
  BY <1>1 DEF MutexInv, PidInside, Users
<1>3. prio["led"] = 2 /\ prio["pid"] = 1
  BY <1>2 DEF MutexInv, Tasks, LedInside
<1>4. Ready("led")
  BY <1>2 DEF Ready, LedInside
<1>5. prio["led"] <= prio["pid"]
  BY <1>4 DEF Block, At, Runs, Tasks
<1> QED
  BY <1>3, <1>5

\* No other task runs while a refresh waits: the sample is ready, with the
\* priority of the refresh.
LEMMA WriterWaits ==
  ASSUME MutexInv, At("ind", "write") PROVE pc["led"] # "blocked"
<1> SUFFICES ASSUME pc["led"] = "blocked" PROVE FALSE
  OBVIOUS
<1>1. pc["pid"] \in PidInside
  BY DEF MutexInv
<1>2. Ready("pid") /\ prio["pid"] = 2 /\ prio["ind"] = 1
  BY <1>1 DEF MutexInv, Ready, PidInside, Tasks
<1>3. prio["pid"] <= prio["ind"]
  BY <1>2 DEF At, Runs, Tasks
<1> QED
  BY <1>2, <1>3

\* A step that moves one task among the places where it does not have, or does
\* have, the mutex, and leaves mutex and priorities alone.
LEMMA MutexKept ==
  ASSUME MutexInv, UNCHANGED mutexVars,
         NEW t \in Tasks, NEW label, Goto(t, label),
         \/ t = "pid" /\ label \in PidInside /\ pc[t] \in PidInside
         \/ t = "led" /\ label \in LedInside /\ pc[t] \in LedInside
         \/ t \in Users /\ label = "take" /\ pc[t] = "idle"
         \/ t = "ind" /\ label \in IndLabels
  PROVE  MutexInv'
BY DEF MutexInv, mutexVars, Goto, LabelsOK, Tasks, Users, Nobody, PidInside, LedInside,
       PidLabels, LedLabels, IndLabels

LEMMA MutexStep ==
  ASSUME MutexInv, [Next]_vars PROVE MutexInv'
<1> USE DEF PidInside, LedInside
<1>1. CASE \E t \in Users : Release(t)
  BY <1>1, MutexKept DEF Release, Users, Tasks
<1>2. ASSUME NEW t \in Users, Take(t) PROVE MutexInv'
  <2>1. pc' = [pc EXCEPT ![t] = FirstStep(t)] /\ holder' = t /\ prio' = prio
        /\ holder = Nobody /\ pc[t] = "take"
    BY <1>2 DEF Take, At, Goto
  <2> QED
    BY <2>1 DEF MutexInv, LabelsOK, FirstStep, Tasks, Users, Nobody,
                PidLabels, LedLabels, IndLabels
<1>3. ASSUME Block("led") PROVE MutexInv'
  <2>1. pc' = [pc EXCEPT !["led"] = "blocked"] /\ holder' = holder
        /\ holder # Nobody /\ pc["led"] = "take"
    BY <1>3 DEF Block, At, Goto
  <2>2. holder = "pid" /\ prio["pid"] = 1 /\ prio["led"] = 2
    BY <2>1 DEF MutexInv, Users, Tasks
  <2>3. prio' = [prio EXCEPT !["pid"] = 2]
    BY <1>3, <2>2 DEF Block, Inherited
  <2> QED
    BY <2>1, <2>2, <2>3 DEF MutexInv, LabelsOK, Tasks, Users, Nobody,
                            PidLabels, LedLabels, IndLabels
<1>4. ASSUME NEW t \in Users, Give(t) PROVE MutexInv'
  <2>1. /\ holder = t /\ holder' = Nobody /\ pc[t] = "give"
        /\ prio' = [prio EXCEPT ![t] = BasePriority[t]]
        /\ pc' = [u \in Tasks |-> IF u = t THEN "idle"
                                  ELSE IF pc[u] = "blocked" THEN "take" ELSE pc[u]]
    BY <1>4 DEF Give, At, Disinherited
  <2>2. LabelsOK'
    BY <2>1 DEF MutexInv, LabelsOK, Tasks, Users, PidLabels, LedLabels, IndLabels
  <2>3. prio' = [u \in Tasks |-> IF u = "led" THEN 2 ELSE 1]
    BY <2>1 DEF MutexInv, Tasks, Users, BasePriority
  <2> QED
    BY <2>1, <2>2, <2>3 DEF MutexInv, Tasks, Users, Nobody
<1>5. CASE PidDrain
  BY <1>5 DEF PidDrain, MutexInv, mutexVars, LabelsOK
<1>6. CASE PidSelect \/ PidSend \/ PidReceive
  BY <1>6, MutexKept DEF PidSelect, PidSend, PidReceive, At, Tasks
<1>7. CASE LedOff \/ LedSend \/ LedLatch \/ LedOn
  BY <1>7, MutexKept DEF LedOff, LedSend, LedLatch, LedOn, At, Tasks
<1>8. CASE (\E n \in Numbers : IndStart(n)) \/ IndWrite
  BY <1>8, MutexKept DEF IndStart, IndWrite, Tasks, IndLabels
<1>9. CASE ShiftDone \/ UNCHANGED vars
  BY <1>9 DEF ShiftDone, vars, MutexInv, mutexVars, LabelsOK
<1> QED
  BY <1>1, <1>2, <1>3, <1>4, <1>5, <1>6, <1>7, <1>8, <1>9, PidNeverBlocks
     DEF Next, vPID_Task, vLed7segUpdateTask, Users

-----------------------------------------------------------------------------
(***************************************************************************)
(* The bus.  One lemma per part of the invariant; the actions are grouped  *)
(* by what they change of it.                                              *)
(***************************************************************************)

LEMMA BusStep ==
  ASSUME MutexInv, BusInv, SampleInv, [Next]_vars PROVE BusInv'
<1> USE DEF BusInv
<1>0. pc \in [Tasks -> PidLabels \union LedLabels \union IndLabels]
  BY DEF MutexInv, LabelsOK
<1>1. ~(pc["pid"] \in PidInside /\ pc["led"] \in LedInside)
  BY DEF MutexInv
<1>2. CASE \E t \in Users : Release(t) \/ Take(t)
  BY <1>0, <1>2 DEF Release, Take, FirstStep, At, Goto, busVars, scanVars, Users, Tasks
<1>3. CASE Block("led")
  BY <1>0, <1>3 DEF Block, At, Goto, busVars, scanVars, Tasks
<1>4. ASSUME NEW t \in Users, Give(t) PROVE BusInv'
  <2>1. /\ pc[t] = "give" /\ UNCHANGED <<busVars, scanVars>>
        /\ pc' = [u \in Tasks |-> IF u = t THEN "idle"
                                  ELSE IF pc[u] = "blocked" THEN "take" ELSE pc[u]]
    BY <1>4 DEF Give, At
  <2> QED
    BY <2>1, <1>0 DEF busVars, scanVars, Users, Tasks
<1>5. CASE PidDrain
  BY <1>0, <1>5 DEF PidDrain, scanVars
<1>6. CASE PidSelect \/ PidSend
  BY <1>0, <1>1, <1>6 DEF PidSelect, PidSend, At, Goto, scanVars, Tasks, PidInside, LedInside
<1>7. CASE PidReceive
  <2>1. tx = NoWord
    BY <1>7 DEF PidReceive, At, SampleInv
  <2> QED
    BY <1>0, <1>7, <2>1 DEF PidReceive, At, Goto, scanVars, Tasks
<1>8. CASE LedOff \/ LedLatch \/ LedOn
  BY <1>0, <1>1, <1>8 DEF LedOff, LedLatch, LedOn, At, Goto, busVars, Tasks,
                          PidInside, LedInside
<1>9. CASE LedSend
  BY <1>0, <1>1, <1>9 DEF LedSend, At, Goto, Tasks, PidInside, LedInside
<1>10. CASE (\E n \in Numbers : IndStart(n)) \/ IndWrite
  BY <1>0, <1>10 DEF IndStart, IndWrite, At, Goto, busVars, scanVars, Tasks
<1>11. CASE ShiftDone \/ UNCHANGED vars
  BY <1>11 DEF ShiftDone, vars, busVars, scanVars
<1> QED
  BY <1>2, <1>3, <1>4, <1>5, <1>6, <1>7, <1>8, <1>9, <1>10, <1>11, PidNeverBlocks
     DEF Next, vPID_Task, vLed7segUpdateTask, Users

\* What arrives in the FIFO during a sample is what the converter sent.
LEMMA SampleStep ==
  ASSUME MutexInv, BusInv, SampleInv, [Next]_vars PROVE SampleInv'
<1> USE DEF SampleInv, SampleIsAnswer
<1>0. pc \in [Tasks -> PidLabels \union LedLabels \union IndLabels]
  BY DEF MutexInv, LabelsOK
<1>1. ~(pc["pid"] \in PidInside /\ pc["led"] \in LedInside)
  BY DEF MutexInv
<1>2. CASE \E t \in Users : Release(t) \/ Take(t)
  BY <1>0, <1>2 DEF Release, Take, FirstStep, At, Goto, busVars, Users, Tasks
<1>3. CASE Block("led")
  BY <1>0, <1>3 DEF Block, At, Goto, busVars, Tasks
<1>4. ASSUME NEW t \in Users, Give(t) PROVE SampleInv'
  <2>1. /\ UNCHANGED <<busVars, temp_cur_val>>
        /\ pc' = [u \in Tasks |-> IF u = t THEN "idle"
                                  ELSE IF pc[u] = "blocked" THEN "take" ELSE pc[u]]
    BY <1>4 DEF Give
  <2> QED
    BY <2>1, <1>0 DEF busVars, Users, Tasks
<1>5. CASE PidDrain
  BY <1>5 DEF PidDrain, At
<1>6. CASE PidSelect \/ PidSend
  BY <1>0, <1>6 DEF PidSelect, PidSend, At, Goto, Tasks
<1>7. CASE PidReceive
  <2>1. rx = <<answer>>
    BY <1>7 DEF PidReceive, At
  <2>2. Head(rx) = answer
    BY <2>1
  <2> QED
    BY <1>0, <1>7, <2>2 DEF PidReceive, At, Goto, Tasks
<1>8. CASE LedOff \/ LedLatch \/ LedOn
  BY <1>0, <1>8 DEF LedOff, LedLatch, LedOn, At, Goto, busVars, Tasks
<1>9. CASE LedSend
  BY <1>0, <1>1, <1>9 DEF LedSend, At, Goto, Tasks, PidInside, LedInside
<1>10. CASE (\E n \in Numbers : IndStart(n)) \/ IndWrite
  BY <1>0, <1>10 DEF IndStart, IndWrite, At, Goto, busVars, Tasks
<1>11. CASE ShiftDone
  <2>1. /\ tx # NoWord /\ tx' = NoWord
        /\ UNCHANGED <<pc, cs, answer, temp_cur_val>>
    BY <1>11 DEF ShiftDone
  <2>2. ~(pc["pid"] = "send")
    BY <1>1, <2>1 DEF BusInv, PidInside, LedInside
  <2>3. CASE pc["pid"] = "receive"
    <3>1. cs /\ rx = <<>>
      BY <2>1, <2>3 DEF BusInv
    <3>2. Receive(answer)
      BY <1>11, <3>1 DEF ShiftDone
    <3>3. rx' = <<>> \/ rx' = <<answer>>
      BY <3>1, <3>2 DEF Receive
    <3> QED
      BY <2>1, <2>3, <3>3
  <2> QED
    BY <2>1, <2>2, <2>3
<1>12. CASE UNCHANGED vars
  BY <1>12 DEF vars, busVars
<1> QED
  BY <1>2, <1>3, <1>4, <1>5, <1>6, <1>7, <1>8, <1>9, <1>10, <1>11, <1>12, PidNeverBlocks
     DEF Next, vPID_Task, vLed7segUpdateTask, Users

-----------------------------------------------------------------------------
(***************************************************************************)
(* The display.                                                            *)
(***************************************************************************)

LEMMA FigureStep ==
  ASSUME MutexInv, BusInv, FigureInv, [Next]_vars PROVE FigureInv'
<1> USE DEF FigureInv, LitDigitShowsItself
<1>0. pc \in [Tasks -> PidLabels \union LedLabels \union IndLabels]
  BY DEF MutexInv, LabelsOK
<1>1. ~(pc["pid"] \in PidInside /\ pc["led"] \in LedInside)
  BY DEF MutexInv
<1>2. CASE \E t \in Users : Release(t) \/ Take(t)
  BY <1>0, <1>2 DEF Release, Take, FirstStep, At, Goto, busVars, scanVars, writeVars,
                    Users, Tasks
<1>3. CASE Block("led")
  BY <1>0, <1>3 DEF Block, At, Goto, busVars, scanVars, writeVars, Tasks
<1>4. ASSUME NEW t \in Users, Give(t) PROVE FigureInv'
  <2>1. /\ UNCHANGED <<busVars, scanVars, writeVars>>
        /\ pc' = [u \in Tasks |-> IF u = t THEN "idle"
                                  ELSE IF pc[u] = "blocked" THEN "take" ELSE pc[u]]
    BY <1>4 DEF Give
  <2> QED
    BY <2>1, <1>0 DEF busVars, scanVars, writeVars, Users, Tasks
<1>5. CASE PidDrain
  BY <1>5 DEF PidDrain, scanVars, writeVars
<1>6. CASE PidSelect \/ PidSend \/ PidReceive
  BY <1>0, <1>1, <1>6 DEF PidSelect, PidSend, PidReceive, At, Goto, scanVars, writeVars,
                          Tasks, PidInside, LedInside
<1>7. CASE LedOff
  <2>1. dig' \in Digits /\ cur_digit' = cur_digit
    BY <1>7, DigitsNonEmpty DEF LedOff, Digits
  <2> QED
    BY <1>0, <1>7, <2>1 DEF LedOff, At, Goto, busVars, writeVars, Tasks
<1>8. CASE LedSend
  <2>1. buffer[dig] \in Glyphs /\ NoWord \notin Glyphs
    BY DEF Glyphs, Dark, NoWord
  <2>2. tx' # NoWord
    BY <1>8, <2>1 DEF LedSend
  <2>3. sent'.digit = dig /\ lit = {}
    BY <1>8 DEF LedSend, At
  <2> QED
    BY <1>0, <1>8, <2>2, <2>3 DEF LedSend, At, Goto, writeVars, Tasks
<1>9. CASE LedLatch
  BY <1>0, <1>9 DEF LedLatch, At, Goto, busVars, writeVars, Tasks
<1>10. CASE LedOn
  <2>1. lit' = {dig} /\ sent.digit = dig /\ latch = sent.glyph
    BY <1>10 DEF LedOn, At
  <2>2. cur_digit' \in 0 .. NumDigits
    BY <1>10, DigitsNonEmpty DEF LedOn, Digits
  <2> QED
    BY <1>0, <1>10, <2>1, <2>2 DEF LedOn, At, Goto, busVars, writeVars, Tasks
<1>11. ASSUME NEW n \in Numbers, IndStart(n) PROVE FigureInv'
  <2>1. num' \in Nat
    BY <1>11, BusAssumption DEF IndStart
  <2> QED
    BY <1>0, <1>11, <2>1 DEF IndStart, Goto, busVars, scanVars, Tasks
<1>12. CASE IndWrite
  <2>1. buffer' \in [Digits -> Glyphs]
    BY <1>12, GlyphFacts DEF IndWrite
  <2> QED
    BY <1>0, <1>12, <2>1 DEF IndWrite, At, Goto, busVars, scanVars, Tasks
<1>13. CASE ShiftDone
  BY <1>1, <1>13 DEF ShiftDone, BusInv, scanVars, writeVars, PidInside, LedInside
<1>14. CASE UNCHANGED vars
  BY <1>14 DEF vars, busVars, scanVars, writeVars
<1> QED
  BY <1>2, <1>3, <1>4, <1>5, <1>6, <1>7, <1>8, <1>9, <1>10, <1>11, <1>12, <1>13, <1>14,
     PidNeverBlocks
     DEF Next, vPID_Task, vLed7segUpdateTask, Users

-----------------------------------------------------------------------------
(***************************************************************************)
(* The types, in groups.                                                   *)
(***************************************************************************)

BusTypes ==
  /\ tx \in Glyphs \union {NoWord} /\ register \in Glyphs
  /\ rx \in Seq(Words) /\ Len(rx) <= FifoSize /\ ovr \in BOOLEAN
  /\ cs \in BOOLEAN /\ answer \in Words
  /\ temp_cur_val \in {Decode(word) : word \in Words} \union {0}

DisplayTypes ==
  /\ latch \in Glyphs /\ lit \subseteq Digits
  /\ cur_digit \in 0 .. NumDigits /\ dig \in Digits
  /\ buffer \in [Digits -> Glyphs] /\ face \in [Digits -> Glyphs]
  /\ sent \in [digit : Digits, glyph : Glyphs]
  /\ scans \in 0 .. NumDigits

\* A task that writes has something to write.
WriterTypes ==
  /\ num \in Numbers \union {245} /\ todo \in Seq(Digits)
  /\ pc["ind"] = "write" => todo # <<>>

LEMMA WriteOrderFacts ==
  ASSUME NEW n PROVE WriteOrder(n) \in Seq(Digits) /\ WriteOrder(n) # <<>>
<1>1. \A i \in 1 .. NumDigits : i - 1 \in Digits /\ NumDigits - i \in Digits
  BY DigitsNonEmpty DEF Digits
<1>2. WriteOrder(n) \in [1 .. NumDigits -> Digits]
  BY <1>1 DEF WriteOrder
<1>3. WriteOrder(n) \in Seq(Digits) /\ Len(WriteOrder(n)) = NumDigits
  BY <1>2, DigitsNonEmpty
<1> QED
  BY <1>3, DigitsNonEmpty

LEMMA TypesInit ==
  ASSUME Init PROVE BusTypes /\ DisplayTypes /\ WriterTypes
<1>0. Dark \in Glyphs /\ 0 \in Digits /\ 0 \in 0 .. NumDigits
  BY DigitsNonEmpty DEF Glyphs, Dark, Digits
<1>1. BusTypes
  BY <1>0, BusAssumption DEF Init, BusTypes
<1>2. buffer \in [Digits -> Glyphs]
  BY GlyphFacts DEF Init
<1>3. DisplayTypes
  BY <1>0, <1>2 DEF Init, DisplayTypes
<1>4. WriterTypes
  BY DEF Init, WriterTypes, Tasks
<1> QED
  BY <1>1, <1>3, <1>4

LEMMA BusTypesStep ==
  ASSUME BusTypes, DisplayTypes, [Next]_vars PROVE BusTypes'
<1> USE DEF BusTypes
<1>0. Dark \in Glyphs
  BY DEF Glyphs, Dark
<1>1. CASE \E t \in Users : Release(t) \/ Take(t) \/ Block(t) \/ Give(t)
  BY <1>1 DEF Release, Take, Block, Give, busVars
<1>2. CASE PidDrain
  <2>1. Tail(rx) \in Seq(Words) /\ Len(Tail(rx)) <= FifoSize
    BY <1>2, BusAssumption DEF PidDrain
  <2> QED
    BY <1>2, <2>1 DEF PidDrain
<1>3. CASE PidSelect \/ PidSend
  BY <1>0, <1>3 DEF PidSelect, PidSend
<1>4. CASE PidReceive
  <2>1. Head(rx) \in Words /\ Tail(rx) \in Seq(Words) /\ Len(Tail(rx)) <= FifoSize
    BY <1>4, BusAssumption DEF PidReceive
  <2> QED
    BY <1>4, <2>1 DEF PidReceive
<1>5. CASE LedOff \/ LedLatch \/ LedOn
  BY <1>5 DEF LedOff, LedLatch, LedOn, busVars
<1>6. CASE LedSend
  BY <1>6 DEF LedSend, DisplayTypes
<1>7. CASE (\E n \in Numbers : IndStart(n)) \/ IndWrite
  BY <1>7 DEF IndStart, IndWrite, busVars
<1>8. CASE ShiftDone
  <2>1. PICK word \in Words : Receive(word)
    BY <1>8 DEF ShiftDone
  <2>2. ovr' \in BOOLEAN
    BY <2>1, Zenon DEF Receive
  <2>3. rx' = rx \/ (Len(rx) # FifoSize /\ rx' = Append(rx, word))
    BY <2>1, Zenon DEF Receive
  <2>4. rx' \in Seq(Words) /\ Len(rx') <= FifoSize
    BY <2>3, BusAssumption
  <2> QED
    BY <1>8, <2>2, <2>4 DEF ShiftDone
<1>9. CASE UNCHANGED vars
  BY <1>9 DEF vars, busVars
<1> QED
  BY <1>1, <1>2, <1>3, <1>4, <1>5, <1>6, <1>7, <1>8, <1>9
     DEF Next, vPID_Task, vLed7segUpdateTask, Users

LEMMA DisplayTypesStep ==
  ASSUME BusTypes, DisplayTypes, FigureInv', [Next]_vars PROVE DisplayTypes'
<1> USE DEF DisplayTypes
<1>0. buffer' \in [Digits -> Glyphs] /\ cur_digit' \in 0 .. NumDigits /\ dig' \in Digits
  BY DEF FigureInv
<1>1. CASE \E t \in Users : Release(t) \/ Take(t) \/ Block(t) \/ Give(t)
  BY <1>0, <1>1 DEF Release, Take, Block, Give, scanVars
<1>2. CASE PidDrain \/ PidSelect \/ PidSend \/ PidReceive
  BY <1>0, <1>2 DEF PidDrain, PidSelect, PidSend, PidReceive, scanVars
<1>3. CASE LedOff
  BY <1>0, <1>3 DEF LedOff
<1>4. CASE LedSend
  BY <1>0, <1>4, DigitsNonEmpty DEF LedSend
<1>5. CASE LedLatch
  BY <1>0, <1>5 DEF LedLatch, BusTypes, busVars
<1>6. CASE LedOn
  BY <1>0, <1>6 DEF LedOn
<1>7. CASE (\E n \in Numbers : IndStart(n)) \/ IndWrite
  BY <1>0, <1>7, DigitsNonEmpty DEF IndStart, IndWrite, scanVars
<1>8. CASE ShiftDone \/ UNCHANGED vars
  BY <1>0, <1>8 DEF ShiftDone, vars, scanVars
<1> QED
  BY <1>1, <1>2, <1>3, <1>4, <1>5, <1>6, <1>7, <1>8
     DEF Next, vPID_Task, vLed7segUpdateTask, Users

LEMMA WriterTypesStep ==
  ASSUME MutexInv, WriterTypes, [Next]_vars PROVE WriterTypes'
<1> USE DEF WriterTypes
<1>0. pc \in [Tasks -> PidLabels \union LedLabels \union IndLabels]
  BY DEF MutexInv, LabelsOK
<1>1. CASE \E t \in Users : Release(t) \/ Take(t) \/ Block(t)
  BY <1>0, <1>1 DEF Release, Take, Block, Goto, writeVars, Users, Tasks
<1>2. CASE \E t \in Users : Give(t)
  BY <1>0, <1>2 DEF Give, writeVars, Users, Tasks
<1>3. CASE PidDrain \/ PidSelect \/ PidSend \/ PidReceive
  BY <1>0, <1>3 DEF PidDrain, PidSelect, PidSend, PidReceive, Goto, writeVars, Tasks
<1>4. CASE LedOff \/ LedSend \/ LedLatch \/ LedOn
  BY <1>0, <1>4 DEF LedOff, LedSend, LedLatch, LedOn, Goto, writeVars, Tasks
<1>5. CASE \E n \in Numbers : IndStart(n)
  BY <1>5, WriteOrderFacts DEF IndStart
<1>6. CASE IndWrite
  <2>1. todo # <<>>
    BY <1>6 DEF IndWrite, At
  <2>2. Tail(todo) \in Seq(Digits)
    BY <2>1
  <2> QED
    BY <1>0, <1>6, <2>2 DEF IndWrite, Goto, Tasks
<1>7. CASE ShiftDone \/ UNCHANGED vars
  BY <1>7 DEF ShiftDone, vars, writeVars
<1> QED
  BY <1>1, <1>2, <1>3, <1>4, <1>5, <1>6, <1>7
     DEF Next, vPID_Task, vLed7segUpdateTask, Users

-----------------------------------------------------------------------------
(***************************************************************************)
(* The theorems.                                                           *)
(***************************************************************************)

\* The bus belongs to one task, the word on it to the transfer of that task,
\* and what each waits for is what it finds: xSPI_Mutex protects
\* max6675_get_temp and led7seg_update from each other, in every interleaving.
THEOREM Invariance == Spec => []IInv
<1>1. IInv /\ [Next]_vars => IInv'
  BY MutexStep, BusStep, SampleStep, FigureStep DEF IInv
<1> QED
  BY InitIInv, <1>1, PTL DEF Spec

\* Every variable stays in its range: the position scanned is one of the
\* display's, the figures sent are in the table, the FIFO holds what it can.
THEOREM TypeCorrect == Spec => []TypeOK
<1> DEFINE Inv == IInv /\ BusTypes /\ DisplayTypes /\ WriterTypes
<1>1. Init => Inv
  BY InitIInv, TypesInit
<1>2. Inv /\ [Next]_vars => Inv'
  <2> SUFFICES ASSUME Inv, [Next]_vars PROVE Inv'
    OBVIOUS
  <2>1. IInv'
    BY MutexStep, BusStep, SampleStep, FigureStep DEF IInv
  <2> QED
    BY <2>1, BusTypesStep, DisplayTypesStep, WriterTypesStep DEF IInv
<1>3. ASSUME Inv PROVE TypeOK
  <2>1. LabelsOK /\ holder \in Users \union {Nobody}
    BY <1>3 DEF IInv, MutexInv
  <2>2. prio \in [Tasks -> 1 .. 2]
    BY <1>3 DEF IInv, MutexInv
  <2> QED
    BY <1>3, <2>1, <2>2 DEF TypeOK, BusTypes, DisplayTypes, WriterTypes
<1> QED
  BY <1>1, <1>2, <1>3, PTL DEF Spec

\* A temperature is always made of the word the converter sent for the sample,
\* whatever refreshes have left in the FIFO and however often it overran.
THEOREM SampleIsTheConverters == Spec => []SampleIsAnswer
<1>1. IInv => SampleIsAnswer
  BY DEF IInv, SampleInv
<1> QED
  BY Invariance, <1>1, PTL

\* No word of the display is on the bus, and the display is not switched,
\* while the converter is selected.
THEOREM TransfersExclude == Spec => []BusExclusive
<1>1. ASSUME IInv PROVE BusExclusive
  <2> SUFFICES ASSUME cs PROVE pc["led"] \in {"idle", "take", "blocked"} /\ tx \in {NoWord, Dark}
    BY DEF BusExclusive
  <2>1. pc["pid"] \in {"send", "receive"}
    BY <1>1 DEF IInv, BusInv
  <2>2. holder = "pid"
    BY <1>1, <2>1 DEF IInv, MutexInv, PidInside
  <2>3. pc["led"] \in LedLabels \ LedInside
    BY <1>1, <2>2 DEF IInv, MutexInv, LabelsOK
  <2>4. pc["led"] \in {"idle", "take", "blocked"}
    BY <2>3 DEF LedLabels, LedInside
  <2> QED
    BY <1>1, <2>4 DEF IInv, BusInv
<1> QED
  BY Invariance, <1>1, PTL

\* A position of the display is lit alone, with its own figure.
THEOREM FiguresInPlace == Spec => []LitDigitShowsItself
<1>1. IInv => LitDigitShowsItself
  BY DEF IInv, FigureInv
<1> QED
  BY Invariance, <1>1, PTL

\* A task that does not hold the mutex has the priority main() gave it.
THEOREM InheritanceEnds == Spec => []PrioritiesRestored
<1>1. ASSUME IInv PROVE PrioritiesRestored
  <2> SUFFICES ASSUME NEW t \in Tasks, holder # t PROVE prio[t] = BasePriority[t]
    BY DEF PrioritiesRestored
  <2>1. ~(t = "pid" /\ pc["led"] = "blocked")
    BY <1>1 DEF IInv, MutexInv
  <2> QED
    BY <1>1, <2>1 DEF IInv, MutexInv, BasePriority
<1> QED
  BY Invariance, <1>1, PTL

\* While a refresh waits for the bus no task runs but the one that holds it.
THEOREM NoPriorityInversion == Spec => NoInversion
<1>1. ASSUME IInv, [Next]_vars PROVE [IndWrite => pc["led"] # "blocked"]_vars
  BY <1>1, WriterWaits DEF IInv, IndWrite
<1> QED
  BY Invariance, <1>1, PTL DEF Spec, NoInversion

-----------------------------------------------------------------------------
(***************************************************************************)
(* The display catches up.                                                 *)
(***************************************************************************)

\* The position j refreshes back from the one that is next after c.
Back(c, j) == IF c >= j THEN c - j ELSE c - j + NumDigits

UpToDate(d) == face[d] = buffer[d]

\* What has not been written yet is left to be written.
WriteInv ==
  /\ pc["ind"] = "idle" => todo = <<>>
  /\ \A d \in Digits :
        buffer[d] = Glyph(num, d) \/ \E i \in 1 .. Len(todo) : todo[i] = d

\* The positions refreshed since the buffer last changed, counted back from
\* the one that is next or, in the middle of a refresh, from its own, show
\* what is in the buffer.
ScanInv ==
  /\ pc["led"] \in {"send", "wait", "on"} =>
         dig = IF cur_digit >= NumDigits THEN 0 ELSE cur_digit
  /\ pc["led"] \in {"wait", "on"} => sent.glyph = buffer[dig]
  /\ \A j \in 1 .. scans :
         IF pc["led"] \in {"wait", "on"}
         THEN j = 1 \/ UpToDate(Back(dig + 1, j))
         ELSE UpToDate(Back(cur_digit, j))

LEMMA OrderCovers ==
  ASSUME NEW n, NEW d \in Digits
  PROVE  \E i \in 1 .. Len(WriteOrder(n)) : WriteOrder(n)[i] = d
<1>1. Len(WriteOrder(n)) = NumDigits
  BY DigitsNonEmpty DEF WriteOrder
<1>2. CASE n = 0
  <2>1. d + 1 \in 1 .. NumDigits /\ WriteOrder(n)[d + 1] = d
    BY <1>2, DigitsNonEmpty DEF WriteOrder, Digits
  <2> QED
    BY <1>1, <2>1
<1>3. CASE n # 0
  <2>1. NumDigits - d \in 1 .. NumDigits /\ WriteOrder(n)[NumDigits - d] = d
    BY <1>3, DigitsNonEmpty DEF WriteOrder, Digits
  <2> QED
    BY <1>1, <2>1
<1> QED
  BY <1>2, <1>3

LEMMA WriteStep ==
  ASSUME MutexInv, FigureInv, WriterTypes, WriteInv, [Next]_vars PROVE WriteInv'
<1>0. pc \in [Tasks -> PidLabels \union LedLabels \union IndLabels]
  BY DEF MutexInv, LabelsOK
<1>1. CASE pc'["ind"] = pc["ind"] /\ UNCHANGED writeVars
  BY <1>1 DEF WriteInv, writeVars
<1>2. CASE \E t \in Users : Release(t) \/ Take(t) \/ Block(t)
  BY <1>0, <1>1, <1>2 DEF Release, Take, Block, Goto, Users, Tasks
<1>3. CASE \E t \in Users : Give(t)
  <2>1. pc["ind"] # "blocked"
    BY DEF MutexInv, LabelsOK, IndLabels
  <2> QED
    BY <1>0, <1>1, <1>3, <2>1 DEF Give, Users, Tasks
<1>4. CASE PidDrain \/ PidSelect \/ PidSend \/ PidReceive
  BY <1>0, <1>1, <1>4 DEF PidDrain, PidSelect, PidSend, PidReceive, Goto, Tasks
<1>5. CASE LedOff \/ LedSend \/ LedLatch \/ LedOn
  BY <1>0, <1>1, <1>5 DEF LedOff, LedSend, LedLatch, LedOn, Goto, Tasks
<1>6. CASE \E n \in Numbers : IndStart(n)
  <2>1. PICK n \in Numbers : IndStart(n)
    BY <1>6
  <2>2. todo' = WriteOrder(n) /\ pc'["ind"] = "write"
    BY <1>0, <2>1 DEF IndStart, Goto, Tasks
  <2> QED
    BY <2>2, OrderCovers DEF WriteInv
<1>7. CASE IndWrite
  <2>1. /\ todo \in Seq(Digits) /\ todo # <<>> /\ num' = num /\ todo' = Tail(todo)
        /\ buffer' = [buffer EXCEPT ![todo[1]] = Glyph(num, todo[1])]
        /\ pc'["ind"] = IF todo' = <<>> THEN "idle" ELSE "write"
    BY <1>0, <1>7 DEF IndWrite, At, Goto, WriterTypes, Tasks
  <2>2. ASSUME NEW d \in Digits
        PROVE  buffer'[d] = Glyph(num, d) \/ \E i \in 1 .. Len(todo') : todo'[i] = d
    <3>1. CASE d = todo[1]
      BY <2>1, <3>1 DEF FigureInv
    <3>2. CASE d # todo[1] /\ \E i \in 1 .. Len(todo) : todo[i] = d
      <4>1. PICK i \in 1 .. Len(todo) : todo[i] = d
        BY <3>2
      <4>2. i - 1 \in 1 .. Len(todo') /\ todo'[i - 1] = d
        BY <2>1, <3>2, <4>1
      <4> QED
        BY <4>2
    <3>3. CASE d # todo[1] /\ buffer[d] = Glyph(num, d)
      BY <2>1, <3>3 DEF FigureInv
    <3> QED
      BY <3>1, <3>2, <3>3 DEF WriteInv
  <2> QED
    BY <2>1, <2>2 DEF WriteInv
<1>8. CASE ShiftDone \/ UNCHANGED vars
  BY <1>1, <1>8 DEF ShiftDone, vars
<1> QED
  BY <1>2, <1>3, <1>4, <1>5, <1>6, <1>7, <1>8 DEF Next, vPID_Task, vLed7segUpdateTask, Users

\* The buffer changes between two refreshes only.
LEMMA WriterAlone ==
  ASSUME MutexInv, IndWrite PROVE pc["led"] = "idle"
<1>1. pc["led"] # "blocked" /\ At("ind", "write")
  BY WriterWaits DEF IndWrite
<1>2. prio["led"] = 2 /\ prio["ind"] = 1
  BY DEF MutexInv, Tasks
<1>3. ~Ready("led")
  BY <1>1, <1>2 DEF At, Runs, Tasks
<1> QED
  BY <1>1, <1>3 DEF Ready

LEMMA ScanStep ==
  ASSUME MutexInv, FigureInv, DisplayTypes, ScanInv, [Next]_vars PROVE ScanInv'
<1> USE DEF scanVars
<1>0. /\ pc \in [Tasks -> PidLabels \union LedLabels \union IndLabels]
      /\ NumDigits \in Nat \ {0} /\ cur_digit \in 0 .. NumDigits /\ dig \in Digits
      /\ scans \in 0 .. NumDigits
  BY DigitsNonEmpty DEF MutexInv, LabelsOK, DisplayTypes
<1>1. CASE /\ UNCHANGED <<buffer, face, sent, cur_digit, dig, scans>>
           /\ pc'["led"] = pc["led"] \/ {pc["led"], pc'["led"]} \cap {"send", "wait", "on"} = {}
  BY <1>1 DEF ScanInv, UpToDate
<1>2. CASE \E t \in Users : Release(t) \/ Take(t) \/ Block(t)
  BY <1>0, <1>1, <1>2 DEF Release, Take, Block, Goto, At, FirstStep, Users, Tasks, writeVars
<1>3. CASE \E t \in Users : Give(t)
  BY <1>0, <1>1, <1>3 DEF Give, At, Users, Tasks, writeVars
<1>4. CASE PidDrain \/ PidSelect \/ PidSend \/ PidReceive
  BY <1>0, <1>1, <1>4 DEF PidDrain, PidSelect, PidSend, PidReceive, Goto, Tasks, writeVars
<1>5. CASE LedOff
  <2>1. /\ UNCHANGED <<buffer, face, sent, cur_digit, scans>>
        /\ pc["led"] = "off" /\ pc'["led"] = "send"
        /\ dig' = IF cur_digit >= NumDigits THEN 0 ELSE cur_digit
    BY <1>0, <1>5 DEF LedOff, At, Goto, Tasks, writeVars
  <2> QED
    BY <2>1 DEF ScanInv, UpToDate
<1>6. CASE LedSend
  <2>1. /\ UNCHANGED <<buffer, face, cur_digit, dig>>
        /\ pc["led"] = "send" /\ pc'["led"] = "wait"
        /\ sent'.glyph = buffer[dig]
        /\ scans' = IF scans < NumDigits THEN scans + 1 ELSE scans
        /\ dig = IF cur_digit >= NumDigits THEN 0 ELSE cur_digit
    BY <1>0, <1>6 DEF LedSend, At, Goto, Tasks, writeVars, ScanInv
  <2>2. ASSUME NEW j \in 1 .. scans', j # 1 PROVE UpToDate(Back(dig + 1, j))
    <3>1. j - 1 \in 1 .. scans /\ j <= NumDigits
      BY <1>0, <2>1, <2>2
    <3>2. Back(dig + 1, j) = Back(cur_digit, j - 1)
      BY <1>0, <2>1, <2>2, <3>1 DEF Back
    <3> QED
      BY <2>1, <3>1, <3>2 DEF ScanInv
  <2> QED
    BY <2>1, <2>2 DEF ScanInv, UpToDate
<1>7. CASE LedLatch
  <2>1. /\ UNCHANGED <<buffer, face, sent, cur_digit, dig, scans>>
        /\ pc["led"] = "wait" /\ pc'["led"] = "on"
    BY <1>0, <1>7 DEF LedLatch, At, Goto, Tasks, writeVars
  <2> QED
    BY <2>1 DEF ScanInv, UpToDate
<1>8. CASE LedOn
  <2>1. /\ UNCHANGED <<buffer, sent, dig, scans>>
        /\ pc["led"] = "on" /\ pc'["led"] = "give"
        /\ cur_digit' = dig + 1
        /\ face \in [Digits -> Glyphs] /\ face' = [face EXCEPT ![dig] = latch]
        /\ latch = buffer[dig]
    BY <1>0, <1>8 DEF LedOn, At, Goto, Tasks, writeVars, ScanInv, FigureInv, DisplayTypes
  <2>2. ASSUME NEW j \in 1 .. scans PROVE face'[Back(dig + 1, j)] = buffer[Back(dig + 1, j)]
    <3>1. Back(dig + 1, j) \in Digits /\ (j = 1 => Back(dig + 1, j) = dig)
      BY <1>0 DEF Back, Digits
    <3>2. face'[dig] = buffer[dig] /\ \A d \in Digits : d # dig => face'[d] = face[d]
      BY <1>0, <2>1
    <3>3. j # 1 => face[Back(dig + 1, j)] = buffer[Back(dig + 1, j)]
      BY <2>1 DEF ScanInv, UpToDate
    <3> QED
      BY <3>1, <3>2, <3>3
  <2> QED
    BY <2>1, <2>2 DEF ScanInv, UpToDate, Back
<1>9. CASE \E n \in Numbers : IndStart(n)
  BY <1>0, <1>1, <1>9 DEF IndStart, Goto, Tasks
<1>10. CASE IndWrite
  <2>1. pc'["led"] = "idle" /\ scans' = 0
    BY <1>0, <1>10, WriterAlone DEF IndWrite, Goto, Tasks
  <2> QED
    BY <2>1 DEF ScanInv
<1>11. CASE ShiftDone \/ UNCHANGED vars
  BY <1>1, <1>11 DEF ShiftDone, vars, writeVars
<1> QED
  BY <1>2, <1>3, <1>4, <1>5, <1>6, <1>7, <1>8, <1>9, <1>10, <1>11
     DEF Next, vPID_Task, vLed7segUpdateTask, Users

\* A number that led7seg_write_uint or led7seg_write_err has written shows on
\* every position one scan later, wherever refreshes fell into the writing.
THEOREM DisplayCatchesUp == Spec => []ScanCatchesUp
<1> DEFINE Inv == IInv /\ BusTypes /\ DisplayTypes /\ WriterTypes /\ WriteInv /\ ScanInv
<1>1. Init => Inv
  <2> SUFFICES ASSUME Init PROVE Inv
    OBVIOUS
  <2>1. IInv /\ BusTypes /\ DisplayTypes /\ WriterTypes
    BY InitIInv, TypesInit
  <2>2. pc["led"] = "idle" /\ scans = 0 /\ todo = <<>>
        /\ \A d \in Digits : buffer[d] = Glyph(num, d)
    BY DEF Init, Tasks
  <2> QED
    BY <2>1, <2>2 DEF WriteInv, ScanInv
<1>2. Inv /\ [Next]_vars => Inv'
  <2> SUFFICES ASSUME Inv, [Next]_vars PROVE Inv'
    OBVIOUS
  <2>1. IInv'
    BY MutexStep, BusStep, SampleStep, FigureStep DEF IInv
  <2>2. BusTypes' /\ DisplayTypes' /\ WriterTypes'
    BY <2>1, BusTypesStep, DisplayTypesStep, WriterTypesStep DEF IInv
  <2>3. WriteInv' /\ ScanInv'
    BY WriteStep, ScanStep DEF IInv
  <2> QED
    BY <2>1, <2>2, <2>3
<1>3. ASSUME Inv PROVE ScanCatchesUp
  <2> SUFFICES ASSUME scans = NumDigits, pc["ind"] = "idle", pc["led"] = "idle",
                      NEW d \in Digits
               PROVE  face[d] = Glyph(num, d)
    BY DEF ScanCatchesUp
  <2>1. buffer[d] = Glyph(num, d)
    BY <1>3 DEF WriteInv
  <2> DEFINE j == IF d < cur_digit THEN cur_digit - d ELSE cur_digit - d + NumDigits
  <2>2. j \in 1 .. NumDigits /\ Back(cur_digit, j) = d
    BY <1>3, DigitsNonEmpty DEF DisplayTypes, Back, Digits
  <2>3. UpToDate(Back(cur_digit, j))
    BY <1>3, <2>2 DEF ScanInv
  <2> QED
    BY <2>1, <2>2, <2>3 DEF UpToDate
<1> QED
  BY <1>1, <1>2, <1>3, PTL DEF Spec
=============================================================================
