--------------------------- MODULE ButtonsProofs ---------------------------
(***************************************************************************)
(* The repetition of Buttons gives for the presses a hold stands for,      *)
(* whatever the number of keys, the thresholds and the length of the hold. *)
(* The counter of a key is a function of how long it has been down, which  *)
(* is what makes the claim inductive: see CountOf.                         *)
(***************************************************************************)
EXTENDS Buttons, TLAPS

Period == RepeatAfter + 1 - RepeatFrom

\* The counter of a key that has been down for n samples.
CountOf(n) ==
  IF n <= RepeatAfter THEN n
  ELSE RepeatFrom + ((n - RepeatAfter - 1)
                      - Period * ((n - RepeatAfter - 1) \div Period))

KeyTypes ==
  /\ scan \in 0 .. BUTTN_NUM
  /\ held \in [Keys -> 0 .. MaxHold]
  /\ buttons_cnt \in [Keys -> Nat] /\ given \in [Keys -> Nat]

\* What is known of one key.
KeyInv(b) == buttons_cnt[b] = CountOf(held[b]) /\ given[b] = Presses(held[b])

CountInv == KeyTypes /\ \A b \in Keys : KeyInv(b)

-----------------------------------------------------------------------------
LEMMA PeriodPositive ==
  /\ Period \in Nat \ {0} /\ RepeatFrom + (Period - 1) = RepeatAfter
  /\ RepeatAfter \in 1 .. 254 /\ RepeatFrom \in 1 .. RepeatAfter
  /\ FirstGive \in 1 .. RepeatFrom - 1
BY ButtonsAssumption DEF Period

\* The quotient and the remainder are what division says.
LEMMA DivRem ==
  ASSUME NEW a \in Nat, NEW b \in Nat \ {0}
  PROVE  a \div b \in Nat /\ a - b * (a \div b) \in 0 .. b - 1
BY SMT

LEMMA DivUnique ==
  ASSUME NEW a \in Nat, NEW b \in Nat \ {0}, NEW q \in Nat, NEW r \in 0 .. b - 1,
         a = b * q + r
  PROVE  a \div b = q
BY SMT

\* One more in the dividend: the quotient grows when the remainder is at its
\* largest.
LEMMA DivStep ==
  ASSUME NEW a \in Nat, NEW b \in Nat \ {0}, NEW r, r = a - b * (a \div b)
  PROVE  (a + 1) \div b = IF r = b - 1 THEN (a \div b) + 1 ELSE a \div b
<1> DEFINE q == a \div b
<1>1. q \in Nat /\ r \in 0 .. b - 1
  BY DivRem
<1> HIDE DEF q
<1>2. a = b * q + r
  BY <1>1 DEF q
<1>3. CASE r = b - 1
  <2>1. b * (q + 1) = b * q + b /\ b * q \in Nat
    BY <1>1
  <2>2. a + 1 = b * (q + 1) + 0
    <3> DEFINE p == b * q
    <3>1. p \in Nat /\ a = p + r /\ b * (q + 1) = p + b
      BY <1>2, <2>1
    <3> HIDE DEF p
    <3>2. a + 1 = (p + b) + 0
      BY <1>3, <3>1
    <3> QED
      BY <3>1, <3>2, Zenon
  <2>3. a + 1 \in Nat /\ q + 1 \in Nat /\ 0 \in 0 .. b - 1
    BY <1>1
  <2>4. (a + 1) \div b = q + 1
    BY <2>2, <2>3, DivUnique, Zenon
  <2> QED
    BY <1>3, <2>4 DEF q
<1>4. CASE r # b - 1
  <2>1. a + 1 = b * q + (r + 1)
    BY <1>1, <1>2, <1>4
  <2>2. a + 1 \in Nat /\ r + 1 \in 0 .. b - 1
    BY <1>1, <1>4
  <2>3. (a + 1) \div b = q
    BY <1>1, <2>1, <2>2, DivUnique, Zenon
  <2> QED
    BY <1>4, <2>3 DEF q
<1> QED
  BY <1>3, <1>4

\* The counter is a byte that never wraps: it stays at or below RepeatAfter.
LEMMA CountOfRange ==
  ASSUME NEW n \in Nat
  PROVE  /\ CountOf(n) \in 0 .. RepeatAfter
         /\ n > RepeatAfter => CountOf(n) >= RepeatFrom
<1>1. CASE n <= RepeatAfter
  BY <1>1, PeriodPositive DEF CountOf
<1>2. CASE n > RepeatAfter
  <2> DEFINE m == n - RepeatAfter - 1
  <2>1. m \in Nat
    BY <1>2, PeriodPositive
  <2> HIDE DEF m
  <2>2. m - Period * (m \div Period) \in 0 .. Period - 1
    BY <2>1, PeriodPositive, DivRem
  <2>3. CountOf(n) = RepeatFrom + (m - Period * (m \div Period))
    BY <1>2, PeriodPositive DEF CountOf, m
  <2> QED
    BY <2>2, <2>3, PeriodPositive
<1> QED
  BY <1>1, <1>2, PeriodPositive

\* One more sample: the code's update of the counter, and its condition to
\* give, are those of the closed forms.
LEMMA SampleFacts ==
  ASSUME NEW n \in Nat
  PROVE  /\ Counted(CountOf(n)) = CountOf(n + 1)
         /\ Presses(n) \in Nat
         /\ Presses(n + 1) = IF Gives(CountOf(n)) THEN Presses(n) + 1 ELSE Presses(n)
<1>0. CountOf(n) \in 0 .. RepeatAfter
  BY CountOfRange
<1>1. Counted(CountOf(n)) = IF CountOf(n) = RepeatAfter THEN RepeatFrom ELSE CountOf(n) + 1
  <2>1. (CountOf(n) + 1) % 256 = CountOf(n) + 1
    BY <1>0, PeriodPositive
  <2> QED
    BY <1>0, <2>1, PeriodPositive DEF Counted
<1>2. CASE n < RepeatAfter
  <2>1. CountOf(n) = n /\ CountOf(n + 1) = n + 1
    BY <1>2, PeriodPositive DEF CountOf
  <2>2. /\ Presses(n) = IF n < FirstGive THEN 0 ELSE 1
        /\ Presses(n + 1) = IF n + 1 < FirstGive THEN 0 ELSE 1
    BY <1>2, PeriodPositive DEF Presses
  <2>3. Gives(CountOf(n)) <=> n + 1 = FirstGive
    BY <1>2, <2>1, PeriodPositive DEF Gives
  <2> QED
    BY <1>1, <1>2, <2>1, <2>2, <2>3, PeriodPositive
<1>3. CASE n = RepeatAfter
  <2>0. 0 \div Period = 0
    BY PeriodPositive, DivUnique, 0 = Period * 0 + 0
  <2>1. CountOf(n) = n
    BY <1>3 DEF CountOf
  <2>2. CountOf(n + 1) = RepeatFrom
    BY <1>3, <2>0, PeriodPositive DEF CountOf
  <2>3. Presses(n) = 1 /\ Presses(n + 1) = 2
    <3>1. Presses(n) = 1
      BY <1>3, PeriodPositive DEF Presses
    <3>2. (n + 1) - RepeatAfter - 1 = 0 /\ ~(n + 1 < FirstGive) /\ ~(n + 1 <= RepeatAfter)
      BY <1>3, PeriodPositive
    <3>3. Presses(n + 1) = 2 + (0 \div Period)
      BY <3>2 DEF Presses, Period
    <3> QED
      BY <2>0, <3>1, <3>3
  <2>4. Gives(CountOf(n))
    BY <1>3, <2>1, PeriodPositive DEF Gives
  <2> QED
    BY <1>1, <1>3, <2>1, <2>2, <2>3, <2>4
<1>4. CASE n > RepeatAfter
  <2> DEFINE m == n - RepeatAfter - 1
             q == m \div Period
             r == m - Period * q
  <2>1. m \in Nat /\ (n + 1) - RepeatAfter - 1 = m + 1
    BY <1>4, PeriodPositive
  <2>2. q \in Nat /\ r \in 0 .. Period - 1
    BY <2>1, PeriodPositive, DivRem
  <2>3. (m + 1) \div Period = IF r = Period - 1 THEN q + 1 ELSE q
    BY <2>1, PeriodPositive, DivStep
  <2>4. CountOf(n) = RepeatFrom + r
    BY <1>4, PeriodPositive DEF CountOf
  <2>5. CountOf(n + 1) = RepeatFrom + ((m + 1) - Period * ((m + 1) \div Period))
    BY <1>4, <2>1, PeriodPositive DEF CountOf
  <2>6. Presses(n) = 2 + q /\ Presses(n + 1) = 2 + ((m + 1) \div Period)
    BY <1>4, <2>1, PeriodPositive DEF Presses, Period
  <2> HIDE DEF m
  <2>7. Gives(CountOf(n)) <=> r = Period - 1
    BY <2>2, <2>4, PeriodPositive DEF Gives
  <2> HIDE DEF q
  <2>8. (m + 1) - Period * ((m + 1) \div Period) = IF r = Period - 1 THEN 0 ELSE r + 1
    <3>1. CASE r = Period - 1
      BY <2>1, <2>2, <2>3, <3>1, PeriodPositive
    <3>2. CASE r # Period - 1
      BY <2>1, <2>2, <2>3, <3>2, PeriodPositive
    <3> QED
      BY <3>1, <3>2
  <2> HIDE DEF r
  <2> QED
    BY <1>1, <2>2, <2>3, <2>4, <2>5, <2>6, <2>7, <2>8, PeriodPositive
<1> QED
  BY <1>2, <1>3, <1>4, PeriodPositive

-----------------------------------------------------------------------------
LEMMA InitCountInv == Init => CountInv
<1>1. CountOf(0) = 0 /\ Presses(0) = 0
  BY PeriodPositive DEF CountOf, Presses
<1>2. 0 \in 0 .. MaxHold /\ BUTTN_NUM \in 0 .. BUTTN_NUM
  BY ButtonsAssumption
<1> QED
  BY <1>1, <1>2 DEF Init, CountInv, KeyTypes, KeyInv

LEMMA CountStep ==
  ASSUME CountInv, [Next]_vars PROVE CountInv'
<1> USE DEF CountInv, KeyTypes
<1>1. ASSUME SampleDown PROVE CountInv'
  <2>1. scan \in Keys /\ held[scan] + 1 \in 0 .. MaxHold /\ scan + 1 \in 0 .. BUTTN_NUM
    BY <1>1, ButtonsAssumption DEF SampleDown, Keys
  <2>2. /\ held' = [held EXCEPT ![scan] = held[scan] + 1]
        /\ buttons_cnt' = [buttons_cnt EXCEPT ![scan] = Counted(buttons_cnt[scan])]
        /\ given' = [given EXCEPT ![scan] = IF Gives(buttons_cnt[scan])
                                            THEN given[scan] + 1 ELSE given[scan]]
        /\ scan' = scan + 1
    BY <1>1 DEF SampleDown
  <2>3. /\ Counted(buttons_cnt[scan]) = CountOf(held[scan] + 1)
        /\ Presses(held[scan] + 1) = IF Gives(buttons_cnt[scan])
                                     THEN given[scan] + 1 ELSE given[scan]
    BY <2>1, SampleFacts DEF KeyInv
  <2>4. CountOf(held[scan] + 1) \in Nat /\ Presses(held[scan] + 1) \in Nat
    <3>1. held[scan] + 1 \in Nat
      BY <2>1
    <3> QED
      BY <3>1, CountOfRange, SampleFacts, PeriodPositive
  <2>5. KeyTypes'
    BY <2>1, <2>2, <2>3, <2>4
  <2>6. ASSUME NEW b \in Keys PROVE KeyInv(b)'
    BY <2>1, <2>2, <2>3 DEF KeyInv
  <2> QED
    BY <2>5, <2>6
<1>2. ASSUME SampleUp PROVE CountInv'
  <2>1. CountOf(0) = 0 /\ Presses(0) = 0
    BY PeriodPositive DEF CountOf, Presses
  <2>2. scan' \in 0 .. BUTTN_NUM /\ 0 \in 0 .. MaxHold
    BY <1>2, ButtonsAssumption DEF SampleUp, Keys
  <2> QED
    BY <1>2, <2>1, <2>2 DEF SampleUp, KeyInv
<1>3. CASE DrainTake \/ DrainNext
  BY <1>3 DEF DrainTake, DrainNext, taskVars, historyVars, KeyInv
<1>4. CASE Tick
  BY <1>4, ButtonsAssumption DEF Tick, KeyInv
<1>5. CASE UNCHANGED vars
  BY <1>5 DEF vars, taskVars, historyVars, KeyInv
<1> QED
  BY <1>1, <1>2, <1>3, <1>4, <1>5 DEF Next

-----------------------------------------------------------------------------
\* However long a key of vGetButtonStateTask is held, and whatever its
\* thresholds, it is given for as many presses as the hold stands for.
THEOREM RepetitionExact == Spec => []GivesFollowHold
<1>1. CountInv => GivesFollowHold
  BY DEF CountInv, KeyInv, GivesFollowHold
<1> QED
  BY InitCountInv, CountStep, <1>1, PTL DEF Spec

-----------------------------------------------------------------------------
(***************************************************************************)
(* The presses are taken in time.                                          *)
(***************************************************************************)

TaskTypes ==
  /\ drain \in 0 .. BUTTN_NUM /\ phase \in 1 .. DrainEvery
  /\ smphr \in [Keys -> 0 .. SemaphoreMax] /\ waiting \in [Keys -> Nat]

\* What has waited is still there, and has waited since the display task was
\* last at its key at most.
KeyServed(b) ==
  /\ waiting[b] > 0 => smphr[b] > 0
  /\ waiting[b] <= IF drain <= b THEN DrainEvery ELSE DrainEvery - phase

ServeInv == TaskTypes /\ \A b \in Keys : KeyServed(b)

LEMMA InitServeInv == Init => ServeInv
BY ButtonsAssumption DEF Init, ServeInv, TaskTypes, KeyServed, Keys

LEMMA ServeStep ==
  ASSUME ServeInv, scan \in 0 .. BUTTN_NUM, [Next]_vars PROVE ServeInv'
<1> USE DEF ServeInv, TaskTypes, KeyServed
<1>0. SemaphoreMax \in Nat \ {0} /\ DrainEvery \in Nat \ {0} /\ BUTTN_NUM \in Nat \ {0}
  BY ButtonsAssumption
<1>1. ASSUME SampleDown PROVE ServeInv'
  <2>1. smphr' = smphr \/ (smphr[scan] < SemaphoreMax
                           /\ smphr' = [smphr EXCEPT ![scan] = smphr[scan] + 1])
    BY <1>1, Zenon DEF SampleDown, Give
  <2>2. scan \in Keys /\ UNCHANGED <<drain, phase, waiting>>
    BY <1>1 DEF SampleDown
  <2>3. smphr' \in [Keys -> 0 .. SemaphoreMax] /\ \A b \in Keys : smphr'[b] >= smphr[b]
    BY <1>0, <2>1, <2>2
  <2> QED
    BY <2>2, <2>3
<1>2. CASE SampleUp \/ UNCHANGED vars
  BY <1>2 DEF SampleUp, vars, taskVars, historyVars
<1>3. CASE DrainTake
  BY <1>0, <1>3 DEF DrainTake, taskVars, Keys
<1>4. CASE DrainNext
  BY <1>0, <1>4 DEF DrainNext, historyVars, Keys
<1>5. ASSUME Tick PROVE ServeInv'
  <2>1. drain = BUTTN_NUM /\ UNCHANGED smphr
    BY <1>5 DEF Tick
  <2>2. drain' \in 0 .. BUTTN_NUM /\ phase' \in 1 .. DrainEvery
        /\ waiting' \in [Keys -> Nat]
    BY <1>0, <1>5 DEF Tick
  <2>3. ASSUME NEW b \in Keys PROVE KeyServed(b)'
    <3>1. waiting[b] <= DrainEvery - phase
      BY <1>0, <2>1 DEF Keys
    <3>2. waiting'[b] = IF smphr[b] > 0 THEN waiting[b] + 1 ELSE 0
      BY <1>5 DEF Tick
    <3>3. CASE phase = 1
      <4>1. drain' <= b
        BY <1>5, <3>3 DEF Tick, Keys
      <4> QED
        BY <1>0, <2>1, <3>1, <3>2, <3>3, <4>1
    <3>4. CASE phase # 1
      <4>1. phase' = phase - 1
        BY <1>5, <3>4 DEF Tick
      <4> QED
        BY <1>0, <2>1, <2>2, <3>1, <3>2, <3>4, <4>1
    <3> QED
      BY <3>3, <3>4
  <2> QED
    BY <2>1, <2>2, <2>3
<1> QED
  BY <1>1, <1>2, <1>3, <1>4, <1>5 DEF Next

\* Every press is taken within one period of vIndDataOutTask, whatever the
\* number of keys and wherever between two of them it is given.
THEOREM PressesServed == Spec => []PressServed
<1>1. ServeInv => PressServed
  BY ButtonsAssumption DEF ServeInv, TaskTypes, KeyServed, PressServed
<1>2. CountInv => scan \in 0 .. BUTTN_NUM
  BY DEF CountInv, KeyTypes
<1> QED
  BY InitCountInv, CountStep, InitServeInv, ServeStep, <1>1, <1>2, PTL DEF Spec

LEMMA PressesBounded ==
  ASSUME NEW n \in Nat PROVE Presses(n) \in 0 .. n
<1>1. CASE n <= RepeatAfter
  BY <1>1, PeriodPositive DEF Presses
<1>2. CASE n > RepeatAfter
  <2> DEFINE m == n - RepeatAfter - 1
  <2>1. m \in Nat /\ Period \in Nat \ {0}
    BY <1>2, PeriodPositive
  <2>2. Presses(n) = 2 + (m \div Period)
    BY <1>2, PeriodPositive DEF Presses, Period
  <2> HIDE DEF m
  <2>3. m \div Period \in 0 .. m
    BY <2>1
  <2> QED
    BY <1>2, <2>2, <2>3, PeriodPositive DEF m
<1> QED
  BY <1>1, <1>2, PeriodPositive

LostType == lost \in BOOLEAN

LEMMA LostStep ==
  ASSUME LostType, [Next]_vars PROVE LostType'
<1>1. CASE SampleDown
  <2>1. lost' = lost \/ lost' = TRUE
    BY <1>1, Zenon DEF SampleDown, Give
  <2> QED
    BY <2>1, Zenon DEF LostType
<1>2. CASE SampleUp \/ DrainTake \/ DrainNext \/ Tick \/ UNCHANGED vars
  <2>1. lost' = lost
    BY <1>2, Zenon DEF SampleUp, DrainTake, DrainNext, Tick, vars, historyVars
  <2> QED
    BY <2>1, Zenon DEF LostType
<1> QED
  BY <1>1, <1>2, Zenon DEF Next

\* Every variable stays in its range: the byte that counts samples never
\* wraps, and a semaphore never passes its limit.
THEOREM TypeCorrect == Spec => []TypeOK
<1>1. Init => LostType
  BY DEF Init, LostType
<1>2. ASSUME CountInv, ServeInv, LostType PROVE TypeOK
  <2>1. buttons_cnt \in [Keys -> 0 .. RepeatAfter]
    <3>1. \A b \in Keys : held[b] \in Nat /\ buttons_cnt[b] = CountOf(held[b])
      BY <1>2 DEF CountInv, KeyTypes, KeyInv
    <3>2. \A b \in Keys : buttons_cnt[b] \in 0 .. RepeatAfter
      BY <3>1, CountOfRange
    <3> QED
      BY <1>2, <3>2 DEF CountInv, KeyTypes
  <2>2. given \in [Keys -> 0 .. MaxHold]
    <3>1. \A b \in Keys : held[b] \in 0 .. MaxHold /\ given[b] = Presses(held[b])
      BY <1>2 DEF CountInv, KeyTypes, KeyInv
    <3>2. \A b \in Keys : given[b] \in 0 .. held[b]
      BY <3>1, PressesBounded
    <3>3. \A b \in Keys : given[b] \in 0 .. MaxHold
      BY <3>1, <3>2, ButtonsAssumption
    <3> QED
      BY <1>2, <3>3 DEF CountInv, KeyTypes
  <2>3. /\ scan \in 0 .. BUTTN_NUM /\ drain \in 0 .. BUTTN_NUM
        /\ phase \in 1 .. DrainEvery /\ smphr \in [Keys -> 0 .. SemaphoreMax]
        /\ held \in [Keys -> 0 .. MaxHold] /\ waiting \in [Keys -> Nat]
    BY <1>2 DEF CountInv, KeyTypes, ServeInv, TaskTypes
  <2> QED
    BY <1>2, <2>1, <2>2, <2>3 DEF TypeOK, LostType
<1>3. CountInv => scan \in 0 .. BUTTN_NUM
  BY DEF CountInv, KeyTypes
<1> QED
  BY InitCountInv, CountStep, InitServeInv, ServeStep, LostStep, <1>1, <1>2, <1>3, PTL
     DEF Spec

-----------------------------------------------------------------------------
(***************************************************************************)
(* No press is lost.                                                       *)
(***************************************************************************)

\* The samples of a key since the display task was last done with it, at most.
Sampled(b) ==
  (IF drain <= b THEN DrainEvery ELSE DrainEvery - phase) + (IF scan > b THEN 1 ELSE 0)

\* The last sample of a key may have been one that is given for.
JustGave(b) == IF buttons_cnt[b] \in {FirstGive, RepeatFrom} THEN 1 ELSE 0

\* At most every other sample has been given for.
RoomInv ==
  /\ \A b \in Keys : 2 * smphr[b] <= Sampled(b) + JustGave(b)
  /\ ~lost

\* The sample after one that is given for is not.
LEMMA GivesAreApart ==
  ASSUME RepeatFrom < RepeatAfter, NEW n \in 0 .. RepeatAfter, Gives(n)
  PROVE  n \notin {FirstGive, RepeatFrom} /\ Counted(n) \in {FirstGive, RepeatFrom}
<1>1. (n + 1) % 256 = n + 1
  BY PeriodPositive
<1> QED
  BY <1>1, PeriodPositive DEF Gives, Counted

LEMMA RoomStep ==
  ASSUME RepeatFrom < RepeatAfter, DrainEvery < 2 * SemaphoreMax,
         TypeOK, RoomInv, [Next]_vars
  PROVE  RoomInv'
<1> USE DEF taskVars, historyVars
<1>0. /\ SemaphoreMax \in Nat \ {0} /\ DrainEvery \in Nat \ {0} /\ BUTTN_NUM \in Nat \ {0}
      /\ phase \in 1 .. DrainEvery /\ scan \in 0 .. BUTTN_NUM /\ drain \in 0 .. BUTTN_NUM
      /\ \A b \in Keys : b \in Int /\ smphr[b] \in 0 .. SemaphoreMax
                         /\ buttons_cnt[b] \in 0 .. RepeatAfter
  BY ButtonsAssumption DEF TypeOK, Keys
<1>a. smphr \in [Keys -> 0 .. SemaphoreMax] /\ buttons_cnt \in [Keys -> 0 .. RepeatAfter]
  BY DEF TypeOK
<1>b. ~lost /\ \A b \in Keys : 2 * smphr[b] <= Sampled(b) + JustGave(b)
  BY DEF RoomInv
\* What a step must leave true of the keys.
<1>c. ASSUME lost' = lost,
             \A b \in Keys : 2 * smphr'[b] <= Sampled(b)' + JustGave(b)'
      PROVE  RoomInv'
  BY <1>b, <1>c, Zenon DEF RoomInv
<1>1. \A b \in Keys : Sampled(b) \in 0 .. DrainEvery + 1 /\ JustGave(b) \in 0 .. 1
  BY <1>0 DEF Sampled, JustGave
<1>2. CASE SampleDown
  <2>1. /\ scan \in Keys /\ UNCHANGED <<drain, phase>> /\ scan' = scan + 1
        /\ buttons_cnt' = [buttons_cnt EXCEPT ![scan] = Counted(buttons_cnt[scan])]
    BY <1>2 DEF SampleDown
  <2>2. /\ Sampled(scan) \in 0 .. DrainEvery
        /\ Gives(buttons_cnt[scan]) => JustGave(scan) = 0 /\ smphr[scan] < SemaphoreMax
    <3>1. Sampled(scan) \in 0 .. DrainEvery
      BY <1>0, <2>1 DEF Sampled
    <3>2. Gives(buttons_cnt[scan]) => JustGave(scan) = 0
      BY <1>0, <2>1, GivesAreApart DEF JustGave
    <3> QED
      BY <1>0, <1>b, <2>1, <3>1, <3>2
  <2>3. lost' = lost
    BY <1>2, <2>2 DEF SampleDown, Give
  <2>4. ASSUME NEW b \in Keys PROVE 2 * smphr'[b] <= Sampled(b)' + JustGave(b)'
    <3>1. CASE b # scan
      <4>1. smphr'[b] = smphr[b] /\ buttons_cnt'[b] = buttons_cnt[b]
        BY <1>2, <1>a, <2>1, <2>2, <3>1 DEF SampleDown, Give
      <4>2. Sampled(b)' = Sampled(b) /\ JustGave(b)' = JustGave(b)
        BY <1>0, <2>1, <3>1, <4>1 DEF Sampled, JustGave
      <4> QED
        BY <1>b, <4>1, <4>2
    <3>2. CASE b = scan
      <4>1. Sampled(b)' = Sampled(b) + 1
        BY <1>0, <2>1, <3>2 DEF Sampled
      <4>2. buttons_cnt'[b] = Counted(buttons_cnt[b]) /\ JustGave(b)' \in 0 .. 1
        BY <1>a, <2>1, <3>2 DEF JustGave
      <4>3. CASE ~Gives(buttons_cnt[b])
        <5>1. smphr'[b] = smphr[b]
          BY <1>2, <3>2, <4>3 DEF SampleDown
        <5> QED
          BY <1>0, <1>1, <1>b, <4>1, <4>2, <5>1
      <4>4. CASE Gives(buttons_cnt[b])
        <5>1. smphr'[b] = smphr[b] + 1
          BY <1>2, <1>a, <2>2, <3>2, <4>4 DEF SampleDown, Give
        <5>2. JustGave(b) = 0 /\ JustGave(b)' = 1
          BY <1>0, <2>2, <3>2, <4>2, <4>4, GivesAreApart DEF JustGave
        <5> QED
          BY <1>0, <1>1, <1>b, <4>1, <5>1, <5>2
      <4> QED
        BY <4>3, <4>4
    <3> QED
      BY <3>1, <3>2
  <2> QED
    BY <1>c, <2>3, <2>4
<1>3. CASE SampleUp
  <2>1. /\ scan \in Keys /\ UNCHANGED <<drain, phase, smphr, lost>> /\ scan' = scan + 1
        /\ buttons_cnt' = [buttons_cnt EXCEPT ![scan] = 0]
    BY <1>3 DEF SampleUp
  <2>2. ASSUME NEW b \in Keys PROVE 2 * smphr[b] <= Sampled(b)' + JustGave(b)'
    <3>1. CASE b # scan
      <4>1. buttons_cnt'[b] = buttons_cnt[b]
        BY <1>a, <2>1, <3>1
      <4>2. Sampled(b)' = Sampled(b) /\ JustGave(b)' = JustGave(b)
        BY <1>0, <2>1, <3>1, <4>1 DEF Sampled, JustGave
      <4> QED
        BY <1>b, <4>2
    <3>2. CASE b = scan
      <4>1. Sampled(b)' = Sampled(b) + 1 /\ JustGave(b)' \in 0 .. 1
        BY <1>0, <2>1, <3>2 DEF Sampled, JustGave
      <4> QED
        BY <1>0, <1>1, <1>b, <4>1
    <3> QED
      BY <3>1, <3>2
  <2> QED
    BY <1>c, <2>1, <2>2
<1>4. CASE DrainTake
  <2>1. /\ UNCHANGED <<scan, drain, phase, buttons_cnt, lost>> /\ drain \in Keys
        /\ \A b \in Keys : smphr'[b] = IF b = drain THEN smphr[b] - 1 ELSE smphr[b]
    BY <1>4, <1>a DEF DrainTake
  <2>2. ASSUME NEW b \in Keys PROVE 2 * smphr'[b] <= Sampled(b)' + JustGave(b)'
    <3>1. Sampled(b)' = Sampled(b) /\ JustGave(b)' = JustGave(b)
      BY <2>1 DEF Sampled, JustGave
    <3> QED
      BY <1>0, <1>1, <1>b, <2>1, <3>1
  <2> QED
    BY <1>c, <2>1, <2>2
<1>5. CASE DrainNext
  <2>1. /\ UNCHANGED <<scan, phase, buttons_cnt, smphr, lost>>
        /\ drain \in Keys /\ smphr[drain] = 0 /\ drain' = drain + 1
    BY <1>5 DEF DrainNext
  <2>2. ASSUME NEW b \in Keys PROVE 2 * smphr[b] <= Sampled(b)' + JustGave(b)'
    <3>1. JustGave(b)' = JustGave(b)
      BY <2>1 DEF JustGave
    <3>2. CASE b # drain
      <4>1. Sampled(b)' = Sampled(b)
        BY <1>0, <2>1, <3>2 DEF Sampled
      <4> QED
        BY <1>b, <3>1, <4>1
    <3>3. CASE b = drain
      <4>1. Sampled(b)' \in Nat
        BY <1>0, <2>1, <3>3 DEF Sampled
      <4> QED
        BY <1>1, <2>1, <3>1, <3>3, <4>1
    <3> QED
      BY <3>2, <3>3
  <2> QED
    BY <1>c, <2>1, <2>2
<1>6. CASE Tick
  <2>1. /\ UNCHANGED <<buttons_cnt, smphr, lost>> /\ scan = BUTTN_NUM /\ drain = BUTTN_NUM
        /\ scan' = 0 /\ drain' = IF phase = 1 THEN 0 ELSE BUTTN_NUM
        /\ phase' = IF phase = 1 THEN DrainEvery ELSE phase - 1
    BY <1>6 DEF Tick
  <2>2. \A b \in Keys : Sampled(b)' = Sampled(b) /\ JustGave(b)' = JustGave(b)
    BY <1>0, <2>1 DEF Sampled, JustGave, Keys
  <2> QED
    BY <2>1, <2>2 DEF RoomInv
<1>7. CASE UNCHANGED vars
  BY <1>7 DEF vars, RoomInv, Sampled, JustGave
<1> QED
  BY <1>2, <1>3, <1>4, <1>5, <1>6, <1>7 DEF Next

\* No give is refused for a full semaphore when it has room for a press in
\* every other sample between two runs of vIndDataOutTask, however many keys
\* there are and wherever in its period they are pressed.
THEOREM NothingIsLost ==
  ASSUME RepeatFrom < RepeatAfter, DrainEvery < 2 * SemaphoreMax
  PROVE  Spec => []NoPressLost
<1>1. Init => RoomInv
  BY ButtonsAssumption DEF Init, RoomInv, Sampled, JustGave, Keys
<1>2. TypeOK /\ RoomInv /\ [Next]_vars => RoomInv'
  BY RoomStep
<1>3. RoomInv => NoPressLost
  BY DEF RoomInv, NoPressLost
<1> QED
  BY <1>1, <1>2, <1>3, TypeCorrect, PTL DEF Spec
=============================================================================
