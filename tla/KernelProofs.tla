---------------------------- MODULE KernelProofs ----------------------------
(***************************************************************************)
(* For any tasks, priorities, delays and width of the tick counter: the    *)
(* types, that tasks wake on time, that the most important ready task      *)
(* runs, and the assertion made when the delayed lists are exchanged.      *)
(***************************************************************************)
EXTENDS Kernel, FiniteSetTheorems, TLAPS

\* Ticks the kernel has still to count before it releases t.
KLeft(t) ==
    IF t \in delayed THEN item[t] - xTickCount ELSE item[t] + Wrap - xTickCount

\* The delayed list holds times still to come in this round of the counter,
\* none before the next one noted; the other list those of the next round.
TimeInv ==
    /\ \A t \in delayed : item[t] > xTickCount /\ xNextTaskUnblockTime <= item[t]
    /\ \A t \in overflow : item[t] < xTickCount

\* Pended ticks have passed without being counted.
LeftInv ==
    \A t \in Task :
        left[t] = IF Blocked(t) /\ KLeft(t) > uxPendedTicks
                  THEN KLeft(t) - uxPendedTicks ELSE 0

\* The time a periodic task counts from is that of the counter, or lies
\* ahead of it exactly as long as the task has to sleep.
SinceInv ==
    \A t \in Task :
        /\ since[t] < Wrap =>
               \/ xTickCount = prev[t] + since[t]
               \/ xTickCount = prev[t] + since[t] - Wrap
               \/ xTickCount = prev[t] + since[t] + Wrap
        /\ since[t] < 0 => Blocked(t) /\ t \notin waiting /\ KLeft(t) = -since[t]

\* Where the current task is in a call says whether the scheduler is
\* suspended, and no other task is inside one.
CallInv ==
    /\ uxSchedulerSuspended <=> pc[current] \in {"until", "for", "wait", "resume"}
    /\ pendsv => pc[current] \in {"run", "yield"}
    /\ xYieldPending => pendsv \/ pc[current] = "unwind"
    /\ uxPendedTicks > 0 => uxSchedulerSuspended \/ pc[current] = "unwind"
    /\ \A t \in Task \ {current} : pc[t] \in {"run", "yield"}
    /\ pc[current] \in {"until", "for", "wait"} => ~Blocked(current)
    /\ pc[current] = "until" => since[current] < Wrap

IInv == TypeOK /\ TimeInv /\ LeftInv /\ SinceInv /\ CallInv /\ HighestRuns

(***************************************************************************)
(* Arithmetic and order.                                                   *)
(***************************************************************************)

\* Within two rounds of the counter, the remainder is one subtraction.
LEMMA Remainder ==
    ASSUME NEW i \in 0 .. Wrap - 1, NEW l \in 0 .. Wrap
    PROVE  (i + l) % Wrap = IF i + l < Wrap THEN i + l ELSE i + l - Wrap
<1> USE KernelAssumption
<1> DEFINE k == i + l
<1>1. k \in Nat /\ k < Wrap + Wrap
  OBVIOUS
<1> HIDE DEF k
<1>2. CASE k < Wrap
  <2>1. k % Wrap = k
    BY <1>1, <1>2, SMT
  <2> QED BY <1>2, <2>1 DEF k
<1>3. CASE ~(k < Wrap)
  <2> DEFINE j == k - Wrap
  <2>1. j \in Nat /\ j < Wrap /\ k = j + Wrap
    BY <1>1, <1>3
  <2> HIDE DEF j
  <2>2. (j + Wrap) % Wrap = j
    BY <2>1, SMT
  <2>3. k % Wrap = j /\ j = k - Wrap
    BY <1>1, <1>3, <2>1, <2>2 DEF j
  <2> QED BY <1>3, <2>3 DEF k
<1> QED BY <1>2, <1>3

\* A set of naturals has a smallest one: the initial segments up to its
\* members are ordered by strict inclusion, which is well-founded.
LEMMA SmallestExists ==
    ASSUME NEW T, T \subseteq Nat, T # {}
    PROVE  \E x \in T : \A y \in T : x <= y
<1> DEFINE U == {0 .. x : x \in T}
<1>1. U \subseteq FiniteSubsetsOf(Nat) /\ U # {}
  <2>1. ASSUME NEW x \in T PROVE 0 .. x \in FiniteSubsetsOf(Nat)
    <3>1. x \in Int /\ 0 \in Int /\ 0 .. x \subseteq Nat
      OBVIOUS
    <3>2. IsFiniteSet(0 .. x)
      BY <3>1, FS_Interval
    <3> QED BY <3>1, <3>2 DEF FiniteSubsetsOf
  <2> QED BY <2>1
<1>2. \E u \in U : \A v \in U : <<v, u>> \notin StrictSubsetOrdering(Nat)
  BY <1>1, FS_StrictSubsetOrderingWellFounded, WFMin
<1>3. PICK x \in T : \A y \in T : <<0 .. y, 0 .. x>> \notin StrictSubsetOrdering(Nat)
  BY <1>2
<1>4. ASSUME NEW y \in T, y < x
      PROVE  <<0 .. y, 0 .. x>> \in StrictSubsetOrdering(Nat)
  <2>1. x \in Nat /\ y \in Nat
    OBVIOUS
  <2>2. x \in 0 .. x /\ x \notin 0 .. y /\ 0 .. y \subseteq 0 .. x
    BY <2>1, <1>4
  <2>3. 0 .. y \in SUBSET Nat /\ 0 .. x \in SUBSET Nat
    BY <2>1
  <2> QED BY <2>2, <2>3 DEF StrictSubsetOrdering
<1>5. \A y \in T : x <= y
  <2>1. \A y \in T : ~(y < x) /\ y \in Nat /\ x \in Nat
    BY <1>3, <1>4
  <2> QED BY <2>1
<1> QED BY <1>5

\* The time at the head of a list is a time, and no item's is sooner.
LEMMA FirstTimeIs ==
    ASSUME TypeOK, NEW S, S \subseteq Task
    PROVE  FirstTime(S) \in 0 .. Wrap - 1 /\ \A t \in S : FirstTime(S) <= item[t]
<1> USE KernelAssumption
<1>1. CASE S = {}
  BY <1>1 DEF FirstTime, portMAX_DELAY
<1>2. CASE S # {}
  <2> DEFINE T == {item[t] : t \in S}
  <2>1. T \subseteq 0 .. Wrap - 1 /\ T # {}
    BY <1>2 DEF TypeOK
  <2>2. \E x \in T : \A y \in T : x <= y
    <3>1. T \subseteq Nat
      BY <2>1
    <3> HIDE DEF T
    <3> QED BY <2>1, <3>1, SmallestExists
  <2>3. \E x \in {item[t] : t \in S} : \A t \in S : x <= item[t]
    BY <2>2
  <2>4. FirstTime(S) \in {item[t] : t \in S} /\ \A t \in S : FirstTime(S) <= item[t]
    BY <1>2, <2>3 DEF FirstTime
  <2> QED BY <2>1, <2>4
<1> QED BY <1>1, <1>2

(***************************************************************************)
(* What a tick does to the lists.                                          *)
(***************************************************************************)

\* A tick releases exactly the tasks whose time it is.
LEMMA ReleasedAre ==
    ASSUME TypeOK, TimeInv
    PROVE  /\ NextTick \in 0 .. Wrap - 1
           /\ \/ xTickCount < Wrap - 1 /\ NextTick = xTickCount + 1 /\ Switched = delayed
              \/ xTickCount = Wrap - 1 /\ NextTick = 0 /\ Switched = overflow
                 /\ delayed = {}
           /\ Released = {t \in Switched : item[t] = NextTick}
           /\ \A t \in Switched : item[t] >= NextTick /\ NextUnblockTime <= item[t]
           /\ NextUnblockTime \in 0 .. Wrap - 1
<1> USE KernelAssumption
<1>1. xTickCount \in 0 .. Wrap - 1 /\ 1 \in 0 .. Wrap
      /\ item \in [Task -> 0 .. Wrap - 1] /\ delayed \subseteq Task
      /\ overflow \subseteq Task /\ xNextTaskUnblockTime \in 0 .. Wrap - 1
  BY DEF TypeOK
<1>2. NextTick = IF xTickCount + 1 < Wrap THEN xTickCount + 1 ELSE xTickCount + 1 - Wrap
  BY <1>1, Remainder DEF NextTick
<1>3. NextTick \in 0 .. Wrap - 1
  BY <1>1, <1>2
<1>4. \/ xTickCount < Wrap - 1 /\ NextTick = xTickCount + 1 /\ Switched = delayed
      \/ xTickCount = Wrap - 1 /\ NextTick = 0 /\ Switched = overflow /\ delayed = {}
  <2>1. CASE xTickCount < Wrap - 1
    <3>1. NextTick = xTickCount + 1 /\ NextTick # 0
      BY <1>1, <1>2, <2>1
    <3> QED BY <2>1, <3>1 DEF Switched
  <2>2. CASE xTickCount = Wrap - 1
    <3>1. NextTick = 0
      BY <1>1, <1>2, <2>2
    <3>2. delayed = {}
      <4> SUFFICES ASSUME NEW t \in delayed PROVE FALSE
        OBVIOUS
      <4>1. item[t] \in 0 .. Wrap - 1 /\ item[t] > xTickCount
        BY <1>1 DEF TimeInv
      <4> QED BY <4>1, <2>2
    <3> QED BY <2>2, <3>1, <3>2 DEF Switched
  <2> QED BY <1>1, <2>1, <2>2
<1>5. Switched \subseteq Task
  BY <1>1 DEF Switched
<1>6. NextUnblockTime \in 0 .. Wrap - 1 /\ \A t \in Switched : NextUnblockTime <= item[t]
  <2>1. CASE NextTick = 0
    BY <1>1, <2>1, FirstTimeIs DEF NextUnblockTime, Switched
  <2>2. CASE NextTick # 0
    BY <1>1, <2>2 DEF NextUnblockTime, Switched, TimeInv
  <2> QED BY <2>1, <2>2
<1>7. \A t \in Switched : item[t] >= NextTick
  BY <1>1, <1>4, <1>5 DEF TimeInv
<1>8. Released = {t \in Switched : item[t] = NextTick}
  <2>1. \A t \in Switched : item[t] \in 0 .. Wrap - 1
    BY <1>1, <1>5
  <2>2. CASE NextTick >= NextUnblockTime
    <3>1. Released = {t \in Switched : item[t] <= NextTick}
      BY <2>2 DEF Released
    <3>2. \A t \in Switched : item[t] <= NextTick <=> item[t] = NextTick
      BY <1>3, <1>7, <2>1
    <3> QED BY <3>1, <3>2
  <2>3. CASE ~(NextTick >= NextUnblockTime)
    <3>1. Released = {}
      BY <2>3 DEF Released
    <3>2. \A t \in Switched : item[t] # NextTick
      BY <1>3, <1>6, <2>1, <2>3
    <3> QED BY <3>1, <3>2
  <2> QED BY <2>2, <2>3
<1> QED BY <1>3, <1>4, <1>6, <1>7, <1>8

\* It counts every blocked task one down, and releases it at the last.
LEMMA TickStep ==
    ASSUME TypeOK, TimeInv, IncrementTick
    PROVE  /\ TimeInv'
           /\ xTickCount' \in 0 .. Wrap - 1 /\ xNextTaskUnblockTime' \in 0 .. Wrap - 1
           /\ delayed' \subseteq Task /\ overflow' \subseteq Task
           /\ delayed' \cap overflow' = {}
           /\ \A t \in Task :
                /\ Blocked(t) => KLeft(t) \in 1 .. Wrap - 1
                /\ Blocked(t)' <=> Blocked(t) /\ KLeft(t) > 1
                /\ t \in Released <=> Blocked(t) /\ KLeft(t) = 1
                /\ Blocked(t)' => KLeft(t)' = KLeft(t) - 1
<1> USE KernelAssumption
<1>1. /\ xTickCount \in 0 .. Wrap - 1 /\ item \in [Task -> 0 .. Wrap - 1]
      /\ delayed \subseteq Task /\ overflow \subseteq Task /\ delayed \cap overflow = {}
  BY DEF TypeOK
<1>2. /\ xTickCount' = NextTick /\ delayed' = Switched \ Released /\ item' = item
      /\ overflow' = IF NextTick = 0 THEN delayed ELSE overflow
      /\ xNextTaskUnblockTime' = IF NextTick >= NextUnblockTime
                                 THEN FirstTime(Switched \ Released) ELSE NextUnblockTime
  BY DEF IncrementTick
<1>3. /\ NextTick \in 0 .. Wrap - 1
      /\ Released = {t \in Switched : item[t] = NextTick}
      /\ \A t \in Switched : item[t] >= NextTick /\ NextUnblockTime <= item[t]
      /\ NextUnblockTime \in 0 .. Wrap - 1
  BY ReleasedAre
<1>4. Switched \subseteq Task
  BY <1>1 DEF Switched
<1>5. xNextTaskUnblockTime' \in 0 .. Wrap - 1
      /\ \A t \in delayed' : xNextTaskUnblockTime' <= item[t]
  <2>1. /\ FirstTime(Switched \ Released) \in 0 .. Wrap - 1
        /\ \A t \in Switched \ Released : FirstTime(Switched \ Released) <= item[t]
    BY <1>4, FirstTimeIs
  <2> QED BY <1>2, <1>3, <2>1
<1>6. \A t \in delayed' : item[t] > NextTick
  <2>1. \A t \in delayed' : t \in Switched /\ item[t] # NextTick /\ item[t] >= NextTick
    BY <1>2, <1>3
  <2>2. \A t \in delayed' : item[t] \in 0 .. Wrap - 1
    BY <1>1, <1>2, <1>4
  <2> QED BY <1>3, <2>1, <2>2
<1>7. CASE xTickCount < Wrap - 1 /\ NextTick = xTickCount + 1 /\ Switched = delayed
  <2>1. overflow' = overflow /\ delayed' = {t \in delayed : item[t] # xTickCount + 1}
    BY <1>1, <1>2, <1>3, <1>7
  <2>2. Released = {t \in delayed : item[t] = xTickCount + 1}
    BY <1>3, <1>7
  <2>3. \A t \in delayed : item[t] > xTickCount
    BY DEF TimeInv
  <2>4. \A t \in overflow : item[t] < xTickCount
    BY DEF TimeInv
  <2>5. TimeInv'
    <3>1. \A t \in overflow' : item'[t] < xTickCount'
      BY <1>1, <1>2, <1>7, <2>1, <2>4
    <3> QED BY <1>2, <1>5, <1>6, <3>1 DEF TimeInv
  <2>6. ASSUME NEW t \in Task
        PROVE  /\ Blocked(t) => KLeft(t) \in 1 .. Wrap - 1
               /\ Blocked(t)' <=> Blocked(t) /\ KLeft(t) > 1
               /\ t \in Released <=> Blocked(t) /\ KLeft(t) = 1
               /\ Blocked(t)' => KLeft(t)' = KLeft(t) - 1
    <3>1. item[t] \in 0 .. Wrap - 1
      BY <1>1
    <3>2. CASE t \in delayed
      <4>1. KLeft(t) = item[t] - xTickCount /\ t \notin overflow /\ item[t] > xTickCount
        BY <1>1, <2>3, <3>2 DEF KLeft
      <4>2. t \in delayed' <=> item[t] # xTickCount + 1
        BY <2>1, <3>2
      <4>3. t \in delayed' => KLeft(t)' = item[t] - (xTickCount + 1)
        BY <1>2, <1>7 DEF KLeft
      <4> QED BY <1>1, <2>1, <2>2, <3>1, <3>2, <4>1, <4>2, <4>3 DEF Blocked
    <3>3. CASE t \in overflow
      <4>1. KLeft(t) = item[t] + Wrap - xTickCount /\ t \notin delayed /\ item[t] < xTickCount
        BY <1>1, <2>4, <3>3 DEF KLeft
      <4>2. t \notin delayed' /\ t \in overflow' /\ t \notin Released
        BY <2>1, <2>2, <3>3, <4>1
      <4>3. KLeft(t)' = item[t] + Wrap - (xTickCount + 1)
        BY <1>2, <1>7, <4>2 DEF KLeft
      <4> QED BY <1>1, <1>7, <3>1, <3>3, <4>1, <4>2, <4>3 DEF Blocked
    <3>4. CASE t \notin delayed \cup overflow
      BY <2>1, <2>2, <3>4 DEF Blocked
    <3> QED BY <3>2, <3>3, <3>4
  <2> QED BY <1>1, <1>2, <1>3, <1>5, <2>1, <2>5, <2>6
<1>8. CASE xTickCount = Wrap - 1 /\ NextTick = 0 /\ Switched = overflow /\ delayed = {}
  <2>1. overflow' = {} /\ delayed' = {t \in overflow : item[t] # 0}
    BY <1>2, <1>3, <1>8
  <2>2. Released = {t \in overflow : item[t] = 0}
    BY <1>3, <1>8
  <2>3. TimeInv'
    BY <1>2, <1>5, <1>6, <2>1 DEF TimeInv
  <2>4. ASSUME NEW t \in Task
        PROVE  /\ Blocked(t) => KLeft(t) \in 1 .. Wrap - 1
               /\ Blocked(t)' <=> Blocked(t) /\ KLeft(t) > 1
               /\ t \in Released <=> Blocked(t) /\ KLeft(t) = 1
               /\ Blocked(t)' => KLeft(t)' = KLeft(t) - 1
    <3>1. item[t] \in 0 .. Wrap - 1 /\ t \notin delayed
      BY <1>1, <1>8
    <3>2. KLeft(t) = item[t] + Wrap - xTickCount
      BY <3>1 DEF KLeft
    <3>3. t \in overflow => item[t] < xTickCount
      BY DEF TimeInv
    <3>4. t \in delayed' => KLeft(t)' = item[t] - 0
      BY <1>2, <1>8 DEF KLeft
    <3> QED BY <1>1, <1>8, <2>1, <2>2, <3>1, <3>2, <3>3, <3>4 DEF Blocked
  <2> QED BY <1>1, <1>2, <1>3, <1>5, <2>1, <2>3, <2>4
<1> QED BY <1>7, <1>8, ReleasedAre

(***************************************************************************)
(* What a call does to the lists.                                          *)
(***************************************************************************)

\* A task that blocks for a number of ticks has these ticks to wait, in
\* whichever list the sum puts it.
LEMMA AddStep ==
    ASSUME TypeOK, TimeInv, NEW t \in Task, ~Blocked(t), NEW n \in 1 .. Wrap - 1,
           prvAddCurrentTaskToDelayedList(t, n), xTickCount' = xTickCount
    PROVE  /\ TimeInv'
           /\ item' \in [Task -> 0 .. Wrap - 1]
           /\ xNextTaskUnblockTime' \in 0 .. Wrap - 1
           /\ delayed' \subseteq Task /\ overflow' \subseteq Task
           /\ delayed' \cap overflow' = {}
           /\ delayed' \cup overflow' = delayed \cup overflow \cup {t}
           /\ KLeft(t)' = n
           /\ \A u \in Task \ {t} : KLeft(u)' = KLeft(u)
<1> USE KernelAssumption
<1> DEFINE wake == (xTickCount + n) % Wrap
<1>1. /\ xTickCount \in 0 .. Wrap - 1 /\ item \in [Task -> 0 .. Wrap - 1]
      /\ xNextTaskUnblockTime \in 0 .. Wrap - 1
      /\ delayed \subseteq Task /\ overflow \subseteq Task /\ delayed \cap overflow = {}
      /\ t \notin delayed /\ t \notin overflow
  BY DEF TypeOK, Blocked
<1>2. wake = IF xTickCount + n < Wrap THEN xTickCount + n ELSE xTickCount + n - Wrap
  <2>1. n \in 0 .. Wrap
    OBVIOUS
  <2> QED BY <1>1, <2>1, Remainder
<1>3. /\ item' = [item EXCEPT ![t] = wake]
      /\ \/ /\ wake < xTickCount
            /\ overflow' = overflow \cup {t} /\ delayed' = delayed
            /\ xNextTaskUnblockTime' = xNextTaskUnblockTime
         \/ /\ wake >= xTickCount
            /\ delayed' = delayed \cup {t} /\ overflow' = overflow
            /\ xNextTaskUnblockTime' = IF wake < xNextTaskUnblockTime
                                       THEN wake ELSE xNextTaskUnblockTime
  BY DEF prvAddCurrentTaskToDelayedList
<1> HIDE DEF wake
<1>4. wake \in 0 .. Wrap - 1
  BY <1>1, <1>2
<1>5. /\ item' \in [Task -> 0 .. Wrap - 1] /\ item'[t] = wake
      /\ \A u \in Task \ {t} : item'[u] = item[u]
  BY <1>1, <1>3, <1>4
<1>6. \A u \in Task : item[u] \in 0 .. Wrap - 1
  BY <1>1
<1>7. /\ \A u \in delayed : u # t /\ item[u] > xTickCount /\ xNextTaskUnblockTime <= item[u]
      /\ \A u \in overflow : u # t /\ item[u] < xTickCount
  BY <1>1 DEF TimeInv
<1>8. CASE /\ wake < xTickCount
           /\ overflow' = overflow \cup {t} /\ delayed' = delayed
           /\ xNextTaskUnblockTime' = xNextTaskUnblockTime
  <2>1. TimeInv'
    <3>1. \A u \in delayed' : item'[u] > xTickCount' /\ xNextTaskUnblockTime' <= item'[u]
      BY <1>1, <1>5, <1>7, <1>8
    <3>2. \A u \in overflow' : item'[u] < xTickCount'
      BY <1>1, <1>5, <1>7, <1>8
    <3> QED BY <3>1, <3>2 DEF TimeInv
  <2>2. KLeft(t)' = wake + Wrap - xTickCount
    BY <1>1, <1>5, <1>8 DEF KLeft
  <2>3. wake + Wrap - xTickCount = n
    BY <1>1, <1>2, <1>8
  <2>4. \A u \in Task \ {t} : KLeft(u)' = KLeft(u)
    BY <1>5, <1>8 DEF KLeft
  <2> QED BY <1>1, <1>5, <1>8, <2>1, <2>2, <2>3, <2>4
<1>9. CASE /\ wake >= xTickCount
           /\ delayed' = delayed \cup {t} /\ overflow' = overflow
           /\ xNextTaskUnblockTime' = IF wake < xNextTaskUnblockTime
                                      THEN wake ELSE xNextTaskUnblockTime
  <2>1. wake = xTickCount + n
    BY <1>1, <1>2, <1>9
  <2>2. TimeInv'
    <3>1. \A u \in delayed : xNextTaskUnblockTime' <= item'[u] /\ item'[u] > xTickCount'
      <4> SUFFICES ASSUME NEW u \in delayed
                   PROVE  xNextTaskUnblockTime' <= item'[u] /\ item'[u] > xTickCount'
        OBVIOUS
      <4>1. item'[u] = item[u] /\ item[u] \in 0 .. Wrap - 1
        BY <1>1, <1>5, <1>6, <1>7
      <4>2. xNextTaskUnblockTime' <= xNextTaskUnblockTime
        BY <1>1, <1>4, <1>9
      <4>3. xNextTaskUnblockTime' \in 0 .. Wrap - 1
        BY <1>1, <1>4, <1>9
      <4> QED BY <1>1, <1>7, <4>1, <4>2, <4>3
    <3>2. xNextTaskUnblockTime' <= item'[t] /\ item'[t] > xTickCount'
      BY <1>1, <1>4, <1>5, <1>9, <2>1
    <3>3. \A u \in overflow' : item'[u] < xTickCount'
      BY <1>1, <1>5, <1>7, <1>9
    <3> QED BY <1>9, <3>1, <3>2, <3>3 DEF TimeInv
  <2>3. KLeft(t)' = wake - xTickCount
    BY <1>5, <1>9 DEF KLeft
  <2>4. wake - xTickCount = n
    BY <1>1, <2>1
  <2>5. \A u \in Task \ {t} : KLeft(u)' = KLeft(u)
    BY <1>5, <1>9 DEF KLeft
  <2>6. xNextTaskUnblockTime' \in 0 .. Wrap - 1
    BY <1>1, <1>4, <1>9
  <2> QED BY <1>1, <1>5, <1>9, <2>2, <2>3, <2>4, <2>5, <2>6
<1> QED BY <1>3, <1>8, <1>9

(***************************************************************************)
(* The steps.  An action is one of the tick, the switch, and the steps of  *)
(* a call: those that leave times alone, and those that work on the lists. *)
(***************************************************************************)

Times == <<xTickCount, lists, uxPendedTicks, wakes, left>>

LEMMA SameTimes ==
    ASSUME IInv, UNCHANGED Times
    PROVE  TimeInv' /\ LeftInv' /\ SinceInv'
<1>1. /\ xTickCount' = xTickCount /\ delayed' = delayed /\ overflow' = overflow
      /\ item' = item /\ waiting' = waiting /\ left' = left
      /\ xNextTaskUnblockTime' = xNextTaskUnblockTime
      /\ uxPendedTicks' = uxPendedTicks /\ prev' = prev /\ since' = since
  BY DEF Times, lists, wakes
<1>2. TimeInv'
  BY <1>1 DEF IInv, TimeInv
<1>3. \A t \in Task : KLeft(t)' = KLeft(t) /\ (Blocked(t)' <=> Blocked(t))
  BY <1>1 DEF KLeft, Blocked
<1>4. LeftInv'
  BY <1>1, <1>3 DEF IInv, LeftInv
<1>5. SinceInv'
  BY <1>1, <1>3 DEF IInv, SinceInv
<1> QED BY <1>2, <1>4, <1>5

\* A tick counts the time since the wake on, and a sleep that lasts down.
LEMMA TickSince ==
    ASSUME IInv, IncrementTick
    PROVE  SinceInv' /\ since' \in [Task -> 1 - Wrap .. Wrap]
<1> USE KernelAssumption
<1>1. /\ xTickCount \in 0 .. Wrap - 1 /\ prev \in [Task -> 0 .. Wrap - 1]
      /\ since \in [Task -> 1 - Wrap .. Wrap] /\ waiting' \subseteq waiting
      /\ prev' = prev /\ xTickCount' = NextTick
      /\ since' = [t \in Task |-> IF since[t] < Wrap THEN since[t] + 1 ELSE Wrap]
  BY DEF IInv, TypeOK, IncrementTick, StillWaiting
<1>2. xTickCount' = IF xTickCount < Wrap - 1 THEN xTickCount + 1 ELSE 0
  BY <1>1, ReleasedAre DEF IInv
<1>3. since' \in [Task -> 1 - Wrap .. Wrap]
  BY <1>1
<1>4. ASSUME NEW t \in Task
      PROVE  /\ since'[t] < Wrap =>
                    \/ xTickCount' = prev'[t] + since'[t]
                    \/ xTickCount' = prev'[t] + since'[t] - Wrap
                    \/ xTickCount' = prev'[t] + since'[t] + Wrap
             /\ since'[t] < 0 => Blocked(t)' /\ t \notin waiting' /\ KLeft(t)' = -since'[t]
  <2>1. since[t] \in 1 - Wrap .. Wrap /\ prev[t] \in 0 .. Wrap - 1
    BY <1>1
  <2>2. since'[t] = IF since[t] < Wrap THEN since[t] + 1 ELSE Wrap
    BY <1>1
  <2>3. since[t] < Wrap => \/ xTickCount = prev[t] + since[t]
                           \/ xTickCount = prev[t] + since[t] - Wrap
                           \/ xTickCount = prev[t] + since[t] + Wrap
    BY DEF IInv, SinceInv
  <2>4. ASSUME since'[t] < Wrap
        PROVE  \/ xTickCount' = prev'[t] + since'[t]
               \/ xTickCount' = prev'[t] + since'[t] - Wrap
               \/ xTickCount' = prev'[t] + since'[t] + Wrap
    <3>1. since[t] < Wrap /\ since'[t] = since[t] + 1 /\ prev'[t] = prev[t]
      BY <1>1, <2>1, <2>2, <2>4
    <3> QED BY <1>1, <1>2, <2>1, <2>3, <2>4, <3>1
  <2>5. ASSUME since'[t] < 0
        PROVE  Blocked(t)' /\ t \notin waiting' /\ KLeft(t)' = -since'[t]
    <3>1. since[t] < -1 /\ since'[t] = since[t] + 1
      BY <2>1, <2>2, <2>5
    <3>2. Blocked(t) /\ t \notin waiting /\ KLeft(t) = -since[t]
      BY <2>1, <3>1 DEF IInv, SinceInv
    <3>3. /\ Blocked(t)' <=> Blocked(t) /\ KLeft(t) > 1
          /\ Blocked(t)' => KLeft(t)' = KLeft(t) - 1
      BY TickStep DEF IInv
    <3> QED BY <1>1, <2>1, <3>1, <3>2, <3>3
  <2> QED BY <2>4, <2>5
<1> QED BY <1>3, <1>4 DEF SinceInv

LEMMA CountedTick ==
    ASSUME IInv, IncrementTick,
           \/ /\ uxPendedTicks = 0 /\ uxPendedTicks' = 0
              /\ left' = [t \in Task |-> IF left[t] > 0 THEN left[t] - 1 ELSE 0]
           \/ /\ uxPendedTicks > 0 /\ uxPendedTicks' = uxPendedTicks - 1
              /\ left' = left
    PROVE  LeftInv' /\ left' \in [Task -> 0 .. Wrap - 1]
<1> USE KernelAssumption
<1>1. left \in [Task -> 0 .. Wrap - 1] /\ uxPendedTicks \in Nat
  BY DEF IInv, TypeOK
<1>2. ASSUME NEW t \in Task
      PROVE  left'[t] = IF Blocked(t)' /\ KLeft(t)' > uxPendedTicks'
                        THEN KLeft(t)' - uxPendedTicks' ELSE 0
  <2>1. /\ Blocked(t) => KLeft(t) \in 1 .. Wrap - 1
        /\ Blocked(t)' <=> Blocked(t) /\ KLeft(t) > 1
        /\ Blocked(t)' => KLeft(t)' = KLeft(t) - 1
    BY TickStep DEF IInv
  <2>2. left[t] = IF Blocked(t) /\ KLeft(t) > uxPendedTicks
                  THEN KLeft(t) - uxPendedTicks ELSE 0
    BY DEF IInv, LeftInv
  <2>3. left[t] \in 0 .. Wrap - 1
    BY <1>1
  <2> DEFINE k == KLeft(t)  k1 == KLeft(t)'
  <2>4. CASE ~Blocked(t)
    BY <1>1, <2>1, <2>2, <2>4
  <2>5. CASE Blocked(t)
    <3>1. /\ k \in 1 .. Wrap - 1
          /\ Blocked(t)' <=> k > 1
          /\ Blocked(t)' => k1 = k - 1
          /\ left[t] = IF k > uxPendedTicks THEN k - uxPendedTicks ELSE 0
      BY <2>1, <2>2, <2>5
    <3> HIDE DEF k, k1
    <3>2. left'[t] = IF Blocked(t)' /\ k1 > uxPendedTicks' THEN k1 - uxPendedTicks' ELSE 0
      <4>1. CASE /\ uxPendedTicks = 0 /\ uxPendedTicks' = 0
                 /\ left' = [u \in Task |-> IF left[u] > 0 THEN left[u] - 1 ELSE 0]
        <5>1. left'[t] = IF left[t] > 0 THEN left[t] - 1 ELSE 0
          BY <4>1
        <5> QED BY <2>3, <3>1, <4>1, <5>1
      <4>2. CASE /\ uxPendedTicks > 0 /\ uxPendedTicks' = uxPendedTicks - 1
                 /\ left' = left
        BY <1>1, <2>3, <3>1, <4>2
      <4> QED BY <4>1, <4>2
    <3> QED BY <3>2 DEF k, k1
  <2> QED BY <2>4, <2>5
<1>3. left' \in [Task -> 0 .. Wrap - 1]
  BY <1>1
<1> QED BY <1>2, <1>3 DEF LeftInv

\* What a counted tick leaves of the types.
LEMMA TickTypes ==
    ASSUME IInv, IncrementTick
    PROVE  /\ xTickCount' \in 0 .. Wrap - 1 /\ xNextTaskUnblockTime' \in 0 .. Wrap - 1
           /\ delayed' \subseteq Task /\ overflow' \subseteq Task
           /\ delayed' \cap overflow' = {}
           /\ waiting' \subseteq delayed' \cup overflow'
           /\ item' \in [Task -> 0 .. Wrap - 1]
           /\ prev' \in [Task -> 0 .. Wrap - 1]
           /\ Ready' = Ready \cup Released
<1>1. waiting' = waiting \ Released /\ item' = item /\ prev' = prev
  BY DEF IncrementTick, StillWaiting
<1>2. \A t \in Task : /\ Blocked(t)' <=> Blocked(t) /\ KLeft(t) > 1
                      /\ t \in Released <=> Blocked(t) /\ KLeft(t) = 1
                      /\ Blocked(t) => KLeft(t) \in 1 .. Wrap - 1
  BY TickStep DEF IInv
<1>3. \A t \in Task : Blocked(t)' <=> Blocked(t) /\ t \notin Released
  <2> SUFFICES ASSUME NEW t \in Task PROVE Blocked(t)' <=> Blocked(t) /\ t \notin Released
    OBVIOUS
  <2> DEFINE k == KLeft(t)
  <2>1. /\ Blocked(t)' <=> Blocked(t) /\ k > 1
        /\ t \in Released <=> Blocked(t) /\ k = 1
        /\ Blocked(t) => k \in 1 .. Wrap - 1
    BY <1>2
  <2> HIDE DEF k
  <2> QED BY <2>1, KernelAssumption
<1>4. /\ waiting \subseteq delayed \cup overflow /\ delayed \subseteq Task
      /\ overflow \subseteq Task /\ item \in [Task -> 0 .. Wrap - 1]
      /\ prev \in [Task -> 0 .. Wrap - 1]
  BY DEF IInv, TypeOK
<1>5. waiting' \subseteq delayed' \cup overflow'
  BY <1>1, <1>3, <1>4 DEF Blocked
<1>6. Released \subseteq Task
  <2>1. Switched \subseteq Task
    BY <1>4 DEF Switched
  <2> QED BY <2>1 DEF Released
<1>7. Ready' = Ready \cup Released
  BY <1>3, <1>4, <1>6, TickStep DEF Ready, Blocked, IInv
<1> QED BY <1>1, <1>4, <1>5, <1>7, TickStep DEF IInv

LEMMA TickKeeps == ASSUME IInv, xPortSysTickHandler PROVE IInv'
<1> USE KernelAssumption DEF IInv
<1>1. /\ ~pendsv /\ pc[current] # "unwind"
      /\ left' = [t \in Task |-> IF left[t] > 0 THEN left[t] - 1 ELSE 0]
      /\ uxSchedulerSuspended' = uxSchedulerSuspended
      /\ xYieldPending' = xYieldPending /\ current' = current /\ pc' = pc
  BY DEF xPortSysTickHandler
<1>2. CASE /\ ~uxSchedulerSuspended
           /\ IncrementTick
           /\ pendsv' = (SwitchRequired \/ xYieldPending)
           /\ UNCHANGED uxPendedTicks
  <2>1. uxPendedTicks = 0 /\ uxPendedTicks' = 0
    <3>1. ~(uxPendedTicks > 0) /\ uxPendedTicks \in Nat
      BY <1>1, <1>2 DEF CallInv, TypeOK
    <3> QED BY <1>2, <3>1
  <2>2. LeftInv' /\ left' \in [Task -> 0 .. Wrap - 1]
    BY <1>1, <1>2, <2>1, CountedTick
  <2>3. TypeOK'
    <3>1. pendsv' \in BOOLEAN
      BY <1>2
    <3> QED BY <1>1, <1>2, <2>1, <2>2, <3>1, TickTypes, TickSince DEF TypeOK
  <2>4. pc[current] \notin {"until", "for", "wait", "resume"}
    BY <1>2 DEF CallInv
  <2>5. CallInv'
    <3>1. pc[current] \in {"run", "yield"}
      BY <1>1, <2>4 DEF TypeOK, Places
    <3>2. uxSchedulerSuspended' <=> pc'[current'] \in {"until", "for", "wait", "resume"}
      BY <1>1, <1>2, <2>4
    <3>3. xYieldPending' => pendsv'
      BY <1>1, <1>2
    <3> QED BY <1>1, <2>1, <3>1, <3>2, <3>3 DEF CallInv
  <2>6. HighestRuns'
    <3> SUFFICES ASSUME pc[current] = "run", ~SwitchRequired
                 PROVE  current \in Highest(Ready \cup Released)
      BY <1>1, <1>2, TickTypes DEF HighestRuns, Highest
    <3>1. current \in Ready /\ \A u \in Ready : Priority[u] <= Priority[current]
      BY <1>1 DEF HighestRuns, Highest
    <3>2. \A u \in Released : ~(Priority[u] >= Priority[current])
      BY DEF SwitchRequired
    <3>3. Released \subseteq Task /\ current \in Task
      <4>1. Switched \subseteq Task
        BY DEF Switched, TypeOK
      <4> QED BY <4>1 DEF Released, TypeOK
    <3>4. \A u \in Released : Priority[u] <= Priority[current]
      <4>1. \A u \in Released : Priority[u] \in Nat /\ Priority[current] \in Nat
        BY <3>3
      <4> QED BY <3>2, <4>1
    <3> QED BY <3>1, <3>4 DEF Highest
  <2> QED BY <1>2, <2>2, <2>3, <2>5, <2>6, TickStep, TickSince
<1>3. CASE /\ uxSchedulerSuspended /\ uxPendedTicks < MaxPended
           /\ uxPendedTicks' = uxPendedTicks + 1
           /\ pendsv' = xYieldPending
           /\ UNCHANGED <<xTickCount, lists, wakes>>
  <2>1. /\ xTickCount' = xTickCount /\ delayed' = delayed /\ overflow' = overflow
        /\ item' = item /\ waiting' = waiting /\ prev' = prev /\ since' = since
        /\ xNextTaskUnblockTime' = xNextTaskUnblockTime
    BY <1>3 DEF lists, wakes
  <2>2. pc[current] \in {"until", "for", "wait", "resume"}
    BY <1>3 DEF CallInv
  <2>3. uxPendedTicks \in 0 .. MaxPended /\ uxPendedTicks' \in 0 .. MaxPended
    BY <1>3 DEF TypeOK
  <2>4. \A t \in Task : KLeft(t)' = KLeft(t) /\ (Blocked(t)' <=> Blocked(t))
    BY <2>1 DEF KLeft, Blocked
  <2>5. left \in [Task -> 0 .. Wrap - 1]
    BY DEF TypeOK
  <2>6. LeftInv'
    <3> SUFFICES ASSUME NEW t \in Task
                 PROVE  left'[t] = IF Blocked(t)' /\ KLeft(t)' > uxPendedTicks'
                                   THEN KLeft(t)' - uxPendedTicks' ELSE 0
      BY DEF LeftInv
    <3> DEFINE k == KLeft(t)  b == Blocked(t)
    <3>1. left[t] = (IF b /\ k > uxPendedTicks THEN k - uxPendedTicks ELSE 0)
      BY DEF LeftInv
    <3>2. b => k \in Int
      BY DEF KLeft, Blocked, TypeOK
    <3>3. left'[t] = IF left[t] > 0 THEN left[t] - 1 ELSE 0
      BY <1>1
    <3> HIDE DEF k, b
    <3>4. left'[t] = IF b /\ k > uxPendedTicks' THEN k - uxPendedTicks' ELSE 0
      BY <1>3, <2>3, <2>5, <3>1, <3>2, <3>3
    <3> QED BY <2>4, <3>4 DEF k, b
  <2>7. TypeOK'
    <3>1. left' \in [Task -> 0 .. Wrap - 1]
      BY <1>1, <2>5
    <3>2. pendsv' \in BOOLEAN
      BY <1>3 DEF TypeOK
    <3> QED BY <1>1, <2>1, <2>3, <3>1, <3>2 DEF TypeOK
  <2>8. TimeInv' /\ SinceInv'
    BY <2>1, <2>4 DEF TimeInv, SinceInv
  <2>9. HighestRuns'
    BY <1>1, <2>2 DEF HighestRuns
  <2>10. CallInv'
    <3>1. ~pendsv'
      BY <1>1, <1>3, <2>2 DEF CallInv
    <3>2. \A t \in Task : Blocked(t)' <=> Blocked(t)
      BY <2>4
    <3>3. Blocked(current)' <=> Blocked(current)
      BY <1>1, <2>1 DEF Blocked
    <3>4. ~xYieldPending'
      BY <1>1, <2>2 DEF CallInv
    <3>5. since'[current'] = since[current] /\ pc'[current'] = pc[current]
      BY <1>1, <2>1
    <3> QED BY <1>1, <1>3, <2>2, <3>1, <3>3, <3>4, <3>5 DEF CallInv
  <2> QED BY <2>6, <2>7, <2>8, <2>9, <2>10
<1> QED BY <1>2, <1>3 DEF xPortSysTickHandler

LEMMA SwitchKeeps == ASSUME IInv, vTaskSwitchContext PROVE IInv'
<1> USE DEF IInv
<1>1. /\ pendsv /\ ~uxSchedulerSuspended /\ ~pendsv' /\ ~xYieldPending'
      /\ current' \in Highest(Ready) /\ pc' = pc
      /\ uxSchedulerSuspended' = uxSchedulerSuspended
      /\ pendsv' \in BOOLEAN /\ xYieldPending' \in BOOLEAN
      /\ UNCHANGED Times
  BY DEF vTaskSwitchContext, Times
<1>2. TimeInv' /\ LeftInv' /\ SinceInv'
  BY <1>1, SameTimes
<1>3. Ready' = Ready /\ current' \in Task
  BY <1>1 DEF Ready, Highest, Times, lists
<1>4. TypeOK'
  BY <1>1, <1>3 DEF TypeOK, Times, lists, wakes
<1>5. HighestRuns'
  BY <1>1, <1>3 DEF HighestRuns, Highest
<1>6. CallInv'
  <2>1. pc[current] \in {"run", "yield"} /\ \A t \in Task : pc[t] \in {"run", "yield"}
    BY <1>1 DEF CallInv
  <2>2. pc[current'] \in {"run", "yield"}
    BY <1>3, <2>1
  <2>3. ~(uxPendedTicks > 0) /\ uxPendedTicks' = uxPendedTicks
    BY <1>1, <2>1 DEF CallInv, Times
  <2> QED BY <1>1, <2>1, <2>2, <2>3 DEF CallInv
<1> QED BY <1>2, <1>4, <1>5, <1>6

\* The steps of a call that leave times and lists alone.
Passes(t) ==
    \/ vTaskSuspendAll(t) \/ xTaskResumeAll(t) \/ ResumeExit(t) \/ vPortYield(t)

LEMMA PassesKeep == ASSUME IInv, NEW t \in Task, Passes(t) PROVE IInv'
<1> USE DEF IInv
<1>1. current = t /\ current' = current /\ UNCHANGED Times /\ ~pendsv
  BY DEF Passes, vTaskSuspendAll, xTaskResumeAll, ResumeExit, vPortYield, Times, Runs
<1>2. TimeInv' /\ LeftInv' /\ SinceInv'
  BY <1>1, SameTimes
<1>3. PICK to \in Places : pc' = [pc EXCEPT ![t] = to]
  BY DEF Passes, vTaskSuspendAll, xTaskResumeAll, ResumeExit, vPortYield, Goto, Places
<1>4. uxSchedulerSuspended' \in BOOLEAN /\ pendsv' \in BOOLEAN /\ xYieldPending' = xYieldPending
  BY DEF Passes, vTaskSuspendAll, xTaskResumeAll, ResumeExit, vPortYield, TypeOK
<1>5. TypeOK'
  BY <1>1, <1>3, <1>4 DEF TypeOK, Times, lists, wakes
<1>6. pc'[t] = to /\ \A u \in Task \ {t} : pc'[u] = pc[u]
  BY <1>3 DEF TypeOK
<1>7. \A u \in Task : Blocked(u)' <=> Blocked(u)
  BY <1>1 DEF Blocked, Times, lists
<1>8. /\ \A u \in Task \ {current} : pc[u] \in {"run", "yield"}
      /\ xYieldPending => pc[current] = "unwind"
      /\ uxPendedTicks' = uxPendedTicks /\ since' = since
  BY <1>1 DEF CallInv, Times, wakes
<1>9. /\ pc'[current'] = to
      /\ \A u \in Task \ {current'} : pc'[u] \in {"run", "yield"}
  BY <1>1, <1>6, <1>8
<1>10. CASE vTaskSuspendAll(t)
  <2>1. /\ pc[t] = "run" /\ uxSchedulerSuspended' = TRUE /\ pendsv' = pendsv
        /\ to \in {"until", "for", "wait"} /\ (to = "until" => since[t] < Wrap)
    BY <1>6, <1>10 DEF vTaskSuspendAll, Runs, Goto, TypeOK
  <2>2. ~Blocked(t)
    BY <1>1, <2>1 DEF HighestRuns, Highest, Ready, Blocked
  <2>3. CallInv' /\ HighestRuns'
    BY <1>1, <1>4, <1>7, <1>8, <1>9, <2>1, <2>2 DEF CallInv, HighestRuns
  <2> QED BY <1>2, <1>5, <2>3
<1>11. CASE xTaskResumeAll(t)
  <2>1. /\ pc[t] = "resume" /\ uxSchedulerSuspended' = FALSE /\ pendsv' = pendsv
        /\ to = "unwind"
    BY <1>6, <1>11 DEF xTaskResumeAll, Runs, Goto, TypeOK
  <2>2. CallInv' /\ HighestRuns'
    BY <1>1, <1>4, <1>7, <1>8, <1>9, <2>1 DEF CallInv, HighestRuns
  <2> QED BY <1>2, <1>5, <2>2
<1>12. CASE ResumeExit(t)
  <2>1. /\ pc[t] = "unwind" /\ uxPendedTicks = 0 /\ pendsv' = xYieldPending
        /\ uxSchedulerSuspended' = uxSchedulerSuspended
        /\ to = IF xYieldPending THEN "run" ELSE "yield"
    BY <1>6, <1>12 DEF ResumeExit, Runs, Goto, TypeOK
  <2>2. ~uxSchedulerSuspended
    BY <1>1, <2>1 DEF CallInv
  <2>3. CallInv' /\ HighestRuns'
    BY <1>1, <1>4, <1>7, <1>8, <1>9, <2>1, <2>2 DEF CallInv, HighestRuns
  <2> QED BY <1>2, <1>5, <2>3
<1>13. CASE vPortYield(t)
  <2>1. /\ pc[t] \in {"run", "yield"} /\ pendsv' = TRUE /\ to = "run"
        /\ uxSchedulerSuspended' = uxSchedulerSuspended
    BY <1>6, <1>13 DEF vPortYield, Runs, Goto, TypeOK
  <2>2. ~uxSchedulerSuspended /\ ~(uxPendedTicks > 0)
    BY <1>1, <2>1 DEF CallInv
  <2>3. CallInv' /\ HighestRuns'
    BY <1>1, <1>4, <1>7, <1>8, <1>9, <2>1, <2>2 DEF CallInv, HighestRuns
  <2> QED BY <1>2, <1>5, <2>3
<1> QED BY <1>10, <1>11, <1>12, <1>13 DEF Passes

LEMMA ResumeTickKeeps == ASSUME IInv, NEW t \in Task, ResumeTick(t) PROVE IInv'
<1> USE DEF IInv
<1>1. /\ current = t /\ pc[t] = "unwind" /\ ~pendsv /\ uxPendedTicks > 0
      /\ uxPendedTicks' = uxPendedTicks - 1 /\ IncrementTick
      /\ xYieldPending' = (SwitchRequired \/ xYieldPending)
      /\ uxSchedulerSuspended' = uxSchedulerSuspended /\ pendsv' = pendsv
      /\ current' = current /\ pc' = pc /\ left' = left
  BY DEF ResumeTick, Runs
<1>2. LeftInv' /\ left' \in [Task -> 0 .. Wrap - 1]
  BY <1>1, CountedTick
<1>3. uxPendedTicks' \in 0 .. MaxPended
  BY <1>1, KernelAssumption DEF TypeOK
<1>4. xYieldPending' \in BOOLEAN
  BY <1>1
<1>5. TypeOK'
  BY <1>1, <1>2, <1>3, <1>4, TickTypes, TickSince DEF TypeOK
<1>6. CallInv' /\ HighestRuns'
  BY <1>1 DEF CallInv, HighestRuns
<1> QED BY <1>1, <1>2, <1>5, <1>6, TickStep, TickSince

LEMMA GetTickCountKeeps == ASSUME IInv, NEW t \in Task, xTaskGetTickCount(t) PROVE IInv'
<1> USE KernelAssumption DEF IInv
<1>1. /\ current = t /\ pc[t] = "run" /\ ~pendsv
      /\ prev' = [prev EXCEPT ![t] = xTickCount] /\ since' = [since EXCEPT ![t] = 0]
      /\ xTickCount' = xTickCount /\ lists' = lists /\ left' = left
      /\ uxSchedulerSuspended' = uxSchedulerSuspended /\ uxPendedTicks' = uxPendedTicks
      /\ xYieldPending' = xYieldPending /\ pendsv' = pendsv
      /\ current' = current /\ pc' = pc
  BY DEF xTaskGetTickCount, Runs
<1>2. \A u \in Task : KLeft(u)' = KLeft(u) /\ (Blocked(u)' <=> Blocked(u))
  BY <1>1 DEF KLeft, Blocked, lists
<1>3. /\ prev' \in [Task -> 0 .. Wrap - 1] /\ since' \in [Task -> 1 - Wrap .. Wrap]
      /\ prev'[t] = xTickCount /\ since'[t] = 0
      /\ \A u \in Task \ {t} : prev'[u] = prev[u] /\ since'[u] = since[u]
  BY <1>1 DEF TypeOK
<1>4. TypeOK'
  BY <1>1, <1>3 DEF TypeOK, lists
<1>5. TimeInv' /\ LeftInv'
  BY <1>1, <1>2 DEF TimeInv, LeftInv, lists
<1>6. SinceInv'
  <2>1. ASSUME NEW u \in Task
        PROVE  /\ since'[u] < Wrap =>
                      \/ xTickCount' = prev'[u] + since'[u]
                      \/ xTickCount' = prev'[u] + since'[u] - Wrap
                      \/ xTickCount' = prev'[u] + since'[u] + Wrap
               /\ since'[u] < 0 => Blocked(u)' /\ u \notin waiting' /\ KLeft(u)' = -since'[u]
    <3>1. CASE u = t
      <4>1. xTickCount' = prev'[u] + since'[u] /\ ~(since'[u] < 0)
        BY <1>1, <1>3, <3>1 DEF TypeOK
      <4> QED BY <4>1
    <3>2. CASE u # t
      <4>1. prev'[u] = prev[u] /\ since'[u] = since[u] /\ waiting' = waiting
        BY <1>1, <1>3, <3>2 DEF lists
      <4> QED BY <1>1, <1>2, <4>1 DEF SinceInv
    <3> QED BY <3>1, <3>2
  <2> QED BY <2>1 DEF SinceInv
<1>7. CallInv' /\ HighestRuns'
  <2>1. Blocked(current)' <=> Blocked(current)
    BY <1>1, <1>2
  <2>2. Ready' = Ready
    BY <1>1 DEF Ready, lists
  <2> QED BY <1>1, <2>1, <2>2 DEF CallInv, HighestRuns, Highest
<1> QED BY <1>4, <1>5, <1>6, <1>7

\* A task that waits is woken: no other task's time changes.
LEMMA RemoveKeeps ==
    ASSUME IInv, NEW t \in Task, NEW w \in Task, xTaskRemoveFromEventList(t, w)
    PROVE  IInv'
<1> USE KernelAssumption DEF IInv
<1>1. /\ current = t /\ pc[t] = "run" /\ ~pendsv /\ w \in waiting
      /\ waiting' = waiting \ {w} /\ delayed' = delayed \ {w} /\ overflow' = overflow \ {w}
      /\ left' = [left EXCEPT ![w] = 0]
      /\ xYieldPending' = (xYieldPending \/ Priority[w] > Priority[t])
      /\ pendsv' = (Priority[w] > Priority[t])
      /\ xTickCount' = xTickCount /\ item' = item
      /\ xNextTaskUnblockTime' = xNextTaskUnblockTime
      /\ uxSchedulerSuspended' = uxSchedulerSuspended /\ uxPendedTicks' = uxPendedTicks
      /\ current' = current /\ pc' = pc /\ prev' = prev /\ since' = since
  BY DEF xTaskRemoveFromEventList, Runs, wakes
<1>2. /\ ~Blocked(w)'
      /\ \A u \in Task \ {w} : (Blocked(u)' <=> Blocked(u)) /\ (Blocked(u) => KLeft(u)' = KLeft(u))
  BY <1>1 DEF Blocked, KLeft
<1>3. TypeOK'
  <2>1. left' \in [Task -> 0 .. Wrap - 1]
    BY <1>1 DEF TypeOK
  <2>2. xYieldPending' \in BOOLEAN /\ pendsv' \in BOOLEAN
    BY <1>1
  <2>3. /\ delayed' \subseteq Task /\ overflow' \subseteq Task /\ delayed' \cap overflow' = {}
        /\ waiting' \subseteq delayed' \cup overflow'
    BY <1>1 DEF TypeOK
  <2> QED BY <1>1, <2>1, <2>2, <2>3 DEF TypeOK
<1>4. TimeInv'
  BY <1>1 DEF TimeInv
<1>5. LeftInv'
  <2> SUFFICES ASSUME NEW u \in Task
               PROVE  left'[u] = IF Blocked(u)' /\ KLeft(u)' > uxPendedTicks'
                                 THEN KLeft(u)' - uxPendedTicks' ELSE 0
    BY DEF LeftInv
  <2>1. CASE u = w
    BY <1>1, <1>2, <2>1 DEF TypeOK
  <2>2. CASE u # w
    <3>1. left'[u] = left[u]
      BY <1>1, <2>2 DEF TypeOK
    <3>2. left[u] = IF Blocked(u) /\ KLeft(u) > uxPendedTicks
                    THEN KLeft(u) - uxPendedTicks ELSE 0
      BY DEF LeftInv
    <3> QED BY <1>1, <1>2, <2>2, <3>1, <3>2
  <2> QED BY <2>1, <2>2
<1>6. SinceInv'
  <2>1. \A u \in Task : since[u] < 0 => u \notin waiting
    BY DEF SinceInv
  <2> QED BY <1>1, <1>2, <2>1 DEF SinceInv
<1>7. CallInv'
  BY <1>1 DEF CallInv
<1>8. HighestRuns'
  <2>1. Ready' = Ready \cup {w}
    BY <1>1 DEF Ready, TypeOK
  <2>2. current \in Ready /\ \A u \in Ready : Priority[u] <= Priority[current]
    BY <1>1 DEF HighestRuns, Highest
  <2>3. ~pendsv' => Priority[w] <= Priority[current]
    <3>1. ~pendsv' => ~(Priority[w] > Priority[current])
      BY <1>1
    <3>2. Priority[w] \in Nat /\ Priority[current] \in Nat
      BY <1>1
    <3> QED BY <3>1, <3>2
  <2> QED BY <1>1, <2>1, <2>2, <2>3 DEF HighestRuns, Highest
<1> QED BY <1>3, <1>4, <1>5, <1>6, <1>7, <1>8

(***************************************************************************)
(* The steps that put the current task to sleep.                           *)
(***************************************************************************)

\* What these steps leave alone, and where they lead.
Blocks(t) ==
    /\ current = t /\ ~pendsv /\ pc[t] \in {"until", "for", "wait"}
    /\ pc' = [pc EXCEPT ![t] = "resume"]
    /\ xTickCount' = xTickCount /\ uxPendedTicks' = uxPendedTicks
    /\ uxSchedulerSuspended' = uxSchedulerSuspended
    /\ xYieldPending' = xYieldPending /\ pendsv' = pendsv /\ current' = current

LEMMA BlocksCall ==
    ASSUME IInv, NEW t \in Task, Blocks(t)
    PROVE  CallInv' /\ HighestRuns' /\ pc' \in [Task -> Places]
<1> USE DEF IInv
<1>1. /\ pc'[t] = "resume" /\ \A u \in Task \ {t} : pc'[u] = pc[u]
      /\ pc' \in [Task -> Places]
  BY DEF Blocks, TypeOK, Places
<1>2. \A u \in Task \ {t} : pc[u] \in {"run", "yield"}
  BY DEF Blocks, CallInv
<1>3. uxSchedulerSuspended /\ ~xYieldPending
  BY DEF Blocks, CallInv
<1> QED BY <1>1, <1>2, <1>3 DEF Blocks, CallInv, HighestRuns

\* Sleeping for n ticks from now, the ticks already pended included.
LEMMA BlocksTimes ==
    ASSUME IInv, NEW t \in Task, Blocks(t), NEW n \in 1 .. Wrap - 1,
           prvAddCurrentTaskToDelayedList(t, n), Wait(t, n)
    PROVE  LeftInv' /\ left' \in [Task -> 0 .. Wrap - 1]
<1> USE KernelAssumption DEF IInv
<1>1. ~Blocked(t) /\ xTickCount' = xTickCount /\ uxPendedTicks' = uxPendedTicks
  BY DEF Blocks, CallInv
<1>2. /\ delayed' \cup overflow' = delayed \cup overflow \cup {t}
      /\ KLeft(t)' = n
      /\ \A u \in Task \ {t} : KLeft(u)' = KLeft(u)
  BY <1>1, AddStep
<1>3. left' = [left EXCEPT ![t] = IF n > uxPendedTicks THEN n - uxPendedTicks ELSE 0]
  BY DEF Wait
<1>4. left \in [Task -> 0 .. Wrap - 1] /\ uxPendedTicks \in Nat
  BY DEF TypeOK
<1>5. (IF n > uxPendedTicks THEN n - uxPendedTicks ELSE 0) \in 0 .. Wrap - 1
  BY <1>4
<1>6. left' \in [Task -> 0 .. Wrap - 1]
  BY <1>3, <1>4, <1>5
<1>7. LeftInv'
  <2> SUFFICES ASSUME NEW u \in Task
               PROVE  left'[u] = IF Blocked(u)' /\ KLeft(u)' > uxPendedTicks'
                                 THEN KLeft(u)' - uxPendedTicks' ELSE 0
    BY DEF LeftInv
  <2>1. CASE u = t
    <3>1. Blocked(u)'
      BY <1>2, <2>1 DEF Blocked
    <3> QED BY <1>1, <1>2, <1>3, <1>4, <2>1, <3>1
  <2>2. CASE u # t
    <3>1. left'[u] = left[u] /\ (Blocked(u)' <=> Blocked(u)) /\ KLeft(u)' = KLeft(u)
      BY <1>2, <1>3, <1>4, <2>2 DEF Blocked
    <3> QED BY <1>1, <3>1 DEF LeftInv
  <2> QED BY <2>1, <2>2
<1> QED BY <1>6, <1>7

\* A step that puts the task to sleep without touching the times others
\* count from keeps the history of them all.
LEMMA BlocksSince ==
    ASSUME IInv, NEW t \in Task, Blocks(t), NEW n \in 1 .. Wrap - 1,
           prvAddCurrentTaskToDelayedList(t, n), UNCHANGED wakes,
           waiting' \subseteq waiting \cup {t}
    PROVE  SinceInv'
<1> USE KernelAssumption DEF IInv
<1>1. ~Blocked(t) /\ xTickCount' = xTickCount /\ prev' = prev /\ since' = since
  BY DEF Blocks, CallInv, wakes
<1>2. /\ delayed' \cup overflow' = delayed \cup overflow \cup {t}
      /\ \A u \in Task \ {t} : KLeft(u)' = KLeft(u)
  BY <1>1, AddStep
<1>3. ~(since[t] < 0)
  BY <1>1 DEF SinceInv
<1>4. \A u \in Task \ {t} : Blocked(u)' <=> Blocked(u)
  BY <1>2 DEF Blocked
<1> QED BY <1>1, <1>2, <1>3, <1>4 DEF SinceInv

LEMMA DelayKeeps ==
    ASSUME IInv, NEW t \in Task, NEW n \in 1 .. Wrap - 1,
           vTaskDelay(t, n) \/ vTaskPlaceOnEventList(t, n)
    PROVE  IInv'
<1> USE KernelAssumption DEF IInv
<1>1. /\ Blocks(t) /\ prvAddCurrentTaskToDelayedList(t, n) /\ Wait(t, n)
      /\ UNCHANGED wakes /\ (waiting' = waiting \/ waiting' = waiting \cup {t})
  BY DEF vTaskDelay, vTaskPlaceOnEventList, Blocks, Runs, Goto
<1>2. ~Blocked(t) /\ xTickCount' = xTickCount /\ uxPendedTicks' = uxPendedTicks
  BY <1>1 DEF Blocks, CallInv
<1>3. CallInv' /\ HighestRuns' /\ pc' \in [Task -> Places]
  BY <1>1, BlocksCall
<1>4. LeftInv' /\ left' \in [Task -> 0 .. Wrap - 1] /\ SinceInv'
  BY <1>1, BlocksTimes, BlocksSince
<1>5. /\ TimeInv' /\ item' \in [Task -> 0 .. Wrap - 1]
      /\ xNextTaskUnblockTime' \in 0 .. Wrap - 1
      /\ delayed' \subseteq Task /\ overflow' \subseteq Task /\ delayed' \cap overflow' = {}
      /\ delayed' \cup overflow' = delayed \cup overflow \cup {t}
  BY <1>1, <1>2, AddStep
<1>6. waiting' \subseteq delayed' \cup overflow'
  BY <1>1, <1>5 DEF TypeOK
<1>7. TypeOK'
  BY <1>1, <1>3, <1>4, <1>5, <1>6 DEF TypeOK, Blocks, wakes
<1> QED BY <1>3, <1>4, <1>5, <1>7

LEMMA DelayUntilKeeps ==
    ASSUME IInv, NEW t \in Task, NEW n \in 1 .. Wrap - 1, vTaskDelayUntil(t, n)
    PROVE  IInv'
<1> USE KernelAssumption DEF IInv
<1> DEFINE wake == (prev[t] + n) % Wrap
<1>1. /\ current = t /\ pc[t] = "until" /\ Blocks(t)
      /\ prev' = [prev EXCEPT ![t] = wake]
      /\ since' = [since EXCEPT ![t] = @ - n]
      /\ Wait(t, n - since[t]) /\ waiting' = waiting
      /\ \/ /\ ShouldDelay(prev[t], wake)
            /\ prvAddCurrentTaskToDelayedList(t, (wake + (Wrap - xTickCount)) % Wrap)
         \/ /\ ~ShouldDelay(prev[t], wake)
            /\ UNCHANGED <<delayed, overflow, item, xNextTaskUnblockTime>>
  BY DEF vTaskDelayUntil, Blocks, Runs, Goto
<1>2. wake = (prev[t] + n) % Wrap
  OBVIOUS
<1> HIDE DEF wake
<1>3. /\ ~Blocked(t) /\ since[t] < Wrap /\ t \notin waiting
      /\ xTickCount' = xTickCount /\ uxPendedTicks' = uxPendedTicks
  BY <1>1 DEF Blocks, CallInv, TypeOK, Blocked
<1>4. /\ prev \in [Task -> 0 .. Wrap - 1] /\ since \in [Task -> 1 - Wrap .. Wrap]
      /\ xTickCount \in 0 .. Wrap - 1
  BY DEF TypeOK
<1>5. ~(since[t] < 0)
  BY <1>3 DEF SinceInv
<1>6. since[t] \in 0 .. Wrap - 1 /\ prev[t] \in 0 .. Wrap - 1
  BY <1>3, <1>4, <1>5
<1>7. xTickCount = prev[t] + since[t] \/ xTickCount = prev[t] + since[t] - Wrap
  <2>1. \/ xTickCount = prev[t] + since[t]
        \/ xTickCount = prev[t] + since[t] - Wrap
        \/ xTickCount = prev[t] + since[t] + Wrap
    BY <1>3 DEF SinceInv
  <2> QED BY <1>4, <1>6, <2>1
\* The decision is right whichever of the counter and the time to wake
\* overflowed: the task blocks if the time has not come, and for what is
\* left of it.
<1>8. /\ wake \in 0 .. Wrap - 1
      /\ wake = prev[t] + n \/ wake = prev[t] + n - Wrap
      /\ ShouldDelay(prev[t], wake) <=> since[t] < n
      /\ since[t] < n => (wake + (Wrap - xTickCount)) % Wrap = n - since[t]
  <2> DEFINE p == prev[t]  s == since[t]
  <2>1. /\ p \in 0 .. Wrap - 1 /\ s \in 0 .. Wrap - 1
        /\ xTickCount = p + s \/ xTickCount = p + s - Wrap
    BY <1>6, <1>7
  <2>2. wake = IF p + n < Wrap THEN p + n ELSE p + n - Wrap
    <3>1. n \in 0 .. Wrap /\ wake = (p + n) % Wrap
      BY <1>2
    <3> HIDE DEF p
    <3> QED BY <2>1, <3>1, Remainder
  <2> HIDE DEF p, s
  <2>3. wake \in 0 .. Wrap - 1
    BY <2>1, <2>2
  <2>4. ShouldDelay(p, wake) <=> s < n
    BY <1>4, <2>1, <2>2 DEF ShouldDelay
  <2>5. ASSUME s < n PROVE (wake + (Wrap - xTickCount)) % Wrap = n - s
    <3> DEFINE l == Wrap - xTickCount
    <3>1. l \in 0 .. Wrap
      BY <1>4
    <3>2. (wake + l) % Wrap = IF wake + l < Wrap THEN wake + l ELSE wake + l - Wrap
      <4> HIDE DEF l
      <4> QED BY <2>3, <3>1, Remainder
    <3>3. (IF wake + l < Wrap THEN wake + l ELSE wake + l - Wrap) = n - s
      BY <1>4, <2>1, <2>2, <2>3, <2>5
    <3> QED BY <3>2, <3>3
  <2>6. wake = p + n \/ wake = p + n - Wrap
    BY <2>2
  <2> QED BY <2>3, <2>4, <2>5, <2>6 DEF p, s
<1>9. CallInv' /\ HighestRuns' /\ pc' \in [Task -> Places]
  BY <1>1, BlocksCall
<1>10. /\ prev' \in [Task -> 0 .. Wrap - 1] /\ prev'[t] = wake
       /\ since' \in [Task -> 1 - Wrap .. Wrap] /\ since'[t] = since[t] - n
       /\ \A u \in Task \ {t} : prev'[u] = prev[u] /\ since'[u] = since[u]
  BY <1>1, <1>4, <1>6, <1>8
\* The time counted from moves by the increment, modulo the counter.
<1>11. \A u \in Task :
         since'[u] < Wrap => \/ xTickCount' = prev'[u] + since'[u]
                             \/ xTickCount' = prev'[u] + since'[u] - Wrap
                             \/ xTickCount' = prev'[u] + since'[u] + Wrap
  <2>1. \/ xTickCount' = prev'[t] + since'[t]
        \/ xTickCount' = prev'[t] + since'[t] - Wrap
        \/ xTickCount' = prev'[t] + since'[t] + Wrap
    BY <1>3, <1>4, <1>6, <1>7, <1>8, <1>10
  <2>2. \A u \in Task \ {t} :
          since'[u] < Wrap => \/ xTickCount' = prev'[u] + since'[u]
                              \/ xTickCount' = prev'[u] + since'[u] - Wrap
                              \/ xTickCount' = prev'[u] + since'[u] + Wrap
    BY <1>3, <1>10 DEF SinceInv
  <2> QED BY <2>1, <2>2
<1>12. CASE since[t] < n
  <2> DEFINE k == n - since[t]
  <2>1. k \in 1 .. Wrap - 1
    BY <1>6, <1>12
  <2>2. prvAddCurrentTaskToDelayedList(t, k) /\ Wait(t, k)
    BY <1>1, <1>8, <1>12
  <2>3. since'[t] = -k
    BY <1>6, <1>10
  <2> HIDE DEF k
  <2>4. LeftInv' /\ left' \in [Task -> 0 .. Wrap - 1]
    BY <1>1, <2>1, <2>2, BlocksTimes
  <2>5. /\ TimeInv' /\ item' \in [Task -> 0 .. Wrap - 1]
        /\ xNextTaskUnblockTime' \in 0 .. Wrap - 1
        /\ delayed' \subseteq Task /\ overflow' \subseteq Task
        /\ delayed' \cap overflow' = {}
        /\ delayed' \cup overflow' = delayed \cup overflow \cup {t}
        /\ KLeft(t)' = k
        /\ \A u \in Task \ {t} : KLeft(u)' = KLeft(u)
    BY <1>3, <2>1, <2>2, AddStep
  <2>6. \A u \in Task :
          since'[u] < 0 => Blocked(u)' /\ u \notin waiting' /\ KLeft(u)' = -since'[u]
    <3>1. Blocked(t)' /\ t \notin waiting' /\ KLeft(t)' = -since'[t]
      BY <1>1, <1>3, <2>1, <2>3, <2>5 DEF Blocked
    <3>2. \A u \in Task \ {t} :
            since'[u] < 0 => Blocked(u)' /\ u \notin waiting' /\ KLeft(u)' = -since'[u]
      BY <1>1, <1>10, <2>5 DEF SinceInv, Blocked
    <3> QED BY <3>1, <3>2
  <2>7. SinceInv'
    BY <1>11, <2>6 DEF SinceInv
  <2>8. TypeOK'
    BY <1>1, <1>9, <1>10, <2>4, <2>5 DEF TypeOK, Blocks
  <2> QED BY <1>9, <2>4, <2>5, <2>7, <2>8
<1>13. CASE ~(since[t] < n)
  <2>1. /\ delayed' = delayed /\ overflow' = overflow /\ item' = item
        /\ xNextTaskUnblockTime' = xNextTaskUnblockTime
    BY <1>1, <1>8, <1>13
  <2>2. \A u \in Task : KLeft(u)' = KLeft(u) /\ (Blocked(u)' <=> Blocked(u))
    BY <1>3, <2>1 DEF KLeft, Blocked
  <2>3. left' = left
    <3>1. left[t] = 0
      BY <1>3 DEF LeftInv
    <3>2. ~(n - since[t] > uxPendedTicks)
      BY <1>6, <1>13 DEF TypeOK
    <3>3. left' = [left EXCEPT ![t] = 0]
      BY <1>1, <3>2 DEF Wait
    <3> QED BY <3>1, <3>3 DEF TypeOK
  <2>4. LeftInv' /\ TimeInv'
    BY <1>3, <2>1, <2>2, <2>3 DEF LeftInv, TimeInv
  <2>5. \A u \in Task :
          since'[u] < 0 => Blocked(u)' /\ u \notin waiting' /\ KLeft(u)' = -since'[u]
    <3>1. ~(since'[t] < 0)
      BY <1>6, <1>10, <1>13
    <3>2. \A u \in Task \ {t} :
            since'[u] < 0 => Blocked(u)' /\ u \notin waiting' /\ KLeft(u)' = -since'[u]
      BY <1>1, <1>10, <2>2 DEF SinceInv
    <3> QED BY <3>1, <3>2
  <2>6. SinceInv'
    BY <1>11, <2>5 DEF SinceInv
  <2>7. TypeOK'
    BY <1>1, <1>9, <1>10, <2>1, <2>3 DEF TypeOK, Blocks
  <2> QED BY <1>9, <2>4, <2>6, <2>7
<1> QED BY <1>12, <1>13

(***************************************************************************)
(* The theorems.                                                           *)
(***************************************************************************)

LEMMA InitInv == Init => IInv
<1> SUFFICES ASSUME Init PROVE IInv
  OBVIOUS
<1> USE KernelAssumption DEF Init
<1>1. TypeOK
  <2>1. /\ xTickCount \in 0 .. Wrap - 1 /\ xNextTaskUnblockTime \in 0 .. Wrap - 1
        /\ uxPendedTicks \in 0 .. MaxPended
    BY DEF portMAX_DELAY
  <2>2. /\ item \in [Task -> 0 .. Wrap - 1] /\ prev \in [Task -> 0 .. Wrap - 1]
        /\ left \in [Task -> 0 .. Wrap - 1] /\ since \in [Task -> 1 - Wrap .. Wrap]
    <3>1. 0 \in 0 .. Wrap - 1 /\ 0 \in 1 - Wrap .. Wrap
      OBVIOUS
    <3> QED BY <3>1
  <2>3. pc \in [Task -> Places] /\ current \in Task
    BY DEF Places, Highest
  <2> QED BY <2>1, <2>2, <2>3 DEF TypeOK
<1>2. TimeInv /\ LeftInv /\ SinceInv
  BY DEF TimeInv, LeftInv, SinceInv, Blocked
<1>3. CallInv
  BY DEF CallInv, Highest
<1>4. HighestRuns
  BY DEF HighestRuns, Ready, Highest
<1> QED BY <1>1, <1>2, <1>3, <1>4 DEF IInv

LEMMA Inductive == IInv /\ [Next]_vars => IInv'
<1> SUFFICES ASSUME IInv, [Next]_vars PROVE IInv'
  OBVIOUS
<1>1. CASE xPortSysTickHandler
  BY <1>1, TickKeeps
<1>2. CASE vTaskSwitchContext
  BY <1>2, SwitchKeeps
<1>3. ASSUME NEW t \in Task, Calls(t) PROVE IInv'
  <2>1. CASE xTaskGetTickCount(t)
    BY <2>1, GetTickCountKeeps
  <2>2. CASE Passes(t)
    BY <2>2, PassesKeep
  <2>3. ASSUME NEW n \in Until[t], vTaskDelayUntil(t, n) PROVE IInv'
    <3>1. n \in 1 .. Wrap - 1
      BY KernelAssumption
    <3> QED BY <2>3, <3>1, DelayUntilKeeps
  <2>4. ASSUME NEW n \in For[t], vTaskDelay(t, n) PROVE IInv'
    <3>1. n \in 1 .. Wrap - 1
      BY KernelAssumption
    <3> QED BY <2>4, <3>1, DelayKeeps
  <2>5. ASSUME NEW n \in Waits[t], vTaskPlaceOnEventList(t, n) PROVE IInv'
    <3>1. n \in 1 .. Wrap - 1
      BY KernelAssumption
    <3> QED BY <2>5, <3>1, DelayKeeps
  <2>6. CASE ResumeTick(t)
    BY <2>6, ResumeTickKeeps
  <2>7. ASSUME NEW w \in Task, xTaskRemoveFromEventList(t, w) PROVE IInv'
    BY <2>7, RemoveKeeps
  <2> QED BY <1>3, <2>1, <2>2, <2>3, <2>4, <2>5, <2>6, <2>7 DEF Calls, Passes
<1>4. CASE UNCHANGED vars
  <2>1. UNCHANGED Times /\ UNCHANGED <<uxSchedulerSuspended, xYieldPending, pendsv, current, pc>>
    BY <1>4 DEF vars, Times
  <2>2. TimeInv' /\ LeftInv' /\ SinceInv'
    BY <2>1, SameTimes
  <2>3. TypeOK' /\ CallInv' /\ HighestRuns'
    BY <2>1 DEF IInv, TypeOK, CallInv, HighestRuns, Highest, Ready, Blocked, Times, lists, wakes
  <2> QED BY <2>2, <2>3 DEF IInv
<1> QED BY <1>1, <1>2, <1>3, <1>4 DEF Next

\* The invariant every other theorem follows from.
THEOREM Invariance == Spec => []IInv
BY InitInv, Inductive, PTL DEF Spec

\* The types, for every width of the counter: no time leaves its range and
\* no task is in two lists.
THEOREM TypeCorrect == Spec => []TypeOK
<1>1. IInv => TypeOK
  BY DEF IInv
<1> QED BY <1>1, Invariance, PTL

\* Every sleep and every wait ends at its tick, whatever overflows.
THEOREM SleepsEndOnTime == Spec => []OnTime
<1>1. IInv => OnTime
  <2> SUFFICES ASSUME IInv, NEW t \in Task
               PROVE  /\ left[t] > 0 => Blocked(t)
                      /\ Blocked(t) /\ left[t] = 0 => uxPendedTicks > 0
    BY DEF OnTime
  <2>1. left[t] = IF Blocked(t) /\ KLeft(t) > uxPendedTicks
                  THEN KLeft(t) - uxPendedTicks ELSE 0
    BY DEF IInv, LeftInv
  <2>2. uxPendedTicks \in Nat /\ xTickCount \in 0 .. Wrap - 1 /\ item[t] \in 0 .. Wrap - 1
    BY DEF IInv, TypeOK
  <2>3. Blocked(t) => KLeft(t) \in Int /\ KLeft(t) > 0
    BY <2>2, KernelAssumption DEF IInv, TimeInv, KLeft, Blocked
  <2> QED BY <2>1, <2>2, <2>3
<1> QED BY <1>1, Invariance, PTL

\* With no switch pending no ready task is more important than the one that
\* runs.
THEOREM ImportantTasksRun == Spec => []HighestRuns
<1>1. IInv => HighestRuns
  BY DEF IInv
<1> QED BY <1>1, Invariance, PTL

\* The assertion made when the lists are exchanged never stops the device.
THEOREM SwitchedListsEmpty == Spec => EmptyWhenSwitched
<1>1. IInv /\ [Next]_vars => [NextTick = 0 /\ xTickCount' = 0 => overflow' = {}]_vars
  <2> SUFFICES ASSUME IInv, Next, NextTick = 0, xTickCount' = 0
               PROVE  overflow' = {}
    OBVIOUS
  <2>1. xTickCount = Wrap - 1 /\ delayed = {} /\ xTickCount # 0
    BY ReleasedAre, KernelAssumption DEF IInv, TypeOK
  <2>2. CASE IncrementTick
    BY <2>1, <2>2 DEF IncrementTick
  <2>3. CASE xTickCount' = xTickCount
    BY <2>1, <2>3
  <2>4. IncrementTick \/ xTickCount' = xTickCount
    <3>1. CASE xPortSysTickHandler
      BY <3>1 DEF xPortSysTickHandler
    <3>2. CASE vTaskSwitchContext
      BY <3>2 DEF vTaskSwitchContext
    <3>3. ASSUME NEW t \in Task, Calls(t) PROVE IncrementTick \/ xTickCount' = xTickCount
      BY <3>3 DEF Calls, xTaskGetTickCount, vTaskSuspendAll, vTaskDelayUntil, vTaskDelay,
                  vTaskPlaceOnEventList, xTaskResumeAll, ResumeTick, ResumeExit,
                  vPortYield, xTaskRemoveFromEventList
    <3> QED BY <3>1, <3>2, <3>3 DEF Next
  <2> QED BY <2>2, <2>3, <2>4
<1> QED BY <1>1, Invariance, PTL DEF Spec, EmptyWhenSwitched
=============================================================================
