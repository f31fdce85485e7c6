------------------------------ MODULE Buttons ------------------------------
(***************************************************************************)
(* The keys of src/main.c: vGetButtonStateTask samples the pins every 10   *)
(* ms, debounces and repeats, and gives a counting semaphore per press;    *)
(* vIndDataOutTask takes what has been given every DATA_OUT_TASK_FRQ.      *)
(* Heater takes presses as they come; here is where they come from.        *)
(*                                                                         *)
(* A step of the clock is one sample.  When both tasks are due at once     *)
(* they interleave at every access to a semaphore.                         *)
(***************************************************************************)
EXTENDS Integers

CONSTANTS
  BUTTN_NUM,
  FirstGive,      \* samples a key is down before it counts as pressed: 2
  RepeatAfter,    \* samples after which it starts to repeat: 100
  RepeatFrom,     \* what the counter is set back to then: 80
  SemaphoreMax,   \* xSemaphoreCreateCounting's limit: 10
  DrainEvery,     \* samples between two runs of the display task: 10
  MaxHold         \* bound: no key is held longer than this many samples

ASSUME ButtonsAssumption ==
  /\ BUTTN_NUM \in Nat \ {0}
  /\ FirstGive \in Nat \ {0} /\ FirstGive < RepeatFrom
  /\ RepeatFrom \in Nat /\ RepeatFrom <= RepeatAfter
  /\ RepeatAfter \in Nat /\ RepeatAfter < 255
  /\ SemaphoreMax \in Nat \ {0} /\ DrainEvery \in Nat \ {0}
  /\ MaxHold \in Nat

Keys == 0 .. BUTTN_NUM - 1

VARIABLES
  scan,         \* the key the sampling task is at, BUTTN_NUM when it sleeps
  drain,        \* the key the display task is at, BUTTN_NUM when it sleeps
  phase,        \* samples until the display task is due
  buttons_cnt,  \* samples each key has been down, set back by the repetition
  smphr,        \* presses given and not yet taken
  \* History, read by no action but for the bound MaxHold:
  held,         \* samples each key has been down
  given,        \* presses it was given for since it went down
  waiting,      \* samples the oldest press not yet taken has waited
  lost          \* a give was refused

taskVars    == <<scan, drain, phase>>
historyVars == <<held, given, waiting, lost>>
vars == <<taskVars, buttons_cnt, smphr, historyVars>>

Init ==
  /\ scan = BUTTN_NUM /\ drain = BUTTN_NUM /\ phase = DrainEvery
  /\ buttons_cnt = [b \in Keys |-> 0] /\ smphr = [b \in Keys |-> 0]
  /\ held = [b \in Keys |-> 0] /\ given = [b \in Keys |-> 0]
  /\ waiting = [b \in Keys |-> 0] /\ lost = FALSE

-----------------------------------------------------------------------------
\* vGetButtonStateTask

\* Seeded fault: the counter is not set back.
Counted_NotSetBack(n) == (n + 1) % 256

\* Seeded fault: the repetition comes one sample early.
Counted_OneEarly(n) ==
  LET up == (n + 1) % 256 IN IF up >= RepeatAfter THEN RepeatFrom ELSE up

\* The counter, a byte, after one more sample with the key down.
Counted(n) ==
  LET up == (n + 1) % 256 IN IF up > RepeatAfter THEN RepeatFrom ELSE up

\* The samples that are given for: the second, and those that set it back.
Gives(n) == n + 1 = FirstGive \/ n + 1 > RepeatAfter

\* A give is refused, and its result ignored, when the semaphore is full.
Give(b) ==
  IF smphr[b] < SemaphoreMax
  THEN smphr' = [smphr EXCEPT ![b] = @ + 1] /\ UNCHANGED lost
  ELSE lost' = TRUE /\ UNCHANGED smphr

SampleDown ==
  /\ scan \in Keys /\ held[scan] < MaxHold
  /\ buttons_cnt' = [buttons_cnt EXCEPT ![scan] = Counted(@)]
  /\ held' = [held EXCEPT ![scan] = @ + 1]
  /\ IF Gives(buttons_cnt[scan])
     THEN Give(scan) /\ given' = [given EXCEPT ![scan] = @ + 1]
     ELSE UNCHANGED <<smphr, lost, given>>
  /\ scan' = scan + 1
  /\ UNCHANGED <<drain, phase, waiting>>

SampleUp ==
  /\ scan \in Keys
  /\ buttons_cnt' = [buttons_cnt EXCEPT ![scan] = 0]
  /\ held' = [held EXCEPT ![scan] = 0] /\ given' = [given EXCEPT ![scan] = 0]
  /\ scan' = scan + 1
  /\ UNCHANGED <<drain, phase, smphr, waiting, lost>>

-----------------------------------------------------------------------------
\* vIndDataOutTask

\* Seeded fault: one press per run is taken.
DrainTake_Once ==
  /\ drain \in Keys /\ smphr[drain] > 0
  /\ smphr' = [smphr EXCEPT ![drain] = @ - 1]
  /\ waiting' = [waiting EXCEPT ![drain] = 0]
  /\ drain' = drain + 1
  /\ UNCHANGED <<scan, phase, buttons_cnt, held, given, lost>>

DrainTake ==
  /\ drain \in Keys /\ smphr[drain] > 0
  /\ smphr' = [smphr EXCEPT ![drain] = @ - 1]
  /\ waiting' = [waiting EXCEPT ![drain] = 0]
  /\ UNCHANGED <<taskVars, buttons_cnt, held, given, lost>>

\* Seeded fault: the last key is left out.
DrainNext_OneShort ==
  /\ drain \in Keys /\ smphr[drain] = 0
  /\ drain' = IF drain = BUTTN_NUM - 2 THEN BUTTN_NUM ELSE drain + 1
  /\ UNCHANGED <<scan, phase, buttons_cnt, smphr, historyVars>>

DrainNext ==
  /\ drain \in Keys /\ smphr[drain] = 0
  /\ drain' = drain + 1
  /\ UNCHANGED <<scan, phase, buttons_cnt, smphr, historyVars>>

\* The next 10 ms: both tasks have finished what they were released for.
Tick ==
  /\ scan = BUTTN_NUM /\ drain = BUTTN_NUM
  /\ scan' = 0
  /\ drain' = IF phase = 1 THEN 0 ELSE BUTTN_NUM
  /\ phase' = IF phase = 1 THEN DrainEvery ELSE phase - 1
  /\ waiting' = [b \in Keys |-> IF smphr[b] > 0 THEN waiting[b] + 1 ELSE 0]
  /\ UNCHANGED <<buttons_cnt, smphr, held, given, lost>>

Next == SampleDown \/ SampleUp \/ DrainTake \/ DrainNext \/ Tick

Spec == Init /\ [][Next]_vars
-----------------------------------------------------------------------------
(***************************************************************************)
(* Properties.                                                             *)
(***************************************************************************)

\* Every variable stays in its range; the byte that counts samples never
\* passes RepeatAfter, however long a key is held.
TypeOK ==
  /\ scan \in 0 .. BUTTN_NUM /\ drain \in 0 .. BUTTN_NUM
  /\ phase \in 1 .. DrainEvery
  /\ buttons_cnt \in [Keys -> 0 .. RepeatAfter]
  /\ smphr \in [Keys -> 0 .. SemaphoreMax]
  /\ held \in [Keys -> 0 .. MaxHold] /\ given \in [Keys -> 0 .. MaxHold]
  /\ waiting \in [Keys -> Nat] /\ lost \in BOOLEAN

\* Presses a key counts for that is held down for n samples: none while it
\* bounces, one, and one for every further period of the repetition.
Presses(n) ==
  IF n < FirstGive THEN 0
  ELSE IF n <= RepeatAfter THEN 1
  ELSE 2 + (n - RepeatAfter - 1) \div (RepeatAfter + 1 - RepeatFrom)

\* The counter that is set back while it counts gives for exactly the presses
\* the time a key has been down stands for.
GivesFollowHold == \A b \in Keys : given[b] = Presses(held[b])

\* No press is refused for a full semaphore: the display task keeps up with
\* the fastest keys there can be, whenever in its period they come.
NoPressLost == ~lost

\* Every press is taken within one period of the display task: none is left
\* behind by a run, also when it is given while the run is under way.
PressServed == \A b \in Keys : waiting[b] <= DrainEvery
=============================================================================
