------------------------------- MODULE Heater -------------------------------
(***************************************************************************)
(* The heater controller of src/main.c: the tasks that share the setpoint, *)
(* the measured temperature and the switch-off counter, the regulator and  *)
(* the PWM output they drive, the flash word that keeps the setpoint, and  *)
(* the independent watchdog.                                               *)
(*                                                                         *)
(* Time advances in slots of DATA_OUT_TASK_FRQ (100 ms).  Inside a slot    *)
(* the jobs released at its start interleave at every access to a shared   *)
(* variable: the three tasks have one priority and are time sliced.  The   *)
(* clock moves on once every job is finished, a job being far shorter than *)
(* a slot.  The display refresh task and the SPI mutex are not here: a     *)
(* sample is one step.                                                     *)
(***************************************************************************)
EXTENDS PidController

CONSTANTS
  MIN_TEMPERATURE, MAX_TEMPERATURE, OVRHT_TEMPERATURE,
  HEATER_OFF_TIME,      \* regulator periods without a key press
  BT_PRESS_DELAY_TIME,  \* slots the setpoint stays on the display
  PidPeriod,            \* PID_TASK_FRQ in slots
  SavePeriod,           \* the delay of vSaveDataTask in slots
  WatchdogPeriod,       \* the period of the watchdog in slots
  SemaphoreMax,         \* xSemaphoreCreateCounting's limit
  Samples,              \* what the thermocouple converter may answer
  BlankFlash,           \* the content of an erased half word
  TornValues,           \* what a half word may read after an interrupted write
  Faults                \* the faults that may happen

BUTTN_UP == 0
BUTTN_DN == 1
Buttons == {BUTTN_UP, BUTTN_DN}

TemperatureStep == 5

\* The counters are unsigned half words.
UINT16_MAX == 65535
Wrap(n) == n % (UINT16_MAX + 1)

HalfWords == 0 .. UINT16_MAX

\* The setpoints between the limits, in steps from the lower one.
Settings ==
  {v \in MIN_TEMPERATURE .. MAX_TEMPERATURE :
     (v - MIN_TEMPERATURE) % TemperatureStep = 0}

\* What the keys can make of the setpoint o: up to the first step that is not
\* below MAX_TEMPERATURE, and down to the first that is not above MIN_TEMPERATURE.
\* From a setting these are the settings.
Dialled(o) ==
  {v \in 0 .. MAX_TEMPERATURE + TemperatureStep - 1 :
     /\ (v - o) % TemperatureStep = 0
     /\ v >= o \/ v > MIN_TEMPERATURE - TemperatureStep}

ASSUME HeaterAssumption ==
  /\ MIN_TEMPERATURE \in Nat /\ MIN_TEMPERATURE >= TemperatureStep
  /\ MAX_TEMPERATURE \in Nat
  /\ MIN_TEMPERATURE <= MAX_TEMPERATURE
  /\ (MAX_TEMPERATURE - MIN_TEMPERATURE) % TemperatureStep = 0
  /\ OVRHT_TEMPERATURE \in Nat
  /\ HEATER_OFF_TIME \in Nat /\ HEATER_OFF_TIME + 2 <= UINT16_MAX
  /\ BT_PRESS_DELAY_TIME \in Nat \ {0} /\ BT_PRESS_DELAY_TIME <= UINT16_MAX
  /\ PidPeriod \in Nat \ {0} /\ SavePeriod \in Nat \ {0}
  /\ WatchdogPeriod \in Nat /\ WatchdogPeriod > PidPeriod
  /\ SemaphoreMax \in Nat
  /\ Samples \subseteq Nat
  /\ BlankFlash \in HalfWords /\ BlankFlash >= MAX_TEMPERATURE + TemperatureStep
  /\ TornValues \subseteq HalfWords
  /\ Faults \subseteq {"power", "halt"}

VARIABLES
  ind, ind_i,           \* vIndDataOutTask: where it is, the button it drains
  pid, pid_off, pid_r,  \* vPID_Task: where it is, the branch taken, a register
  save,                 \* vSaveDataTask: where it is
  pidIn, saveIn,        \* slots until the regulator and the save task are released
  smphr,                \* xButtons_Smphr: key presses not yet taken
  temp_set_val, temp_cur_val, work_cnt,
  scnt, cur_displ,      \* the statics of vIndDataOutTask
  shown,                \* what the display buffer says
  pidData,              \* the regulator's memory
  pwm,                  \* the compare register of TIM1 channel 4
  wdg,                  \* slots before the watchdog bites
  flash,                \* the half word at addr_set_temp
  halted,               \* the processor has stopped executing tasks
  \* History, read by no other variable's update:
  origin,               \* where the setpoint's steps start from: MIN_TEMPERATURE,
                        \* or the torn word that was restored
  age,                  \* slots since the converter was last read
  quiet,                \* regulator periods completed since the last key press
  unsaved               \* slots for which the flash has differed from the setpoint

indVars  == <<ind, ind_i, scnt, cur_displ, shown>>
pidVars  == <<pid, pid_off, pid_r, pidData, pwm>>
saveVars == <<save, flash, origin>>
timeVars == <<pidIn, saveIn, wdg, halted>>
vars == <<indVars, pidVars, saveVars, timeVars, smphr,
          temp_set_val, temp_cur_val, work_cnt, age, quiet, unsaved>>

IndPc  == {"idle", "take", "adjust", "show", "showCur"}
PidPc  == {"idle", "sample", "check", "drive", "count", "store"}
SavePc == {"idle", "compare", "erase", "program"}

\* The display buffer: a setpoint, a reading, the error sign, or the number
\* periphery_init leaves there.
Shown == [kind : {"set", "cur", "err", "on"}, value : Nat]
PowerOn == [kind |-> "on", value |-> 245]
Error == [kind |-> "err", value |-> 0]
Reading(t) == [kind |-> "cur", value |-> t]
SetPointShown(t) == [kind |-> "set", value |-> t]

Bad(sample) == sample = 0 \/ sample > OVRHT_TEMPERATURE

\* History counters stop at a cap, which no property looks beyond.
Saturate(n, cap) == IF n < cap THEN n + 1 ELSE cap
AgeCap     == WatchdogPeriod + 1
QuietCap   == HEATER_OFF_TIME + 1
UnsavedCap == SavePeriod + 1

-----------------------------------------------------------------------------
\* The setpoint periphery_init starts from, given the word in flash.
Restored(word) == IF word > MAX_TEMPERATURE THEN MIN_TEMPERATURE ELSE word

\* Power is applied: the flash is blank or holds a saved setpoint.
Init ==
  /\ flash \in Settings \union {BlankFlash}
  /\ temp_set_val = Restored(flash)
  /\ ind = "idle" /\ ind_i = BUTTN_UP
  /\ scnt = 0 /\ cur_displ = "cur" /\ shown = PowerOn
  /\ pid = "idle" /\ pid_off = FALSE /\ pid_r = 0
  /\ pidData = pid_Init /\ pwm = 0
  /\ save = "compare" /\ origin = MIN_TEMPERATURE
  /\ pidIn = PidPeriod /\ saveIn = 0
  /\ wdg = WatchdogPeriod /\ halted = FALSE
  /\ smphr = [b \in Buttons |-> 0]
  /\ temp_cur_val = 0 /\ work_cnt = 0
  /\ age = AgeCap /\ quiet = 0 /\ unsaved = 0

\* main() from its first line, with the given word in flash.
Restart(word) ==
  /\ flash' = word
  /\ temp_set_val' = Restored(word)
  /\ ind' = "idle" /\ ind_i' = BUTTN_UP
  /\ scnt' = 0 /\ cur_displ' = "cur" /\ shown' = PowerOn
  /\ pid' = "idle" /\ pid_off' = FALSE /\ pid_r' = 0
  /\ pidData' = pid_Init /\ pwm' = 0
  /\ save' = "compare"
  /\ origin' = CASE word > MAX_TEMPERATURE -> MIN_TEMPERATURE
                 [] word <= MAX_TEMPERATURE /\ word = flash -> origin
                 [] OTHER -> word
  /\ pidIn' = PidPeriod /\ saveIn' = 0
  /\ wdg' = WatchdogPeriod /\ halted' = FALSE
  /\ smphr' = [b \in Buttons |-> 0]
  /\ temp_cur_val' = 0 /\ work_cnt' = 0
  /\ quiet' = 0 /\ unsaved' = 0
  /\ UNCHANGED age

\* The processor executes tasks, and the watchdog has not bitten.
Running == ~halted /\ wdg > 0

-----------------------------------------------------------------------------
\* vGetButtonStateTask gives a semaphore; a full one refuses, unnoticed.
ButtonGive(b) ==
  /\ Running
  /\ smphr[b] < SemaphoreMax
  /\ smphr' = [smphr EXCEPT ![b] = @ + 1]
  /\ UNCHANGED <<indVars, pidVars, saveVars, timeVars,
                 temp_set_val, temp_cur_val, work_cnt, age, quiet, unsaved>>

-----------------------------------------------------------------------------
\* Seeded fault: the countdown is not set when the setpoint is selected.
IndTake_KeepsCountdown ==
  /\ Running /\ ind = "take" /\ smphr[ind_i] > 0
  /\ smphr' = [smphr EXCEPT ![ind_i] = @ - 1]
  /\ cur_displ' = "set"
  /\ work_cnt' = 0
  /\ ind' = "adjust"
  /\ quiet' = 0
  /\ UNCHANGED <<ind_i, scnt, shown, pidVars, saveVars, timeVars,
                 temp_set_val, temp_cur_val, age, unsaved>>

\* vIndDataOutTask: one press is taken, and the switch-off counter reset.
IndTake ==
  /\ Running /\ ind = "take" /\ smphr[ind_i] > 0
  /\ smphr' = [smphr EXCEPT ![ind_i] = @ - 1]
  /\ scnt' = BT_PRESS_DELAY_TIME
  /\ cur_displ' = "set"
  /\ work_cnt' = 0
  /\ ind' = "adjust"
  /\ quiet' = 0
  /\ UNCHANGED <<ind_i, shown, pidVars, saveVars, timeVars,
                 temp_set_val, temp_cur_val, age, unsaved>>

\* Seeded fault: the upper limit tested after the step.
Adjusted_OneTooFar(set, b) ==
  CASE b = BUTTN_UP /\ set <= MAX_TEMPERATURE -> set + TemperatureStep
    [] b = BUTTN_DN /\ set > MIN_TEMPERATURE -> set - TemperatureStep
    [] OTHER -> set

\* The setpoint after one press of button b.
Adjusted(set, b) ==
  CASE b = BUTTN_UP /\ set < MAX_TEMPERATURE -> set + TemperatureStep
    [] b = BUTTN_DN /\ set > MIN_TEMPERATURE -> set - TemperatureStep
    [] OTHER -> set

IndAdjust ==
  /\ Running /\ ind = "adjust"
  /\ temp_set_val' = Adjusted(temp_set_val, ind_i)
  /\ ind' = "take"
  /\ unsaved' = IF temp_set_val' = flash THEN 0 ELSE unsaved
  /\ UNCHANGED <<ind_i, scnt, cur_displ, shown, pidVars, saveVars, timeVars,
                 smphr, temp_cur_val, work_cnt, age, quiet>>

\* Seeded fault: the display task feeds the watchdog.
IndNext_FeedsWatchdog ==
  /\ Running /\ ind = "take" /\ smphr[ind_i] = 0
  /\ IF ind_i = BUTTN_UP
     THEN ind_i' = BUTTN_DN /\ UNCHANGED ind
     ELSE ind_i' = BUTTN_UP /\ ind' = "show"
  /\ wdg' = WatchdogPeriod
  /\ UNCHANGED <<scnt, cur_displ, shown, pidVars, saveVars, pidIn, saveIn, halted, smphr,
                 temp_set_val, temp_cur_val, work_cnt, age, quiet, unsaved>>

\* No press is left: on to the next button, then to the display.
IndNext ==
  /\ Running /\ ind = "take" /\ smphr[ind_i] = 0
  /\ IF ind_i = BUTTN_UP
     THEN ind_i' = BUTTN_DN /\ UNCHANGED ind
     ELSE ind_i' = BUTTN_UP /\ ind' = "show"
  /\ UNCHANGED <<scnt, cur_displ, shown, pidVars, saveVars, timeVars, smphr,
                 temp_set_val, temp_cur_val, work_cnt, age, quiet, unsaved>>

\* The setpoint is shown while scnt, an unsigned half word, runs down.
IndShowSet ==
  /\ Running /\ ind = "show" /\ cur_displ = "set"
  /\ scnt' = Wrap(scnt - 1)
  /\ cur_displ' = IF scnt' = 0 THEN "cur" ELSE "set"
  /\ shown' = SetPointShown(temp_set_val)
  /\ ind' = "idle"
  /\ UNCHANGED <<ind_i, pidVars, saveVars, timeVars, smphr,
                 temp_set_val, temp_cur_val, work_cnt, age, quiet, unsaved>>

\* Seeded fault: a reading is shown without a look at its value.
IndShowCheck_NoTest ==
  /\ Running /\ ind = "show" /\ cur_displ = "cur"
  /\ ind' = "showCur"
  /\ UNCHANGED <<ind_i, scnt, cur_displ, shown, pidVars, saveVars, timeVars, smphr,
                 temp_set_val, temp_cur_val, work_cnt, age, quiet, unsaved>>

\* The temperature is read once to tell an error from a reading ...
IndShowCheck ==
  /\ Running /\ ind = "show" /\ cur_displ = "cur"
  /\ IF temp_cur_val = 0
     THEN shown' = Error /\ ind' = "idle"
     ELSE ind' = "showCur" /\ UNCHANGED shown
  /\ UNCHANGED <<ind_i, scnt, cur_displ, pidVars, saveVars, timeVars, smphr,
                 temp_set_val, temp_cur_val, work_cnt, age, quiet, unsaved>>

\* ... and once more to show it.
IndShowCur ==
  /\ Running /\ ind = "showCur"
  /\ shown' = Reading(temp_cur_val)
  /\ ind' = "idle"
  /\ UNCHANGED <<ind_i, scnt, cur_displ, pidVars, saveVars, timeVars, smphr,
                 temp_set_val, temp_cur_val, work_cnt, age, quiet, unsaved>>

vIndDataOutTask ==
  IndTake \/ IndAdjust \/ IndNext \/ IndShowSet \/ IndShowCheck \/ IndShowCur

-----------------------------------------------------------------------------
\* vPID_Task: the converter is read under the SPI mutex.
PidSample(sample) ==
  /\ Running /\ pid = "sample"
  /\ temp_cur_val' = sample
  /\ pid' = "check"
  /\ age' = 0
  /\ UNCHANGED <<pid_off, pid_r, pidData, pwm, indVars, saveVars, timeVars,
                 smphr, temp_set_val, work_cnt, quiet, unsaved>>

\* Seeded fault: the counter may reach the value it is pinned at.
PidCheck_OneLate ==
  /\ Running /\ pid = "check"
  /\ pid_off' = (work_cnt > HEATER_OFF_TIME + 1)
  /\ pid' = "drive"
  /\ UNCHANGED <<pid_r, pidData, pwm, indVars, saveVars, timeVars, smphr,
                 temp_set_val, temp_cur_val, work_cnt, age, quiet, unsaved>>

\* The switch-off counter is compared ...
PidCheck ==
  /\ Running /\ pid = "check"
  /\ pid_off' = (work_cnt > HEATER_OFF_TIME)
  /\ pid' = "drive"
  /\ UNCHANGED <<pid_r, pidData, pwm, indVars, saveVars, timeVars, smphr,
                 temp_set_val, temp_cur_val, work_cnt, age, quiet, unsaved>>

\* Seeded fault: a missing thermocouple is not tested.
Duty_NoSensorTest(out, sample) == IF sample > OVRHT_TEMPERATURE THEN 0 ELSE out

\* The duty for a computed output: none on a sensor error or overheating.
Duty(out, sample) == IF Bad(sample) THEN 0 ELSE out

\* Seeded fault: the setpoint is regulated to on both branches.
PidDrive_NeverOff ==
  /\ Running /\ pid = "drive"
  /\ pidData' = PidUpdate(pidData, temp_set_val, temp_cur_val)
  /\ pwm' = Duty(PidOutput(pidData, temp_set_val, temp_cur_val), temp_cur_val)
  /\ work_cnt' = IF pid_off THEN HEATER_OFF_TIME + 1 ELSE work_cnt
  /\ pid_off' = FALSE
  /\ pid' = "count"
  /\ UNCHANGED <<pid_r, indVars, saveVars, timeVars, smphr,
                 temp_set_val, temp_cur_val, age, quiet, unsaved>>

\* ... and, on the branch taken, pinned; the regulator runs, and drives.
PidDrive ==
  /\ Running /\ pid = "drive"
  /\ LET setPoint == IF pid_off THEN 0 ELSE temp_set_val
     IN  /\ pidData' = PidUpdate(pidData, setPoint, temp_cur_val)
         /\ pwm' = Duty(PidOutput(pidData, setPoint, temp_cur_val), temp_cur_val)
  /\ work_cnt' = IF pid_off THEN HEATER_OFF_TIME + 1 ELSE work_cnt
  /\ pid_off' = FALSE
  /\ pid' = "count"
  /\ UNCHANGED <<pid_r, indVars, saveVars, timeVars, smphr,
                 temp_set_val, temp_cur_val, age, quiet, unsaved>>

\* work_cnt++ reads the counter into a register ...
PidCount ==
  /\ Running /\ pid = "count"
  /\ pid_r' = work_cnt
  /\ pid' = "store"
  /\ UNCHANGED <<pid_off, pidData, pwm, indVars, saveVars, timeVars, smphr,
                 temp_set_val, temp_cur_val, work_cnt, age, quiet, unsaved>>

\* ... and stores it incremented; then the watchdog is fed.
PidStore ==
  /\ Running /\ pid = "store"
  /\ work_cnt' = Wrap(pid_r + 1)
  /\ pid_r' = 0
  /\ wdg' = WatchdogPeriod
  /\ pid' = "idle"
  /\ quiet' = Saturate(quiet, QuietCap)
  /\ UNCHANGED <<pid_off, pidData, pwm, indVars, saveVars, pidIn, saveIn, halted,
                 smphr, temp_set_val, temp_cur_val, age, unsaved>>

vPID_Task ==
  \/ \E sample \in Samples : PidSample(sample)
  \/ PidCheck \/ PidDrive \/ PidCount \/ PidStore

-----------------------------------------------------------------------------
\* Seeded fault: only a blank flash is written.
SaveCompare_BlankOnly ==
  /\ Running /\ save = "compare"
  /\ IF flash # BlankFlash
     THEN save' = "idle" /\ saveIn' = SavePeriod
     ELSE save' = "erase" /\ UNCHANGED saveIn
  /\ UNCHANGED <<flash, origin, indVars, pidVars, pidIn, wdg, halted, smphr,
                 temp_set_val, temp_cur_val, work_cnt, age, quiet, unsaved>>

\* Seeded fault: the page is not erased first.
SaveCompare_NoErase ==
  /\ Running /\ save = "compare"
  /\ IF flash = temp_set_val
     THEN save' = "idle" /\ saveIn' = SavePeriod
     ELSE save' = "program" /\ UNCHANGED saveIn
  /\ UNCHANGED <<flash, origin, indVars, pidVars, pidIn, wdg, halted, smphr,
                 temp_set_val, temp_cur_val, work_cnt, age, quiet, unsaved>>

\* vSaveDataTask: the saved word is compared with the setpoint.
SaveCompare ==
  /\ Running /\ save = "compare"
  /\ IF flash = temp_set_val
     THEN save' = "idle" /\ saveIn' = SavePeriod
     ELSE save' = "erase" /\ UNCHANGED saveIn
  /\ UNCHANGED <<flash, origin, indVars, pidVars, pidIn, wdg, halted, smphr,
                 temp_set_val, temp_cur_val, work_cnt, age, quiet, unsaved>>

\* Seeded fault: the task goes to sleep between erasing and programming.
SaveErase_ThenSleep ==
  /\ Running /\ save = "erase"
  /\ flash' = BlankFlash
  /\ save' = "idle" /\ saveIn' = SavePeriod
  /\ UNCHANGED <<origin, indVars, pidVars, pidIn, wdg, halted, smphr,
                 temp_set_val, temp_cur_val, work_cnt, age, quiet, unsaved>>

SaveErase ==
  /\ Running /\ save = "erase"
  /\ flash' = BlankFlash
  /\ save' = "program"
  /\ UNCHANGED <<origin, indVars, pidVars, timeVars, smphr,
                 temp_set_val, temp_cur_val, work_cnt, age, quiet, unsaved>>

\* The setpoint is read again to be programmed.
SaveProgram ==
  /\ Running /\ save = "program"
  /\ flash' = temp_set_val
  /\ save' = "idle" /\ saveIn' = SavePeriod
  /\ unsaved' = 0
  /\ UNCHANGED <<origin, indVars, pidVars, pidIn, wdg, halted, smphr,
                 temp_set_val, temp_cur_val, work_cnt, age, quiet>>

vSaveDataTask == SaveCompare \/ SaveErase \/ SaveProgram

-----------------------------------------------------------------------------
AllIdle == ind = "idle" /\ pid = "idle" /\ save = "idle"

\* A slot ends with every job done; the next one releases the tasks due.
Tick ==
  /\ Running /\ AllIdle
  /\ ind' = "take"
  /\ pid' = IF pidIn = 1 THEN "sample" ELSE "idle"
  /\ pidIn' = IF pidIn = 1 THEN PidPeriod ELSE pidIn - 1
  /\ save' = IF saveIn = 1 THEN "compare" ELSE "idle"
  /\ saveIn' = saveIn - 1
  /\ wdg' = wdg - 1
  /\ age' = Saturate(age, AgeCap)
  /\ unsaved' = IF flash # temp_set_val THEN Saturate(unsaved, UnsavedCap) ELSE 0
  /\ UNCHANGED <<ind_i, scnt, cur_displ, shown, pid_off, pid_r, pidData, pwm,
                 flash, origin, halted, smphr, temp_set_val, temp_cur_val, work_cnt, quiet>>

\* The processor stops: a hard fault, a failed configASSERT, or a wait for
\* the SPI that never ends.
Halt ==
  /\ "halt" \in Faults /\ Running
  /\ halted' = TRUE
  /\ UNCHANGED <<indVars, pidVars, saveVars, pidIn, saveIn, wdg, smphr,
                 temp_set_val, temp_cur_val, work_cnt, age, quiet, unsaved>>

\* A slot passes on a stopped processor: only the watchdog counts.
HaltedTick ==
  /\ halted /\ wdg > 0
  /\ wdg' = wdg - 1
  /\ age' = Saturate(age, AgeCap)
  /\ UNCHANGED <<indVars, pidVars, saveVars, pidIn, saveIn, halted, smphr,
                 temp_set_val, temp_cur_val, work_cnt, quiet, unsaved>>

\* The watchdog has run down and resets the processor.
WatchdogReset == wdg = 0 /\ Restart(flash)

\* The power is cut and comes back; a write under way may leave a torn word,
\* and so may an erasure, unless the page was blank already.
PowerCycle ==
  /\ "power" \in Faults
  /\ \/ Restart(flash)
     \/ /\ save = "program" \/ (save = "erase" /\ flash # BlankFlash)
        /\ \E word \in TornValues : Restart(word)

Fault == Halt \/ PowerCycle

Next ==
  \/ \E b \in Buttons : ButtonGive(b)
  \/ vIndDataOutTask \/ vPID_Task \/ vSaveDataTask
  \/ Tick \/ HaltedTick \/ WatchdogReset
  \/ Fault

\* The scheduler gives every ready task the processor, its clock runs, and so
\* does the watchdog's.  Nothing is assumed of the user or of the faults.
Fairness ==
  /\ WF_vars(vIndDataOutTask) /\ WF_vars(vPID_Task) /\ WF_vars(vSaveDataTask)
  /\ WF_vars(Tick) /\ WF_vars(HaltedTick) /\ WF_vars(WatchdogReset)

Spec == Init /\ [][Next]_vars

FairSpec == Spec /\ Fairness
-----------------------------------------------------------------------------
(***************************************************************************)
(* Properties.                                                             *)
(***************************************************************************)

IndTypeOK ==
  /\ ind \in IndPc /\ ind_i \in Buttons
  /\ scnt \in 0 .. UINT16_MAX /\ cur_displ \in {"set", "cur"}
  /\ shown \in Shown

PidTypeOK ==
  /\ pid \in PidPc /\ pid_r \in 0 .. UINT16_MAX
  /\ pidData \in PidData
  /\ pwm \in 0 .. MAX_OUT

TimeTypeOK ==
  /\ save \in SavePc
  /\ pidIn \in 1 .. PidPeriod /\ saveIn \in 0 .. SavePeriod
  /\ wdg \in 0 .. WatchdogPeriod

FlagTypeOK == pid_off \in BOOLEAN /\ halted \in BOOLEAN

SharedTypeOK ==
  /\ smphr \in [Buttons -> 0 .. SemaphoreMax]
  /\ temp_set_val \in HalfWords /\ flash \in HalfWords
  /\ temp_cur_val \in Samples \union {0}
  /\ work_cnt \in 0 .. UINT16_MAX

HistoryTypeOK ==
  /\ origin \in HalfWords
  /\ age \in 0 .. AgeCap /\ quiet \in 0 .. QuietCap /\ unsaved \in 0 .. UnsavedCap

\* Every variable stays in its range; in particular the pulse width never
\* passes the regulator's limit and the integral never leaves its bounds.
TypeOK ==
  /\ IndTypeOK /\ PidTypeOK /\ TimeTypeOK
  /\ FlagTypeOK /\ SharedTypeOK /\ HistoryTypeOK

\* The setpoint is always one that the keys can dial from MIN_TEMPERATURE,
\* whatever sequence of presses, saves, power cuts and restarts led to it,
\* unless a torn word was restored; then it is one they can dial from that
\* word: main.c steps by five with a test against the limit, and restores from
\* flash with a test against the upper limit only.
SettingValid == temp_set_val \in Dialled(origin)

\* MIN_TEMPERATURE and MAX_TEMPERATURE (main.h:36 and 38), and the tests against
\* them in main.c:157 and 160, are the limits of the setpoint.
SettingWithinLimits == temp_set_val \in MIN_TEMPERATURE .. MAX_TEMPERATURE

\* Once the regulator has acted on a sample that means a broken thermocouple
\* or overheating, the heater is off, and it stays off until a good sample has
\* been taken (vPID_Task, lines 70 to 73).
BadSampleNoHeat ==
  Bad(temp_cur_val) /\ pid \notin {"check", "drive"} => pwm = 0

\* The heater is never driven on a temperature older than one watchdog
\* period, even when the processor stops at the worst moment: the watchdog is
\* fed by the regulator alone, after it has sampled, and a restart begins with
\* the heater off.
StaleDriveBounded == pwm > 0 => age <= WatchdogPeriod

\* In the slot after a sample at the latest, a display that is not occupied
\* by the setpoint shows that sample or the error sign, although the display
\* task reads the temperature twice while the regulator may write it.
DisplayFresh ==
  ind = "idle" /\ pid = "idle" /\ age >= 1 /\ ~halted
    /\ cur_displ = "cur" /\ shown.kind \in {"cur", "err"}
  => shown = IF temp_cur_val = 0 THEN Error ELSE Reading(temp_cur_val)

\* The countdown that keeps the setpoint on the display is running exactly
\* while the setpoint is selected, so the unsigned scnt-- never wraps.
CountdownRuns == (cur_displ = "set" <=> scnt > 0) /\ scnt <= BT_PRESS_DELAY_TIME

\* The flash holds no setpoint that can be resumed only while a save is under
\* way, the one that follows a restart with a blank or torn word included: a
\* torn word that the restart refuses is replaced, one that it accepts has
\* become the setpoint.
ErasedOnlyWhileSaving == flash \notin Dialled(origin) => save # "idle"

\* A dialled setpoint is at most one save period away from being saved: what
\* a power cut can lose is never older.
UnsavedBounded == unsaved <= SavePeriod

\* The switch-off is never late: once more than HEATER_OFF_TIME regulator
\* periods have passed without a key press, the regulator works towards 0,
\* however the resets and the increments of work_cnt were interleaved.
CutoffNotLate ==
  [][PidDrive /\ quiet > HEATER_OFF_TIME
       => pidData' = PidUpdate(pidData, 0, temp_cur_val)]_vars

\* "Reset HeaterOFF counter" (main.c:154): a key press gives the user
\* HEATER_OFF_TIME more periods of regulation towards the setpoint.
PressKeepsHeaterOn ==
  [][PidDrive /\ quiet \in 1 .. HEATER_OFF_TIME
       => pidData' = PidUpdate(pidData, temp_set_val, temp_cur_val)]_vars

\* HEATER_OFF_TIME (main.h:43) is the time after which the heater is off.
OffMeansOff == [][PidDrive /\ pid_off => pwm' = 0]_vars

\* From some moment on nobody presses a key and nothing fails.
LeftAlone == <>[][~((\E b \in Buttons : ButtonGive(b)) \/ Fault)]_vars

\* A heater that is left alone ends up off for good: the switch-off counter
\* runs out, and then the integral, whatever it had run up to, drains.
HeaterEventuallyOff == LeftAlone => <>[](pwm = 0)

\* A setpoint that is left alone ends up in flash, for good.
SettingEventuallySaved == LeftAlone => <>[](flash = temp_set_val)

-----------------------------------------------------------------------------
\* The controller seen as a thermostat: a reading counts from the moment the
\* duty follows from it.
Abstract == INSTANCE Thermostat WITH
  Step        <- TemperatureStep,
  Lowest      <- MIN_TEMPERATURE,
  Highest     <- MAX_TEMPERATURE,
  Readings    <- Samples,
  BadReadings <- {t \in Samples : Bad(t)},
  MaxDuty     <- MAX_OUT,
  Nothing     <- BlankFlash,
  Damaged     <- TornValues,
  setpoint    <- temp_set_val,
  reading     <- pidData.lastProcessValue,
  duty        <- pwm,
  stored      <- flash

\* Every step of the tasks, the faults included, is a step of the thermostat:
\* no interleaving shows a duty without its reading, a setpoint between two
\* steps, or a store written without having been erased.
ImplementsThermostat == Abstract!Spec
=============================================================================
