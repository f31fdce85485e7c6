---------------------------- MODULE HeaterProofs ----------------------------
(***************************************************************************)
(* Theorems of PidController, for every gain, limit and input, and of      *)
(* Heater, for every value of its constants.  Heater's inductive           *)
(* invariant is a conjunction of named parts; each part has a lemma that   *)
(* says a step keeps it, given the parts before it.                        *)
(***************************************************************************)
EXTENDS HeaterInvariants, TLAPS

-----------------------------------------------------------------------------
\* The regulator.

\* The quotient of natural numbers, and how far it is from exact.
LEMMA DivisionFacts ==
  ASSUME NEW a \in Nat, NEW b \in Nat \ {0}
  PROVE  /\ a \div b \in Nat
         /\ a \div b <= a
         /\ b * (a \div b) <= a
  BY SMT

\* Truncation keeps the sign, and never enlarges the magnitude.
LEMMA TruncDivFacts ==
  ASSUME NEW a \in Int, NEW b \in Nat \ {0}
  PROVE  /\ TruncDiv(a, b) \in Int
         /\ a >= 0 => TruncDiv(a, b) \in 0 .. a
         /\ a <= 0 => TruncDiv(a, b) \in a .. 0
<1>1. CASE a >= 0
  BY <1>1, DivisionFacts DEF TruncDiv
<1>2. CASE ~(a >= 0)
  <2>1. -a \in Nat
    BY <1>2
  <2> QED
    BY <1>2, <2>1, DivisionFacts DEF TruncDiv
<1> QED
  BY <1>1, <1>2

\* A clamped value lies between the limits, and is the value if it did before.
LEMMA ClampFacts ==
  ASSUME NEW x \in Int, NEW lo \in Int, NEW hi \in Int, lo <= hi
  PROVE  /\ Clamp(x, lo, hi) \in lo .. hi
         /\ x \in lo .. hi => Clamp(x, lo, hi) = x
         /\ x <= lo => Clamp(x, lo, hi) = lo
         /\ x >= hi => Clamp(x, lo, hi) = hi
  BY DEF Clamp

\* The limit of the integral is a natural number, and the product of a legal
\* integral with its gain never exceeds MAX_I_TERM.
LEMMA MaxSumErrorFacts ==
  /\ maxSumError \in Nat
  /\ \A sum \in 0 .. maxSumError : I_Factor * sum \in 0 .. MAX_I_TERM
<1>1. /\ maxSumError \in Nat
      /\ (I_Factor + 1) * maxSumError <= MAX_I_TERM
  <2>1. I_Factor + 1 \in Nat \ {0} /\ MAX_I_TERM \in Nat
    BY PidAssumption
  <2> QED
    BY <2>1, DivisionFacts, Zenon DEF maxSumError
<1>2. ASSUME NEW sum \in 0 .. maxSumError
      PROVE  I_Factor * sum \in 0 .. MAX_I_TERM
  <2>1. I_Factor \in Nat /\ MAX_I_TERM \in Nat
    BY PidAssumption
  <2>2. I_Factor * sum \in Nat /\ I_Factor * sum <= I_Factor * maxSumError
    BY <1>1, <2>1, SMT
  <2>3. I_Factor * maxSumError <= (I_Factor + 1) * maxSumError
    BY <1>1, <2>1, SMT
  <2> QED
    BY <1>1, <2>1, <2>2, <2>3, SMT
<1> QED
  BY <1>1, <1>2

\* The integral stays between 0 and maxSumError.
LEMMA SumAfterFacts ==
  ASSUME NEW sum \in 0 .. maxSumError, NEW error \in Int
  PROVE  SumAfter(sum, error) \in 0 .. maxSumError
  BY MaxSumErrorFacts, ClampFacts DEF SumAfter

\* The integral term never exceeds MAX_I_TERM, on either branch.
LEMMA ITermFacts ==
  ASSUME NEW sum \in 0 .. maxSumError, NEW error \in Int
  PROVE  ITerm(sum, error) \in 0 .. MAX_I_TERM
<1>1. I_Factor * SumAfter(sum, error) \in 0 .. MAX_I_TERM
  BY MaxSumErrorFacts, SumAfterFacts, Zenon
<1>2. MAX_I_TERM \in 0 .. MAX_I_TERM
  BY PidAssumption
<1> QED
  BY <1>1, <1>2, Zenon DEF ITerm

\* The anti-overflow comment of pid_Init ("Limits to avoid overflow"): if the
\* gains and the inputs are small enough for the limits, every sum and
\* product pid_Controller forms fits the 32 bits it is formed in.
THEOREM PidNoOverflow ==
  ASSUME NEW reg \in PidData, NEW limit \in Nat, NEW word \in Nat,
         NEW setPoint \in 0 .. limit, NEW processValue \in 0 .. limit,
         reg.lastProcessValue <= limit,
         (P_Factor + D_Factor) * limit + MAX_I_TERM <= word,
         maxSumError + limit <= word
  PROVE  /\ P_Factor * (setPoint - processValue) \in -word .. word
         /\ reg.sumError + (setPoint - processValue) \in -word .. word
         /\ RawOutput(reg, setPoint, processValue) \in -word .. word
<1> DEFINE error == setPoint - processValue
           drop  == reg.lastProcessValue - processValue
<1>1. /\ reg.sumError \in 0 .. maxSumError
      /\ reg.lastProcessValue \in 0 .. limit
  BY DEF PidData
<1>2. error \in -limit .. limit /\ drop \in -limit .. limit
  BY <1>1
<1>3. /\ P_Factor \in Nat /\ D_Factor \in Nat /\ MAX_I_TERM \in Nat
      /\ maxSumError \in Nat
  BY PidAssumption, MaxSumErrorFacts
<1> HIDE DEF error, drop
<1>4. P_Factor * error \in -(P_Factor * limit) .. P_Factor * limit
  BY <1>2, <1>3, SMT
<1>5. D_Factor * drop \in -(D_Factor * limit) .. D_Factor * limit
  BY <1>2, <1>3, SMT
<1>6. /\ P_Factor * limit \in Nat /\ D_Factor * limit \in Nat
      /\ (P_Factor + D_Factor) * limit = P_Factor * limit + D_Factor * limit
  BY <1>3, SMT
<1>7. ITerm(reg.sumError, error) \in 0 .. MAX_I_TERM
  BY <1>1, <1>2, ITermFacts
<1>8. RawOutput(reg, setPoint, processValue)
        = P_Factor * error + ITerm(reg.sumError, error) + D_Factor * drop
  BY DEF RawOutput, error, drop
<1>9. P_Factor * error \in -word .. word
  BY <1>3, <1>4, <1>6
<1>10. reg.sumError + error \in -word .. word
  BY <1>1, <1>2, <1>3
<1>11. RawOutput(reg, setPoint, processValue) \in -word .. word
  BY <1>3, <1>4, <1>5, <1>6, <1>7, <1>8
<1> QED
  BY <1>9, <1>10, <1>11 DEF error

\* The output and the state of the regulator stay in range for every input.
THEOREM PidInRange ==
  ASSUME NEW reg \in PidData, NEW setPoint \in Nat, NEW processValue \in Nat
  PROVE  /\ PidOutput(reg, setPoint, processValue) \in 0 .. MAX_OUT
         /\ PidUpdate(reg, setPoint, processValue) \in PidData
<1>1. reg.sumError \in 0 .. maxSumError /\ reg.lastProcessValue \in Nat
  BY DEF PidData
<1>2. RawOutput(reg, setPoint, processValue) \in Int
  BY <1>1, PidAssumption, ITermFacts DEF RawOutput
<1>3. PidOutput(reg, setPoint, processValue) \in 0 .. MAX_OUT
  <2>1. /\ SCALING_FACTOR \in Nat \ {0}
        /\ 0 \in Int /\ MAX_OUT \in Int /\ 0 <= MAX_OUT
    BY PidAssumption
  <2>2. TruncDiv(RawOutput(reg, setPoint, processValue), SCALING_FACTOR) \in Int
    BY <1>2, <2>1, TruncDivFacts, Zenon
  <2> QED
    BY <2>1, <2>2, ClampFacts, Zenon DEF PidOutput
<1>4. SumAfter(reg.sumError, setPoint - processValue) \in 0 .. maxSumError
  BY <1>1, SumAfterFacts
<1> QED
  BY <1>3, <1>4 DEF PidUpdate, PidData

\* With the setpoint at 0 the integral drains by the measured temperature in
\* every period, down to 0 ...
THEOREM IntegralDrains ==
  ASSUME NEW reg \in PidData, NEW processValue \in Nat
  PROVE  PidUpdate(reg, 0, processValue).sumError
           = IF processValue >= reg.sumError THEN 0 ELSE reg.sumError - processValue
<1>1. reg.sumError \in 0 .. maxSumError /\ maxSumError \in Nat
  BY MaxSumErrorFacts DEF PidData
<1> QED
  BY <1>1 DEF PidUpdate, SumAfter, Clamp

\* ... and the heater is off, at the setpoint 0 and without a derivative term,
\* as soon as the integral no longer outweighs the proportional term: this is
\* how large a wound-up integral must be to keep the heater on.
THEOREM OffUnlessWoundUp ==
  ASSUME NEW reg \in PidData, NEW processValue \in Nat, D_Factor = 0,
         I_Factor * reg.sumError <= P_Factor * processValue
  PROVE  PidOutput(reg, 0, processValue) = 0
<1> DEFINE after == SumAfter(reg.sumError, 0 - processValue)
<1>1. /\ reg.sumError \in 0 .. maxSumError /\ maxSumError \in Nat
      /\ reg.lastProcessValue \in Nat
      /\ P_Factor \in Nat /\ I_Factor \in Nat /\ MAX_OUT \in Nat
      /\ SCALING_FACTOR \in Nat \ {0}
  BY PidAssumption, MaxSumErrorFacts DEF PidData
<1>2. after \in 0 .. reg.sumError
  BY <1>1 DEF SumAfter, Clamp
<1>3. ~(reg.sumError + (0 - processValue) > maxSumError)
  BY <1>1
<1> HIDE DEF after
<1>4. I_Factor * after \in 0 .. I_Factor * reg.sumError
  BY <1>1, <1>2, SMT
<1>5. D_Factor * (reg.lastProcessValue - processValue) = 0
  BY <1>1, SMT
<1>6. RawOutput(reg, 0, processValue) = P_Factor * (0 - processValue) + I_Factor * after
  BY <1>1, <1>2, <1>3, <1>5 DEF RawOutput, ITerm, after
<1>7. P_Factor * (0 - processValue) = -(P_Factor * processValue)
      /\ P_Factor * processValue \in Nat
  BY <1>1, SMT
<1>8. /\ RawOutput(reg, 0, processValue) \in Int
      /\ RawOutput(reg, 0, processValue) <= 0
  BY <1>1, <1>4, <1>6, <1>7
<1>9. /\ TruncDiv(RawOutput(reg, 0, processValue), SCALING_FACTOR) \in Int
      /\ TruncDiv(RawOutput(reg, 0, processValue), SCALING_FACTOR) <= 0
  BY <1>1, <1>8, TruncDivFacts
<1> QED
  BY <1>1, <1>9, ClampFacts DEF PidOutput

-----------------------------------------------------------------------------
\* Consequences of the assumptions on the constants.

\* What the assumption says of the setpoints and of the words in flash.
LEMMA LimitFacts ==
  /\ MIN_TEMPERATURE \in Nat /\ MIN_TEMPERATURE >= 5
  /\ MAX_TEMPERATURE \in Nat /\ MAX_TEMPERATURE >= MIN_TEMPERATURE
  /\ (MAX_TEMPERATURE - MIN_TEMPERATURE) % 5 = 0
  /\ BlankFlash \in HalfWords /\ BlankFlash >= MAX_TEMPERATURE + 5
  /\ UINT16_MAX \in Nat /\ MAX_TEMPERATURE + 5 <= UINT16_MAX
  /\ HalfWords = 0 .. UINT16_MAX
  /\ TornValues \subseteq HalfWords
<1>1. UINT16_MAX \in Nat
  BY DEF UINT16_MAX
<1> QED
  BY <1>1, HeaterAssumption DEF TemperatureStep, HalfWords

\* A setpoint on any grid is a half word, and a blank word is on none.
LEMMA DialledFacts ==
  ASSUME NEW o \in HalfWords
  PROVE  /\ Dialled(o) \subseteq HalfWords
         /\ BlankFlash \notin Dialled(o)
         /\ o <= MAX_TEMPERATURE => o \in Dialled(o)
  BY LimitFacts, SMT DEF Dialled, TemperatureStep

\* From MIN_TEMPERATURE the keys dial the settings, and nothing else.
LEMMA SettingsFacts == Dialled(MIN_TEMPERATURE) = Settings
<1>1. Settings \subseteq Dialled(MIN_TEMPERATURE)
  BY LimitFacts, SMT DEF Dialled, Settings, TemperatureStep
<1>2. ASSUME NEW v \in Dialled(MIN_TEMPERATURE) PROVE v \in Settings
  <2>1. /\ v \in Nat /\ v <= MAX_TEMPERATURE + 4
        /\ (v - MIN_TEMPERATURE) % 5 = 0
        /\ v >= MIN_TEMPERATURE \/ v > MIN_TEMPERATURE - 5
    BY <1>2, LimitFacts DEF Dialled, TemperatureStep
  <2>2. v >= MIN_TEMPERATURE
    BY <2>1, LimitFacts, SMT
  <2>3. v <= MAX_TEMPERATURE
    BY <2>1, LimitFacts, SMT
  <2> QED
    BY <2>1, <2>2, <2>3, LimitFacts DEF Settings, TemperatureStep
<1> QED
  BY <1>1, <1>2

\* A key press moves a setpoint by a step inside its grid, or nowhere, and up
\* only from below the upper limit, down only from above the lower one.
LEMMA AdjustedFacts ==
  ASSUME NEW o \in HalfWords, NEW set \in Dialled(o), NEW b \in Buttons
  PROVE  /\ Adjusted(set, b) \in Dialled(o)
         /\ \/ Adjusted(set, b) = set
            \/ set < MAX_TEMPERATURE /\ Adjusted(set, b) = set + TemperatureStep
            \/ set > MIN_TEMPERATURE /\ Adjusted(set, b) = set - TemperatureStep
<1>1. /\ set \in Nat /\ o \in Nat /\ (set - o) % 5 = 0
      /\ set <= MAX_TEMPERATURE + 4
      /\ set >= o \/ set > MIN_TEMPERATURE - 5
  BY LimitFacts DEF Dialled, TemperatureStep
<1>2. set < MAX_TEMPERATURE => set + 5 \in Dialled(o)
  BY <1>1, LimitFacts, SMT DEF Dialled, TemperatureStep
<1>3. set > MIN_TEMPERATURE => set - 5 \in Dialled(o)
  BY <1>1, LimitFacts, SMT DEF Dialled, TemperatureStep
<1>4. CASE b = BUTTN_UP /\ set < MAX_TEMPERATURE
  <2>1. b # BUTTN_DN
    BY <1>4 DEF BUTTN_UP, BUTTN_DN
  <2> QED
    BY <1>2, <1>4, <2>1, Zenon DEF Adjusted, TemperatureStep
<1>5. CASE b = BUTTN_DN /\ set > MIN_TEMPERATURE
  <2>1. b # BUTTN_UP
    BY <1>5 DEF BUTTN_UP, BUTTN_DN
  <2> QED
    BY <1>3, <1>5, <2>1, Zenon DEF Adjusted, TemperatureStep
<1>6. CASE /\ ~(b = BUTTN_UP /\ set < MAX_TEMPERATURE)
           /\ ~(b = BUTTN_DN /\ set > MIN_TEMPERATURE)
  BY <1>6, Zenon DEF Adjusted
<1> QED
  BY <1>4, <1>5, <1>6

\* A half word is restored to itself or, above the limit, to MIN_TEMPERATURE.
LEMMA RestoredFacts ==
  ASSUME NEW word \in HalfWords
  PROVE  /\ word <= MAX_TEMPERATURE => Restored(word) = word
         /\ word > MAX_TEMPERATURE => Restored(word) = MIN_TEMPERATURE
         /\ Restored(word) \in HalfWords
  BY LimitFacts DEF Restored

\* What a restart establishes: flash is the word it held before, or torn.
LEMMA RestartFacts ==
  ASSUME flash \in HalfWords, WatchdogReset \/ PowerCycle
  PROVE  \E word \in HalfWords : Restart(word) /\ word \in {flash} \union TornValues
  BY LimitFacts DEF WatchdogReset, PowerCycle

-----------------------------------------------------------------------------
(***************************************************************************)
(* Type correctness, with what it needs of the setpoint and of the flash.  *)
(***************************************************************************)
\* What the assumptions on the constants say, in the form the steps use.
LEMMA ConstantFacts ==
  /\ HEATER_OFF_TIME \in Nat /\ HEATER_OFF_TIME + 2 <= UINT16_MAX
  /\ BT_PRESS_DELAY_TIME \in 1 .. UINT16_MAX
  /\ PidPeriod \in Nat \ {0} /\ SavePeriod \in Nat \ {0}
  /\ WatchdogPeriod \in Nat \ {0} /\ SemaphoreMax \in Nat /\ Samples \subseteq Nat
  /\ MAX_OUT \in Nat
  BY HeaterAssumption, PidAssumption

\* The arithmetic of half words, with the bound kept as a name.
LEMMA WordFacts ==
  /\ UINT16_MAX \in Nat
  /\ \A n \in Int : Wrap(n) \in 0 .. UINT16_MAX
  /\ \A n \in 0 .. UINT16_MAX : Wrap(n) = n
<1>1. UINT16_MAX \in Nat
  BY DEF UINT16_MAX
<1> QED
  BY <1>1, SMT DEF Wrap

\* The type invariant, action by action.
LEMMA TypeInit == Init => TypeInv
<1> SUFFICES ASSUME Init PROVE TypeInv
  OBVIOUS
<1>1. /\ flash \in HalfWords /\ origin = MIN_TEMPERATURE /\ origin \in HalfWords
      /\ flash > MAX_TEMPERATURE \/ flash \in Dialled(origin)
  BY SettingsFacts, DialledFacts, LimitFacts DEF Init
<1>2. temp_set_val \in Dialled(origin) /\ temp_set_val \in HalfWords
  BY <1>1, RestoredFacts, DialledFacts, LimitFacts DEF Init
<1>3. IndTypeOK
  BY WordFacts DEF Init, IndTypeOK, IndPc, Buttons, BUTTN_UP, Shown, PowerOn
<1>4. PidTypeOK
  BY MaxSumErrorFacts, ConstantFacts, WordFacts DEF Init, PidTypeOK, PidPc, pid_Init, PidData
<1>5. TimeTypeOK
  BY ConstantFacts, WordFacts DEF Init, TimeTypeOK, SavePc
<1>6. SharedTypeOK
  BY <1>1, <1>2, ConstantFacts, WordFacts DEF Init, SharedTypeOK
<1>7. HistoryTypeOK
  BY <1>1, ConstantFacts, WordFacts DEF Init, HistoryTypeOK, AgeCap, QuietCap, UnsavedCap
<1>8. SaveInv
  BY <1>1, LimitFacts DEF Init, SaveInv
<1>9. FlagTypeOK
  BY Zenon DEF Init, FlagTypeOK
<1> QED
  BY <1>2, <1>3, <1>4, <1>5, <1>6, <1>7, <1>8, <1>9 DEF TypeInv, TypeOK, SettingValid

\* A restart re-establishes every part of it.
LEMMA TypeRestart ==
  ASSUME TypeInv, NEW word \in HalfWords, Restart(word),
         word \in {flash} \union TornValues
  PROVE  TypeInv'
<1>0. origin \in HalfWords /\ (flash > MAX_TEMPERATURE \/ flash \in Dialled(origin))
  BY DEF TypeInv, TypeOK, HistoryTypeOK, SaveInv
<1>1. /\ origin' \in HalfWords
      /\ origin' = MIN_TEMPERATURE \/ origin' \in TornValues
      /\ origin' <= MAX_TEMPERATURE
      /\ word > MAX_TEMPERATURE => origin' = MIN_TEMPERATURE
      /\ word <= MAX_TEMPERATURE => word \in Dialled(origin')
  <2>1. CASE word > MAX_TEMPERATURE
    BY <2>1, LimitFacts DEF Restart
  <2>2. CASE word <= MAX_TEMPERATURE /\ word = flash
    BY <1>0, <2>2, LimitFacts DEF Restart, TypeInv, SaveInv
  <2>3. CASE word <= MAX_TEMPERATURE /\ word # flash
    BY <2>3, DialledFacts, LimitFacts DEF Restart
  <2> QED
    BY <2>1, <2>2, <2>3, LimitFacts
<1>9. /\ temp_set_val' \in HalfWords /\ flash' \in HalfWords
      /\ temp_set_val' \in Dialled(origin')
      /\ flash' > MAX_TEMPERATURE \/ flash' \in Dialled(origin')
  <2>1. flash' = word /\ temp_set_val' = Restored(word)
    BY DEF Restart
  <2>2. CASE word > MAX_TEMPERATURE
    BY <1>1, <2>1, <2>2, RestoredFacts, DialledFacts, LimitFacts
  <2>3. CASE word <= MAX_TEMPERATURE
    BY <1>1, <2>1, <2>3, RestoredFacts
  <2> QED
    BY <2>2, <2>3, LimitFacts
<1>2. IndTypeOK'
  BY WordFacts DEF Restart, IndTypeOK, IndPc, Buttons, BUTTN_UP, Shown, PowerOn
<1>3. PidTypeOK'
  BY MaxSumErrorFacts, ConstantFacts, WordFacts DEF Restart, PidTypeOK, PidPc, pid_Init, PidData
<1>4. TimeTypeOK'
  BY ConstantFacts, WordFacts DEF Restart, TimeTypeOK, SavePc
<1>5. SharedTypeOK'
  BY <1>9, ConstantFacts, WordFacts DEF Restart, SharedTypeOK
<1>6. HistoryTypeOK'
  BY <1>1, ConstantFacts, WordFacts
  DEF Restart, TypeInv, TypeOK, HistoryTypeOK, AgeCap, QuietCap, UnsavedCap
<1>7. SettingValid' /\ SaveInv'
  BY <1>1, <1>9, ConstantFacts DEF Restart, SettingValid, SaveInv
<1>8. FlagTypeOK'
  BY Zenon DEF Restart, FlagTypeOK
<1> QED
  BY <1>2, <1>3, <1>4, <1>5, <1>6, <1>7, <1>8 DEF TypeInv, TypeOK

\* Each part of the type invariant depends on a few variables only.
LEMMA TypeFrame ==
  /\ IndTypeOK /\ UNCHANGED <<ind, ind_i, scnt, cur_displ, shown>> => IndTypeOK'
  /\ PidTypeOK /\ UNCHANGED <<pid, pid_r, pidData, pwm>> => PidTypeOK'
  /\ TimeTypeOK /\ UNCHANGED <<save, pidIn, saveIn, wdg>> => TimeTypeOK'
  /\ FlagTypeOK /\ UNCHANGED <<pid_off, halted>> => FlagTypeOK'
  /\ SharedTypeOK /\ UNCHANGED <<smphr, temp_set_val, flash, temp_cur_val, work_cnt>>
       => SharedTypeOK'
  /\ HistoryTypeOK /\ UNCHANGED <<origin, age, quiet, unsaved>> => HistoryTypeOK'
  /\ SettingValid /\ UNCHANGED <<temp_set_val, origin>> => SettingValid'
  /\ SaveInv /\ UNCHANGED <<save, saveIn, flash, origin>> => SaveInv'
  BY Zenon
  DEF IndTypeOK, PidTypeOK, TimeTypeOK, FlagTypeOK, SharedTypeOK, HistoryTypeOK,
      SettingValid, SaveInv

\* Every action preserves it: only the parts an action touches need a look.
LEMMA TypeStep == TypeInv /\ [Next]_vars => TypeInv'
<1> SUFFICES ASSUME TypeInv, [Next]_vars PROVE TypeInv'
  OBVIOUS
<1>0. /\ IndTypeOK /\ PidTypeOK /\ TimeTypeOK /\ FlagTypeOK /\ SharedTypeOK /\ HistoryTypeOK
      /\ SettingValid /\ SaveInv
  BY DEF TypeInv, TypeOK
<1> USE <1>0
<1>1. ASSUME NEW b \in Buttons, ButtonGive(b) PROVE TypeInv'
  <2>1. SharedTypeOK'
    BY <1>1, ConstantFacts, WordFacts
    DEF ButtonGive, SharedTypeOK, indVars, pidVars, saveVars, timeVars
  <2> QED
    BY <1>1, <2>1, TypeFrame
    DEF TypeInv, TypeOK, ButtonGive, indVars, pidVars, saveVars, timeVars
<1>2. CASE IndTake
  <2>1. IndTypeOK'
    BY <1>2, ConstantFacts, WordFacts
    DEF IndTake, IndTypeOK, IndPc, indVars, pidVars, saveVars, timeVars
  <2>2. SharedTypeOK'
    BY <1>2, ConstantFacts, WordFacts
    DEF IndTake, SharedTypeOK, IndTypeOK, indVars, pidVars, saveVars, timeVars
  <2>3. HistoryTypeOK'
    BY <1>2, ConstantFacts, WordFacts
    DEF IndTake, HistoryTypeOK, QuietCap, indVars, pidVars, saveVars, timeVars
  <2> QED
    BY <1>2, <2>1, <2>2, <2>3, TypeFrame
    DEF TypeInv, TypeOK, IndTake, indVars, pidVars, saveVars, timeVars
<1>3. CASE IndAdjust
  <2>1. IndTypeOK'
    BY <1>3
    DEF IndAdjust, IndTypeOK, IndPc, indVars, pidVars, saveVars, timeVars
  <2>2. SharedTypeOK'
    BY <1>3, AdjustedFacts, DialledFacts
    DEF IndAdjust, HistoryTypeOK, SharedTypeOK, SettingValid, IndTypeOK, indVars, pidVars, saveVars, timeVars
  <2>3. HistoryTypeOK'
    BY <1>3, ConstantFacts, WordFacts
    DEF IndAdjust, HistoryTypeOK, UnsavedCap, indVars, pidVars, saveVars, timeVars
  <2>4. SettingValid'
    BY <1>3, AdjustedFacts
    DEF IndAdjust, HistoryTypeOK, SettingValid, IndTypeOK, indVars, pidVars, saveVars, timeVars
  <2> QED
    BY <1>3, <2>1, <2>2, <2>3, <2>4, TypeFrame
    DEF TypeInv, TypeOK, IndAdjust, indVars, pidVars, saveVars, timeVars
<1>4. CASE IndNext
  <2>1. IndTypeOK'
    BY <1>4
    DEF IndNext, IndTypeOK, IndPc, Buttons, BUTTN_UP, BUTTN_DN, indVars, pidVars, saveVars, timeVars
  <2> QED
    BY <1>4, <2>1, TypeFrame
    DEF TypeInv, TypeOK, IndNext, indVars, pidVars, saveVars, timeVars
<1>5. CASE IndShowSet
  <2>1. IndTypeOK'
    BY <1>5, WordFacts, LimitFacts
    DEF IndShowSet, IndTypeOK, IndPc, Shown, SetPointShown, SharedTypeOK, indVars, pidVars, saveVars, timeVars
  <2> QED
    BY <1>5, <2>1, TypeFrame
    DEF TypeInv, TypeOK, IndShowSet, indVars, pidVars, saveVars, timeVars
<1>6. CASE IndShowCheck
  <2>1. IndTypeOK'
    BY <1>6
    DEF IndShowCheck, IndTypeOK, IndPc, Shown, Error, indVars, pidVars, saveVars, timeVars
  <2> QED
    BY <1>6, <2>1, TypeFrame
    DEF TypeInv, TypeOK, IndShowCheck, indVars, pidVars, saveVars, timeVars
<1>7. CASE IndShowCur
  <2>1. IndTypeOK'
    BY <1>7, ConstantFacts, WordFacts
    DEF IndShowCur, IndTypeOK, IndPc, Shown, Reading, SharedTypeOK, indVars, pidVars, saveVars, timeVars
  <2> QED
    BY <1>7, <2>1, TypeFrame
    DEF TypeInv, TypeOK, IndShowCur, indVars, pidVars, saveVars, timeVars
<1>8. ASSUME NEW sample \in Samples, PidSample(sample) PROVE TypeInv'
  <2>1. PidTypeOK'
    BY <1>8
    DEF PidSample, PidTypeOK, PidPc, indVars, pidVars, saveVars, timeVars
  <2>2. SharedTypeOK'
    BY <1>8
    DEF PidSample, SharedTypeOK, indVars, pidVars, saveVars, timeVars
  <2>3. HistoryTypeOK'
    BY <1>8, ConstantFacts, WordFacts
    DEF PidSample, HistoryTypeOK, AgeCap, indVars, pidVars, saveVars, timeVars
  <2> QED
    BY <1>8, <2>1, <2>2, <2>3, TypeFrame
    DEF TypeInv, TypeOK, PidSample, indVars, pidVars, saveVars, timeVars
<1>9. CASE PidCheck
  <2>1. PidTypeOK'
    BY <1>9
    DEF PidCheck, PidTypeOK, PidPc, indVars, pidVars, saveVars, timeVars
  <2>2. FlagTypeOK'
    <3>1. (work_cnt > HEATER_OFF_TIME) \in BOOLEAN
      OBVIOUS
    <3> QED
      BY <1>9, <3>1, Zenon DEF PidCheck, FlagTypeOK, timeVars
  <2> QED
    BY <1>9, <2>2, <2>1, TypeFrame
    DEF TypeInv, TypeOK, PidCheck, indVars, pidVars, saveVars, timeVars
<1>10. CASE PidDrive
  <2>1. PidTypeOK'
    <3>1. \A setPoint \in Nat :
            /\ PidOutput(pidData, setPoint, temp_cur_val) \in 0 .. MAX_OUT
            /\ PidUpdate(pidData, setPoint, temp_cur_val) \in PidData
      BY PidInRange, ConstantFacts, WordFacts DEF PidTypeOK, SharedTypeOK
    <3>2. (IF pid_off THEN 0 ELSE temp_set_val) \in Nat
      BY LimitFacts DEF SharedTypeOK
    <3> QED
      BY <1>10, <3>1, <3>2, ConstantFacts, WordFacts DEF PidDrive, PidTypeOK, PidPc, Duty, indVars
  <2>2. SharedTypeOK'
    BY <1>10, ConstantFacts, WordFacts
    DEF PidDrive, SharedTypeOK, indVars, pidVars, saveVars, timeVars
  <2>3. FlagTypeOK'
    BY <1>10, Zenon DEF PidDrive, FlagTypeOK, timeVars
  <2> QED
    BY <1>10, <2>3, <2>1, <2>2, TypeFrame
    DEF TypeInv, TypeOK, PidDrive, indVars, pidVars, saveVars, timeVars
<1>11. CASE PidCount
  <2>1. PidTypeOK'
    BY <1>11
    DEF PidCount, PidTypeOK, PidPc, SharedTypeOK, indVars, pidVars, saveVars, timeVars
  <2> QED
    BY <1>11, <2>1, TypeFrame
    DEF TypeInv, TypeOK, PidCount, indVars, pidVars, saveVars, timeVars
<1>12. CASE PidStore
  <2>1. PidTypeOK'
    BY <1>12, WordFacts
    DEF PidStore, PidTypeOK, PidPc, indVars, pidVars, saveVars, timeVars
  <2>2. TimeTypeOK'
    BY <1>12, ConstantFacts, WordFacts
    DEF PidStore, TimeTypeOK, indVars, pidVars, saveVars, timeVars
  <2>3. SharedTypeOK'
    BY <1>12, WordFacts
    DEF PidStore, SharedTypeOK, PidTypeOK, indVars, pidVars, saveVars, timeVars
  <2>4. HistoryTypeOK'
    BY <1>12, ConstantFacts, WordFacts
    DEF PidStore, HistoryTypeOK, Saturate, QuietCap, indVars, pidVars, saveVars, timeVars
  <2> QED
    BY <1>12, <2>1, <2>2, <2>3, <2>4, TypeFrame
    DEF TypeInv, TypeOK, PidStore, indVars, pidVars, saveVars, timeVars
<1>13. CASE SaveCompare
  <2>1. TimeTypeOK'
    BY <1>13, ConstantFacts, WordFacts
    DEF SaveCompare, TimeTypeOK, SavePc, indVars, pidVars, saveVars, timeVars
  <2>2. SaveInv'
    BY <1>13, ConstantFacts, WordFacts
    DEF SaveCompare, SaveInv, SavePc, TimeTypeOK, SettingValid, indVars, pidVars, saveVars, timeVars
  <2> QED
    BY <1>13, <2>1, <2>2, TypeFrame
    DEF TypeInv, TypeOK, SaveCompare, indVars, pidVars, saveVars, timeVars
<1>14. CASE SaveErase
  <2>1. TimeTypeOK'
    BY <1>14
    DEF SaveErase, TimeTypeOK, SavePc, indVars, pidVars, saveVars, timeVars
  <2>2. SharedTypeOK'
    BY <1>14, LimitFacts
    DEF SaveErase, SharedTypeOK, indVars, pidVars, saveVars, timeVars
  <2>3. SaveInv'
    BY <1>14, LimitFacts
    DEF SaveErase, SaveInv, indVars, pidVars, saveVars, timeVars
  <2> QED
    BY <1>14, <2>1, <2>2, <2>3, TypeFrame
    DEF TypeInv, TypeOK, SaveErase, indVars, pidVars, saveVars, timeVars
<1>15. CASE SaveProgram
  <2>1. TimeTypeOK'
    BY <1>15, ConstantFacts, WordFacts
    DEF SaveProgram, TimeTypeOK, SavePc, indVars, pidVars, saveVars, timeVars
  <2>2. SharedTypeOK'
    BY <1>15
    DEF SaveProgram, SharedTypeOK, indVars, pidVars, saveVars, timeVars
  <2>3. HistoryTypeOK'
    BY <1>15, ConstantFacts, WordFacts
    DEF SaveProgram, HistoryTypeOK, UnsavedCap, indVars, pidVars, saveVars, timeVars
  <2>4. SaveInv'
    BY <1>15, ConstantFacts, WordFacts
    DEF SaveProgram, SaveInv, SettingValid, indVars, pidVars, saveVars, timeVars
  <2> QED
    BY <1>15, <2>1, <2>2, <2>3, <2>4, TypeFrame
    DEF TypeInv, TypeOK, SaveProgram, indVars, pidVars, saveVars, timeVars
<1>16. CASE Tick
  <2>1. IndTypeOK'
    BY <1>16
    DEF Tick, IndTypeOK, IndPc, indVars, pidVars, saveVars, timeVars
  <2>2. PidTypeOK'
    BY <1>16
    DEF Tick, PidTypeOK, PidPc, indVars, pidVars, saveVars, timeVars
  <2>3. TimeTypeOK'
    BY <1>16, ConstantFacts, WordFacts
    DEF Tick, TimeTypeOK, SavePc, SaveInv, AllIdle, Running, indVars, pidVars, saveVars, timeVars
  <2>4. HistoryTypeOK'
    BY <1>16, ConstantFacts, WordFacts
    DEF Tick, HistoryTypeOK, Saturate, AgeCap, UnsavedCap, indVars, pidVars, saveVars, timeVars
  <2>5. SaveInv'
    BY <1>16
    DEF Tick, SaveInv, TimeTypeOK, AllIdle, indVars, pidVars, saveVars, timeVars
  <2> QED
    BY <1>16, <2>1, <2>2, <2>3, <2>4, <2>5, TypeFrame
    DEF TypeInv, TypeOK, Tick, indVars, pidVars, saveVars, timeVars
<1>17. CASE Halt
  <2>1. TimeTypeOK'
    BY <1>17
    DEF Halt, TimeTypeOK, indVars, pidVars, saveVars, timeVars
  <2>2. FlagTypeOK'
    BY <1>17, Zenon DEF Halt, FlagTypeOK, pidVars
  <2> QED
    BY <1>17, <2>2, <2>1, TypeFrame
    DEF TypeInv, TypeOK, Halt, indVars, pidVars, saveVars, timeVars
<1>18. CASE HaltedTick
  <2>1. TimeTypeOK'
    BY <1>18, ConstantFacts, WordFacts
    DEF HaltedTick, TimeTypeOK, indVars, pidVars, saveVars, timeVars
  <2>2. HistoryTypeOK'
    BY <1>18, ConstantFacts, WordFacts
    DEF HaltedTick, HistoryTypeOK, Saturate, AgeCap, indVars, pidVars, saveVars, timeVars
  <2> QED
    BY <1>18, <2>1, <2>2, TypeFrame
    DEF TypeInv, TypeOK, HaltedTick, indVars, pidVars, saveVars, timeVars
<1>19. CASE WatchdogReset \/ PowerCycle
  BY <1>19, RestartFacts, TypeRestart DEF SharedTypeOK
<1>20. CASE UNCHANGED vars
  BY <1>20, TypeFrame DEF TypeInv, TypeOK, vars, indVars, pidVars, saveVars, timeVars
<1> QED
  BY <1>1, <1>2, <1>3, <1>4, <1>5, <1>6, <1>7, <1>8, <1>9, <1>10, <1>11, <1>12, <1>13, <1>14, <1>15, <1>16, <1>17, <1>18, <1>19, <1>20
  DEF Next, vIndDataOutTask, vPID_Task, vSaveDataTask, Fault

\* Every variable keeps its type: see TypeOK.
THEOREM TypeCorrect == Spec => []TypeOK
<1>1. Spec => []TypeInv
  BY TypeInit, TypeStep, PTL DEF Spec
<1> QED
  BY <1>1, PTL DEF TypeInv

-----------------------------------------------------------------------------
(***************************************************************************)
(* The other parts of the invariant.                                       *)
(***************************************************************************)
LEMMA DriveStep == TypeInv /\ DriveInv /\ [Next]_vars => DriveInv'
<1> SUFFICES ASSUME TypeInv, DriveInv, [Next]_vars PROVE DriveInv'
  OBVIOUS
<1>0. /\ PidTypeOK /\ TimeTypeOK /\ FlagTypeOK /\ SharedTypeOK /\ HistoryTypeOK
      /\ IndTypeOK /\ SettingValid /\ SaveInv
  BY DEF TypeInv, TypeOK
<1>1. ASSUME NEW sample \in Samples, PidSample(sample) PROVE DriveInv'
  BY <1>0, <1>1, ConstantFacts
  DEF PidSample, DriveInv, indVars, pidVars, saveVars, timeVars, BadSampleNoHeat, HistoryTypeOK, TimeTypeOK, PidTypeOK, Running
<1>2. CASE PidCheck
  BY <1>0, <1>2
  DEF PidCheck, DriveInv, indVars, pidVars, saveVars, timeVars, BadSampleNoHeat
<1>3. CASE PidDrive
  BY <1>0, <1>3, ConstantFacts
  DEF PidDrive, DriveInv, indVars, pidVars, saveVars, timeVars, BadSampleNoHeat, Duty, HistoryTypeOK, TimeTypeOK, Running
<1>4. CASE PidCount
  BY <1>0, <1>4
  DEF PidCount, DriveInv, indVars, pidVars, saveVars, timeVars, BadSampleNoHeat
<1>5. CASE PidStore
  BY <1>0, <1>5, ConstantFacts
  DEF PidStore, DriveInv, indVars, pidVars, saveVars, timeVars, BadSampleNoHeat, HistoryTypeOK, Running
<1>6. CASE Tick
  BY <1>0, <1>6, ConstantFacts
  DEF Tick, DriveInv, indVars, pidVars, saveVars, timeVars, BadSampleNoHeat, Saturate, AllIdle, AgeCap, HistoryTypeOK, TimeTypeOK, Running
<1>7. CASE Halt
  BY <1>0, <1>7
  DEF Halt, DriveInv, indVars, pidVars, saveVars, timeVars, BadSampleNoHeat
<1>8. CASE HaltedTick
  BY <1>0, <1>8, ConstantFacts
  DEF HaltedTick, DriveInv, indVars, pidVars, saveVars, timeVars, BadSampleNoHeat, Saturate, AgeCap, HistoryTypeOK, TimeTypeOK
<1>9. CASE UNCHANGED <<pid, temp_cur_val, halted, age, pwm, wdg>>
  BY <1>9, Zenon DEF DriveInv, BadSampleNoHeat
<1>10. CASE WatchdogReset \/ PowerCycle
  <2>1. PICK word \in HalfWords : Restart(word)
    BY <1>0, <1>10, RestartFacts DEF SharedTypeOK
  <2> QED
    BY <1>0, <2>1, ConstantFacts DEF Restart, DriveInv, BadSampleNoHeat
<1> QED
  BY <1>1, <1>2, <1>3, <1>4, <1>5, <1>6, <1>7, <1>8, <1>9, <1>10, Zenon
  DEF Next, vIndDataOutTask, vPID_Task, vSaveDataTask, Fault, vars, indVars, pidVars, saveVars, timeVars,
      ButtonGive, IndTake, IndAdjust, IndNext, IndShowSet, IndShowCheck, IndShowCur, SaveCompare, SaveErase, SaveProgram

\* The switch-off counter and the regulator's copy of it cover the quiet periods.
LEMMA CounterStep == TypeInv /\ CounterInv /\ [Next]_vars => CounterInv'
<1> SUFFICES ASSUME TypeInv, CounterInv, [Next]_vars PROVE CounterInv'
  OBVIOUS
<1>0. /\ PidTypeOK /\ TimeTypeOK /\ FlagTypeOK /\ SharedTypeOK /\ HistoryTypeOK
      /\ IndTypeOK /\ SettingValid /\ SaveInv
  BY DEF TypeInv, TypeOK
<1>1. CASE IndTake
  BY <1>0, <1>1, ConstantFacts
  DEF IndTake, CounterInv, indVars, pidVars, saveVars, timeVars, SharedTypeOK, HistoryTypeOK, PidTypeOK
<1>2. ASSUME NEW sample \in Samples, PidSample(sample) PROVE CounterInv'
  BY <1>0, <1>2
  DEF PidSample, CounterInv, indVars, pidVars, saveVars, timeVars
<1>3. CASE PidCheck
  <2>1. /\ work_cnt > HEATER_OFF_TIME => pid_off'
        /\ ~(work_cnt > HEATER_OFF_TIME) => ~pid_off'
    BY <1>3, Zenon DEF PidCheck
  <2>2. /\ pid = "check" /\ pid' = "drive"
        /\ quiet' = quiet /\ work_cnt' = work_cnt
    BY <1>3, Zenon DEF PidCheck
  <2>3. /\ quiet <= work_cnt /\ work_cnt <= HEATER_OFF_TIME + 2
        /\ quiet > HEATER_OFF_TIME => work_cnt > HEATER_OFF_TIME
        /\ ~(work_cnt > HEATER_OFF_TIME) => work_cnt <= HEATER_OFF_TIME
    BY <1>0, ConstantFacts DEF CounterInv, SharedTypeOK, HistoryTypeOK, QuietCap
  <2>4. pid' # "count" /\ pid' # "store"
    BY <2>2
  <2>5. quiet' <= work_cnt' /\ work_cnt' <= HEATER_OFF_TIME + 2
    BY <2>2, <2>3, Zenon
  <2>6. quiet' > HEATER_OFF_TIME => pid_off'
    BY <2>1, <2>2, <2>3, Zenon
  <2>7. ~pid_off' => work_cnt' <= HEATER_OFF_TIME
    BY <2>1, <2>2, <2>3, Zenon
  <2> QED
    BY <2>4, <2>5, <2>6, <2>7, Zenon DEF CounterInv
<1>4. CASE PidDrive
  BY <1>0, <1>4, ConstantFacts
  DEF PidDrive, CounterInv, indVars, pidVars, saveVars, timeVars, SharedTypeOK, HistoryTypeOK, QuietCap
<1>5. CASE PidCount
  BY <1>0, <1>5, ConstantFacts
  DEF PidCount, CounterInv, indVars, pidVars, saveVars, timeVars, SharedTypeOK, HistoryTypeOK
<1>6. CASE PidStore
  BY <1>0, <1>6, ConstantFacts, WordFacts
  DEF PidStore, CounterInv, indVars, pidVars, saveVars, timeVars, SharedTypeOK, PidTypeOK, HistoryTypeOK, Saturate, QuietCap
<1>7. CASE Tick
  BY <1>0, <1>7
  DEF Tick, CounterInv, indVars, pidVars, saveVars, timeVars, AllIdle
<1>8. CASE UNCHANGED <<pid, pid_off, pid_r, work_cnt, quiet>>
  BY <1>8, Zenon DEF CounterInv
<1>9. CASE WatchdogReset \/ PowerCycle
  <2>1. PICK word \in HalfWords : Restart(word)
    BY <1>0, <1>9, RestartFacts DEF SharedTypeOK
  <2> QED
    BY <1>0, <2>1, ConstantFacts DEF Restart, CounterInv
<1> QED
  BY <1>1, <1>2, <1>3, <1>4, <1>5, <1>6, <1>7, <1>8, <1>9, Zenon
  DEF Next, vIndDataOutTask, vPID_Task, vSaveDataTask, Fault, vars, indVars, pidVars, saveVars, timeVars,
      ButtonGive, IndAdjust, IndNext, IndShowSet, IndShowCheck, IndShowCur, SaveCompare, SaveErase, SaveProgram, Halt, HaltedTick

\* The time a setpoint is unsaved and the save task's timer add up.
LEMMA UnsavedStep == TypeInv /\ UnsavedInv /\ [Next]_vars => UnsavedInv'
<1> SUFFICES ASSUME TypeInv, UnsavedInv, [Next]_vars PROVE UnsavedInv'
  OBVIOUS
<1>0. /\ PidTypeOK /\ TimeTypeOK /\ FlagTypeOK /\ SharedTypeOK /\ HistoryTypeOK
      /\ IndTypeOK /\ SettingValid /\ SaveInv
  BY DEF TypeInv, TypeOK
<1>1. CASE IndAdjust
  <2>1. /\ unsaved' \in {0, unsaved} /\ (flash = temp_set_val' => unsaved' = 0)
        /\ flash' = flash /\ save' = save /\ saveIn' = saveIn
    BY <1>1 DEF IndAdjust, saveVars, timeVars
  <2>2. /\ 0 <= SavePeriod /\ 0 + saveIn <= SavePeriod
    BY <1>0, ConstantFacts DEF TimeTypeOK
  <2>3. CASE unsaved' = 0
    BY <2>1, <2>2, <2>3 DEF UnsavedInv
  <2>4. CASE unsaved' = unsaved
    BY <2>1, <2>4, Zenon DEF UnsavedInv
  <2> QED
    BY <2>1, <2>3, <2>4
<1>2. CASE SaveCompare
  BY <1>0, <1>2, ConstantFacts
  DEF SaveCompare, UnsavedInv, indVars, pidVars, saveVars, timeVars, HistoryTypeOK, TimeTypeOK, SaveInv
<1>3. CASE SaveErase
  BY <1>0, <1>3, DialledFacts
  DEF SaveErase, UnsavedInv, indVars, pidVars, saveVars, timeVars, SettingValid, HistoryTypeOK
<1>4. CASE SaveProgram
  BY <1>0, <1>4, ConstantFacts
  DEF SaveProgram, UnsavedInv, indVars, pidVars, saveVars, timeVars
<1>5. CASE Tick
  BY <1>0, <1>5, ConstantFacts
  DEF Tick, UnsavedInv, indVars, pidVars, saveVars, timeVars, Saturate, UnsavedCap, AllIdle, HistoryTypeOK, TimeTypeOK, SaveInv
<1>6. CASE UNCHANGED <<flash, temp_set_val, unsaved, save, saveIn>>
  BY <1>6, Zenon DEF UnsavedInv
<1>7. CASE WatchdogReset \/ PowerCycle
  <2>1. PICK word \in HalfWords : Restart(word)
    BY <1>0, <1>7, RestartFacts DEF SharedTypeOK
  <2> QED
    BY <1>0, <2>1, ConstantFacts DEF Restart, UnsavedInv
<1> QED
  BY <1>1, <1>2, <1>3, <1>4, <1>5, <1>6, <1>7, Zenon
  DEF Next, vIndDataOutTask, vPID_Task, vSaveDataTask, Fault, vars, indVars, pidVars, saveVars, timeVars,
      ButtonGive, IndTake, IndNext, IndShowSet, IndShowCheck, IndShowCur, PidSample, PidCheck, PidDrive, PidCount, PidStore, Halt, HaltedTick

\* The countdown, and what the display shows between two samples.
LEMMA DisplayStep == TypeInv /\ DriveInv /\ DisplayInv /\ [Next]_vars => DisplayInv'
<1> SUFFICES ASSUME TypeInv, DriveInv, DisplayInv, [Next]_vars PROVE DisplayInv'
  OBVIOUS
<1>0. /\ PidTypeOK /\ TimeTypeOK /\ FlagTypeOK /\ SharedTypeOK /\ HistoryTypeOK
      /\ IndTypeOK /\ SettingValid /\ SaveInv
  BY DEF TypeInv, TypeOK
<1>1. CASE IndTake
  BY <1>0, <1>1, ConstantFacts
  DEF IndTake, DisplayInv, indVars, pidVars, saveVars, timeVars, CountdownRuns
<1>2. CASE IndAdjust
  BY <1>0, <1>2
  DEF IndAdjust, DisplayInv, indVars, pidVars, saveVars, timeVars, CountdownRuns
<1>3. CASE IndNext
  BY <1>0, <1>3
  DEF IndNext, DisplayInv, indVars, pidVars, saveVars, timeVars, CountdownRuns
<1>4. CASE IndShowSet
  BY <1>0, <1>4, ConstantFacts, WordFacts
  DEF IndShowSet, DisplayInv, indVars, pidVars, saveVars, timeVars, CountdownRuns, SetPointShown, IndTypeOK
<1>5. CASE IndShowCheck
  BY <1>0, <1>5
  DEF IndShowCheck, DisplayInv, indVars, pidVars, saveVars, timeVars, CountdownRuns, Error
<1>6. CASE IndShowCur
  BY <1>0, <1>6
  DEF IndShowCur, DisplayInv, indVars, pidVars, saveVars, timeVars, CountdownRuns, HistoryTypeOK, Reading
<1>7. ASSUME NEW sample \in Samples, PidSample(sample) PROVE DisplayInv'
  BY <1>0, <1>7, ConstantFacts
  DEF PidSample, DisplayInv, indVars, pidVars, saveVars, timeVars, CountdownRuns, IndTypeOK
<1>8. CASE PidCheck
  BY <1>0, <1>8
  DEF PidCheck, DisplayInv, indVars, pidVars, saveVars, timeVars, CountdownRuns
<1>9. CASE PidDrive
  BY <1>0, <1>9
  DEF PidDrive, DisplayInv, indVars, pidVars, saveVars, timeVars, CountdownRuns
<1>10. CASE PidCount
  BY <1>0, <1>10
  DEF PidCount, DisplayInv, indVars, pidVars, saveVars, timeVars, CountdownRuns
<1>11. CASE PidStore
  BY <1>0, <1>11
  DEF PidStore, DisplayInv, indVars, pidVars, saveVars, timeVars, CountdownRuns, Running, DriveInv
<1>12. CASE Tick
  BY <1>0, <1>12
  DEF Tick, DisplayInv, indVars, pidVars, saveVars, timeVars, CountdownRuns, AllIdle
<1>13. CASE Halt
  BY <1>0, <1>13
  DEF Halt, DisplayInv, indVars, pidVars, saveVars, timeVars, CountdownRuns
<1>14. CASE HaltedTick
  BY <1>0, <1>14
  DEF HaltedTick, DisplayInv, indVars, pidVars, saveVars, timeVars, CountdownRuns
<1>15. CASE UNCHANGED <<ind, age, temp_cur_val, halted, pid, cur_displ, shown, scnt>>
  BY <1>15, Zenon DEF DisplayInv, CountdownRuns
<1>16. CASE WatchdogReset \/ PowerCycle
  <2>1. PICK word \in HalfWords : Restart(word)
    BY <1>0, <1>16, RestartFacts DEF SharedTypeOK
  <2> QED
    BY <1>0, <2>1, ConstantFacts DEF Restart, DisplayInv, CountdownRuns, PowerOn
<1> QED
  BY <1>1, <1>2, <1>3, <1>4, <1>5, <1>6, <1>7, <1>8, <1>9, <1>10, <1>11, <1>12, <1>13, <1>14, <1>15, <1>16, Zenon
  DEF Next, vIndDataOutTask, vPID_Task, vSaveDataTask, Fault, vars, indVars, pidVars, saveVars, timeVars,
      ButtonGive, SaveCompare, SaveErase, SaveProgram

\* The other parts hold when the power comes on.
LEMMA OtherInit == Init /\ TypeInv => DriveInv /\ CounterInv /\ UnsavedInv /\ DisplayInv
<1> SUFFICES ASSUME Init PROVE DriveInv /\ CounterInv /\ UnsavedInv /\ DisplayInv
  OBVIOUS
<1>1. DriveInv
  BY ConstantFacts DEF Init, DriveInv, BadSampleNoHeat
<1>2. CounterInv
  BY ConstantFacts DEF Init, CounterInv
<1>3. UnsavedInv
  BY ConstantFacts DEF Init, UnsavedInv
<1>4. DisplayInv
  BY ConstantFacts DEF Init, DisplayInv, CountdownRuns, PowerOn
<1> QED
  BY <1>1, <1>2, <1>3, <1>4

\* The inductive invariant holds in every reachable state: its parts relate the
\* tasks of main.c at every point where one can interrupt another.
THEOREM Invariance == Spec => []IInv
<1>1. Init => IInv
  BY TypeInit, OtherInit DEF IInv
<1>2. IInv /\ [Next]_vars => IInv'
  BY TypeStep, DriveStep, CounterStep, UnsavedStep, DisplayStep DEF IInv
<1> QED
  BY <1>1, <1>2, PTL DEF Spec

-----------------------------------------------------------------------------
(***************************************************************************)
(* The properties.                                                         *)
(***************************************************************************)

\* No sequence of key presses, saves, power cuts and restarts leaves the
\* setpoint off the grid that starts at MIN_TEMPERATURE or at the torn word that
\* was restored last, whatever half words may be left torn.
THEOREM SettingAlwaysValid == Spec => []SettingValid
<1>1. IInv => SettingValid
  BY DEF IInv, TypeInv
<1> QED
  BY <1>1, Invariance, PTL

\* Nothing but an accepted torn word off the grid does harm: if every torn word
\* is above MAX_TEMPERATURE, which periphery_init tests, or a setting, the
\* setpoint is always a setting, and so is the flash whenever the save task
\* sleeps.
THEOREM SettingsUnlessTorn ==
  ASSUME \A v \in TornValues : v > MAX_TEMPERATURE \/ v \in Settings
  PROVE  Spec => [](temp_set_val \in Settings /\ (save = "idle" => flash \in Settings))
<1>1. ASSUME NEW o \in Settings PROVE Dialled(o) = Settings
  <2>1. /\ o \in Nat /\ o >= MIN_TEMPERATURE /\ (o - MIN_TEMPERATURE) % 5 = 0
    BY LimitFacts DEF Settings, TemperatureStep
  <2>2. ASSUME NEW v \in Nat
        PROVE  (v - o) % 5 = 0 <=> (v - MIN_TEMPERATURE) % 5 = 0
    BY <2>1, LimitFacts, SMT
  <2>3. ASSUME NEW v \in Nat, (v - o) % 5 = 0, v >= o
        PROVE  v > MIN_TEMPERATURE - 5
    BY <2>1, <2>3, LimitFacts, SMT
  <2>4. Dialled(o) = Dialled(MIN_TEMPERATURE)
    BY <2>1, <2>2, <2>3, LimitFacts DEF Dialled, TemperatureStep
  <2> QED
    BY <2>4, SettingsFacts
<1>2. IInv => temp_set_val \in Settings /\ (save = "idle" => flash \in Settings)
  <2> SUFFICES ASSUME IInv
               PROVE  temp_set_val \in Settings /\ (save = "idle" => flash \in Settings)
    OBVIOUS
  <2>1. /\ temp_set_val \in Dialled(origin)
        /\ save = "idle" => flash \in Dialled(origin)
        /\ origin = MIN_TEMPERATURE \/ origin \in TornValues
        /\ origin <= MAX_TEMPERATURE /\ origin \in HalfWords
    BY DEF IInv, TypeInv, TypeOK, HistoryTypeOK, SettingValid, SaveInv
  <2>2. origin = MIN_TEMPERATURE \/ origin \in Settings
    BY <2>1, LimitFacts
  <2>3. Dialled(origin) = Settings
    BY <1>1, <2>2, SettingsFacts, Zenon
  <2> QED
    BY <2>1, <2>3
<1> QED
  BY <1>2, Invariance, PTL

\* A broken thermocouple or an overheating sample leaves the heater off.
THEOREM BadSampleNeverHeats == Spec => []BadSampleNoHeat
<1>1. IInv => BadSampleNoHeat
  BY DEF IInv, DriveInv
<1> QED
  BY <1>1, Invariance, PTL

\* The heater is never on for a sample older than the watchdog period: the
\* watchdog's count and the age of the sample add up to at most that.
THEOREM StaleDriveIsBounded == Spec => []StaleDriveBounded
<1>1. IInv => StaleDriveBounded
  BY ConstantFacts
  DEF IInv, TypeInv, TypeOK, DriveInv, StaleDriveBounded, TimeTypeOK, HistoryTypeOK,
      AgeCap
<1> QED
  BY <1>1, Invariance, PTL

\* The flash is without a setpoint that can be resumed only while a save is
\* under way, whatever half words may be left torn.
THEOREM ErasedOnlyDuringSave == Spec => []ErasedOnlyWhileSaving
<1>1. IInv => ErasedOnlyWhileSaving
  BY DEF IInv, TypeInv, SaveInv, ErasedOnlyWhileSaving
<1> QED
  BY <1>1, Invariance, PTL

\* A power cut loses no setpoint older than one save period.
THEOREM UnsavedIsBounded == Spec => []UnsavedBounded
<1>1. IInv => UnsavedBounded
  BY DEF IInv, UnsavedInv, UnsavedBounded
<1> QED
  BY <1>1, Invariance, PTL

\* The countdown of the setpoint display never wraps.
THEOREM CountdownNeverWraps == Spec => []CountdownRuns
<1>1. IInv => CountdownRuns
  BY DEF IInv, DisplayInv
<1> QED
  BY <1>1, Invariance, PTL

\* One slot after a sample the display has caught up with it.
THEOREM DisplayIsFresh == Spec => []DisplayFresh
<1>1. IInv => DisplayFresh
  BY DEF IInv, DisplayInv, DisplayFresh
<1> QED
  BY <1>1, Invariance, PTL

\* The switch-off is never late, whatever the interleaving of work_cnt++ with
\* the resets.
THEOREM CutoffIsNeverLate == Spec => CutoffNotLate
<1>1. IInv /\ [Next]_vars
        => [PidDrive /\ quiet > HEATER_OFF_TIME
              => pidData' = PidUpdate(pidData, 0, temp_cur_val)]_vars
  BY DEF IInv, CounterInv, PidDrive
<1> QED
  BY <1>1, Invariance, PTL DEF Spec, CutoffNotLate

-----------------------------------------------------------------------------
(***************************************************************************)
(* The refinement of Thermostat.                                           *)
(***************************************************************************)

\* The thermostat recalls what periphery_init restores.
LEMMA RecalledFacts ==
  ASSUME NEW word
  PROVE  Abstract!Recalled(word) = Restored(word)
  BY DEF Restored, Abstract!Recalled

\* Init implements the thermostat's, and every step one of its steps or none.
THEOREM Implementation == Spec => ImplementsThermostat
<1>1. Init => Abstract!Init
  BY RecalledFacts DEF Init, Abstract!Init, pid_Init
<1>2. IInv /\ [Next]_vars => [Abstract!Next]_(Abstract!thermostatVars)
  <2> SUFFICES ASSUME IInv, [Next]_vars
               PROVE  Abstract!Next \/ UNCHANGED <<temp_set_val, pidData, pwm, flash>>
    BY DEF Abstract!thermostatVars
  <2>0. /\ PidTypeOK /\ SharedTypeOK /\ IndTypeOK /\ HistoryTypeOK
        /\ SettingValid /\ SaveInv /\ DriveInv
    BY DEF IInv, TypeInv, TypeOK
  <2>1. CASE IndAdjust
    <3>1. /\ \/ temp_set_val' = temp_set_val
             \/ temp_set_val < MAX_TEMPERATURE
                /\ temp_set_val' = temp_set_val + TemperatureStep
             \/ temp_set_val > MIN_TEMPERATURE
                /\ temp_set_val' = temp_set_val - TemperatureStep
          /\ UNCHANGED <<pidData, pwm, flash>>
      BY <2>0, <2>1, AdjustedFacts
      DEF IndAdjust, pidVars, saveVars, SettingValid, IndTypeOK, HistoryTypeOK
    <3> QED
      BY <3>1 DEF Abstract!Next, Abstract!Adjust
  <2>2. CASE PidDrive
    <3>1. PICK setPoint \in Nat :
            /\ pidData' = PidUpdate(pidData, setPoint, temp_cur_val)
            /\ pwm' = Duty(PidOutput(pidData, setPoint, temp_cur_val), temp_cur_val)
      BY <2>0, <2>2, LimitFacts DEF PidDrive, SharedTypeOK
    <3>2. /\ temp_cur_val \in Samples /\ temp_cur_val \in Nat /\ pidData \in PidData
      BY <2>0, <2>2, ConstantFacts DEF PidDrive, DriveInv, PidTypeOK
    <3>3. PidOutput(pidData, setPoint, temp_cur_val) \in 0 .. MAX_OUT
      BY <3>2, PidInRange
    <3>4. pidData'.lastProcessValue = temp_cur_val
      BY <3>1 DEF PidUpdate
    <3>5. UNCHANGED <<temp_set_val, flash>>
      BY <2>2 DEF PidDrive, saveVars
    <3>6. pwm' \in IF temp_cur_val \in {t \in Samples : Bad(t)} THEN {0} ELSE 0 .. MAX_OUT
      BY <3>1, <3>2, <3>3 DEF Duty
    <3> QED
      BY <3>2, <3>4, <3>5, <3>6 DEF Abstract!Next, Abstract!Regulate
  <2>3. CASE SaveErase
    BY <2>3 DEF SaveErase, pidVars, Abstract!Next, Abstract!Erase
  <2>4. CASE SaveProgram
    BY <2>0, <2>4 DEF SaveProgram, pidVars, SaveInv, Abstract!Next, Abstract!Write
  <2>5. CASE WatchdogReset \/ PowerCycle
    <3>1. PICK word \in HalfWords : Restart(word) /\ word \in {flash} \union TornValues
      BY <2>0, <2>5, RestartFacts DEF SharedTypeOK
    <3> QED
      BY <3>1, RecalledFacts DEF Restart, pid_Init, Abstract!Next, Abstract!Restart
  <2>6. CASE UNCHANGED <<temp_set_val, pidData, pwm, flash>>
    BY <2>6
  <2> QED
    BY <2>1, <2>2, <2>3, <2>4, <2>5, <2>6, Zenon
    DEF Next, vIndDataOutTask, vPID_Task, vSaveDataTask, Fault, vars,
        indVars, pidVars, saveVars, timeVars, ButtonGive, IndTake, IndNext, IndShowSet,
        IndShowCheck, IndShowCur, PidSample, PidCheck, PidCount, PidStore, SaveCompare,
        Tick, Halt, HaltedTick
<1> QED
  BY <1>1, <1>2, Invariance, PTL DEF Spec, ImplementsThermostat, Abstract!Spec
=============================================================================
