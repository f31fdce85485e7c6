-------------------------- MODULE HeaterInvariants --------------------------
(***************************************************************************)
(* The inductive invariant of Heater, in named parts.  TLC checks it on    *)
(* the small instances; HeaterProofs proves it inductive.                  *)
(***************************************************************************)
EXTENDS Heater

\* The steps of the setpoint start from MIN_TEMPERATURE or an accepted torn word,
\* the flash holds a word that a restart refuses or one that the keys can dial
\* from there, and the save task is timed exactly while it sleeps.
SaveInv ==
  /\ origin = MIN_TEMPERATURE \/ origin \in TornValues
  /\ origin <= MAX_TEMPERATURE
  /\ flash > MAX_TEMPERATURE \/ flash \in Dialled(origin)
  /\ save = "idle" <=> saveIn > 0
  /\ save = "program" => flash = BlankFlash
  /\ save = "idle" => flash \in Dialled(origin)

\* What the regulator has sampled, and what it has made of it.
DriveInv ==
  /\ pid \in {"check", "drive"} => temp_cur_val \in Samples
  /\ pid \in {"check", "drive", "count", "store"} /\ ~halted => age = 0
  /\ BadSampleNoHeat
  /\ pwm > 0 => age + wdg <= WatchdogPeriod

\* The switch-off counter covers the periods since the last key press, in
\* memory and in the regulator's register, and never nears its width.
CounterInv ==
  /\ quiet <= work_cnt
  /\ pid = "store" => quiet <= pid_r
  /\ pid = "drive" /\ quiet > HEATER_OFF_TIME => pid_off
  /\ work_cnt <= HEATER_OFF_TIME + 2
  /\ pid = "drive" /\ ~pid_off => work_cnt <= HEATER_OFF_TIME
  /\ pid = "count" => work_cnt <= HEATER_OFF_TIME + 1
  /\ pid = "store" => pid_r <= HEATER_OFF_TIME + 1

\* An unsaved setpoint leaves room for the rest of the save task's sleep.
UnsavedInv ==
  /\ flash = temp_set_val => unsaved = 0
  /\ save = "idle" => unsaved + saveIn <= SavePeriod
  /\ unsaved <= SavePeriod

\* What the display shows, up to the regulator's next sample.
DisplayInv ==
  /\ CountdownRuns
  /\ ind = "showCur" /\ age >= 1 /\ ~halted => temp_cur_val # 0
  /\ ind = "idle" /\ age >= 1 /\ ~halted /\ pid \in {"idle", "sample"}
       /\ cur_displ = "cur" /\ shown.kind \in {"cur", "err"}
     => shown = IF temp_cur_val = 0 THEN Error ELSE Reading(temp_cur_val)

TypeInv == TypeOK /\ SettingValid /\ SaveInv

\* What makes the properties of Heater inductive: the flash and the save
\* task's timer go together, the age of the sample and the watchdog add up, the
\* counter in memory and in the register covers the quiet periods, an unsaved
\* setpoint has its save ahead, and the display follows the sample.
IInv == TypeInv /\ DriveInv /\ CounterInv /\ UnsavedInv /\ DisplayInv
=============================================================================
