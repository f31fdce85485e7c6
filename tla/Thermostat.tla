----------------------------- MODULE Thermostat -----------------------------
(***************************************************************************)
(* What the heater controller promises, without tasks, timers, registers   *)
(* or regulator: a setpoint that moves by single steps and not beyond the  *)
(* first that reaches a limit, a duty chosen together with the reading it  *)
(* is based on, and a stored setpoint that survives restarts.              *)
(***************************************************************************)
EXTENDS Integers

CONSTANTS Settings,     \* the setpoints that can be dialled and stored
          Step,         \* the distance between two of them
          Lowest,       \* the lower limit, the setpoint when none is stored
          Highest,      \* the upper limit
          Readings,     \* what the sensor may say
          BadReadings,  \* the readings that must switch the heater off
          MaxDuty,
          Nothing,      \* the store after an erasure
          Damaged       \* what else a cut of the power may leave in the store

VARIABLES setpoint, reading, duty, stored

thermostatVars == <<setpoint, reading, duty, stored>>

\* Only a word above the upper limit is known not to be a setpoint.
Recalled(word) == IF word > Highest THEN Lowest ELSE word

Init ==
  /\ stored \in Settings \union {Nothing}
  /\ setpoint = Recalled(stored)
  /\ reading = 0 /\ duty = 0

\* The user moves the setpoint by one step, away from a limit or towards it.
Adjust ==
  /\ \/ setpoint < Highest /\ setpoint' = setpoint + Step
     \/ setpoint > Lowest /\ setpoint' = setpoint - Step
  /\ UNCHANGED <<reading, duty, stored>>

\* A duty is chosen for a new reading.
Regulate ==
  /\ reading' \in Readings
  /\ duty' \in IF reading' \in BadReadings THEN {0} ELSE 0 .. MaxDuty
  /\ UNCHANGED <<setpoint, stored>>

\* The store is erased, and only then written, with the setpoint of the moment.
Erase ==
  /\ stored' = Nothing
  /\ UNCHANGED <<setpoint, reading, duty>>

Write ==
  /\ stored = Nothing
  /\ stored' = setpoint
  /\ UNCHANGED <<setpoint, reading, duty>>

\* The controller starts again, off, from what it has stored.
Restart ==
  /\ stored' \in {stored} \union Damaged
  /\ setpoint' = Recalled(stored')
  /\ reading' = 0 /\ duty' = 0

Next == Adjust \/ Regulate \/ Erase \/ Write \/ Restart

Spec == Init /\ [][Next]_thermostatVars
=============================================================================
