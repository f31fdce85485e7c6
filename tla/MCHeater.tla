------------------------------ MODULE MCHeater ------------------------------
(***************************************************************************)
(* Small instances of Heater.  Temperatures keep their scale and their     *)
(* step of five; times are scaled down with the order of the periods kept: *)
(* two slots to a regulator period, the watchdog between one and three of  *)
(* those, and a switch-off time after a few.                               *)
(***************************************************************************)
EXTENDS HeaterInvariants

NoFaults  == {}
HaltOnly  == {"halt"}
PowerOnly == {"power"}
AllFaults == {"power", "halt"}

\* No thermocouple, cold, overheated.
ThreeSamples == {0, 20, 120}
TwoSamples   == {0, 20}

\* The plant stays where it is, however the heater is driven.
OneSample == {150}

\* A torn word that a restart refuses, and one that it accepts: 51 is 50 with
\* one more bit set, and lies between two settings.
TwoTornValues == {51, 62000}

\* 63 has the bits of 50 and those of 55, and others that were not yet cleared.
AcceptedTornValue == {63}
NoTornValues  == {}
=============================================================================
