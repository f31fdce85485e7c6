------------------------------ MODULE MCSpiBus ------------------------------
(***************************************************************************)
(* Small instances of SpiBus, with the display and the FIFO of the device: *)
(* three positions, two words.                                             *)
(***************************************************************************)
EXTENDS SpiBusInvariants

\* No thermocouple; 215 degrees.
TwoWords == {4, 6880}

\* The error sign and the 245 of the power-on: they differ at every position and
\* are written in opposite orders.
TwoNumbers == {0, 245}
=============================================================================
