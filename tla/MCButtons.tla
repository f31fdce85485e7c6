----------------------------- MODULE MCButtons -----------------------------
(***************************************************************************)
(* Buttons with the debouncing, the semaphores' limit and the display      *)
(* task's period of the source; the repetition is scaled down, and a hold  *)
(* lasts long enough for it to repeat three times.                         *)
(***************************************************************************)
EXTENDS Buttons
=============================================================================
