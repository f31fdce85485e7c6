------------------------------ MODULE MCKernel ------------------------------
(***************************************************************************)
(* A counter of four values: a task of high priority that is periodic or   *)
(* waits, one that is periodic, one of the same priority that sleeps, and  *)
(* the idle task.  Every kind of time to wake comes to overflow.           *)
(***************************************************************************)
EXTENDS Kernel
CONSTANTS refresh, sample, save, idle

MCTask == {refresh, sample, save, idle}
MCPriority ==
    [t \in MCTask |-> CASE t = refresh -> 2 [] t = idle -> 0 [] OTHER -> 1]
MCUntil == [t \in MCTask |-> CASE t = refresh -> {2}
                              [] t = sample -> {Wrap - 1} [] OTHER -> {}]
MCFor == [t \in MCTask |-> IF t = save THEN {2} ELSE {}]
MCWaits == [t \in MCTask |-> IF t = refresh THEN {Wrap - 1} ELSE {}]
=============================================================================
