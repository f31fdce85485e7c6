------------------------------ MODULE MCModbus ------------------------------
(***************************************************************************)
(* Three frames: a write that is answered by its echo, a read (of 258      *)
(* registers, taken for 2), a write to all slaves and one to another.      *)
(***************************************************************************)
EXTENDS Modbus

AskOf(to, fn, addr, count) ==
    [to |-> to, fn |-> fn, fits |-> TRUE, addr |-> addr, count |-> count]

Write == AskOf("us", "WRITE", 0, 1)
Read == AskOf("us", "READ_HOLDING", 0, 258)

MCRequests ==
    <<{Write, AskOf("other", "WRITE", 1, 1)},
      {Write, Read, AskOf("all", "WRITE_MULTIPLE", 0, 2)},
      {Write, Read}>>
=============================================================================
