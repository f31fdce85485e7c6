--------------------------- MODULE PidController ---------------------------
(***************************************************************************)
(* The integer PID regulator of src/my_libs/pid.c.  A regulator state is a *)
(* record of the two fields of struct PID_DATA that change while it runs;  *)
(* the gains, which pid_Init stores once, are constants here.              *)
(***************************************************************************)
EXTENDS Integers

CONSTANTS P_Factor,         \* proportional gain times SCALING_FACTOR
          I_Factor,         \* integral gain times SCALING_FACTOR
          D_Factor,         \* derivative gain times SCALING_FACTOR
          SCALING_FACTOR,
          MAX_I_TERM,
          MAX_OUT           \* the largest pulse width, 450 in pid.c

ASSUME PidAssumption ==
  /\ P_Factor \in Nat /\ I_Factor \in Nat /\ D_Factor \in Nat
  /\ SCALING_FACTOR \in Nat \ {0}
  /\ MAX_I_TERM \in Nat
  /\ MAX_OUT \in Nat

maxSumError == MAX_I_TERM \div (I_Factor + 1)

pid_Init == [sumError |-> 0, lastProcessValue |-> 0]

PidData == [sumError : 0 .. maxSumError, lastProcessValue : Nat]

\* Integer division as C does it: the quotient is truncated towards zero.
TruncDiv(a, b) == IF a >= 0 THEN a \div b ELSE -((-a) \div b)

Clamp(x, lo, hi) == IF x > hi THEN hi ELSE IF x < lo THEN lo ELSE x

\* The integral after one more error, limited at both ends.
SumAfter(sum, error) == Clamp(sum + error, 0, maxSumError)

\* The integral term: at the upper limit it is MAX_I_TERM and not the product.
ITerm(sum, error) ==
  IF sum + error > maxSumError THEN MAX_I_TERM ELSE I_Factor * SumAfter(sum, error)

\* The sum of the three terms before it is scaled down.
RawOutput(pid, setPoint, processValue) ==
  LET error == setPoint - processValue
  IN  P_Factor * error + ITerm(pid.sumError, error)
        + D_Factor * (pid.lastProcessValue - processValue)

\* Seeded fault: the output without its upper limit.
PidOutput_NoUpperLimit(pid, setPoint, processValue) ==
  LET out == TruncDiv(RawOutput(pid, setPoint, processValue), SCALING_FACTOR)
  IN  IF out < 0 THEN 0 ELSE out

\* What pid_Controller returns ...
PidOutput(pid, setPoint, processValue) ==
  Clamp(TruncDiv(RawOutput(pid, setPoint, processValue), SCALING_FACTOR), 0, MAX_OUT)

\* ... and the state it leaves behind.
PidUpdate(pid, setPoint, processValue) ==
  [sumError         |-> SumAfter(pid.sumError, setPoint - processValue),
   lastProcessValue |-> processValue]
=============================================================================
