------------------------------- MODULE MCSlip -------------------------------
(***************************************************************************)
(* Packets with every special code, one empty and one that must be cut.    *)
(***************************************************************************)
EXTENDS Slip

MCPayloads == {<<>>, <<END>>, <<ESC_ESC, "x", ESC>>}
=============================================================================
