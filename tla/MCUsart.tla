------------------------------ MODULE MCUsart ------------------------------
(***************************************************************************)
(* Two rings of two bytes, and strings that are empty, fill a ring and are *)
(* one byte longer than it.                                                *)
(***************************************************************************)
EXTENDS Usart
CONSTANTS zero, one

MCByte == {zero, one}
MCStrings == {<<>>, <<zero, one>>, <<one, zero, zero>>}
=============================================================================
