---------------------------- MODULE MCInterrupts ----------------------------
(***************************************************************************)
(* Interrupts with the timer, the keyboard, and two lines nobody handles,  *)
(* one of them on the second PIC.                                          *)
(***************************************************************************)
EXTENDS Interrupts

MCIRQs == {0, 1, 7, 12}
=============================================================================
