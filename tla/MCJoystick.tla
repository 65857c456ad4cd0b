---------------------------- MODULE MCJoystick -----------------------------
(***************************************************************************)
(* Instances of Joystick for TLC: two buttons, frame numbers wrapping at 3 *)
(* and bytes of three values, so that an idle count of 3 passes the borrow *)
(* from its high byte on its way to 2, which is no torn zero.              *)
(***************************************************************************)
EXTENDS Joystick

MCButtons == {0, 1}
MCRowPins == 4 .. 7
============================================================================
