-------------------------- MODULE MCWheelDisplay ---------------------------
(***************************************************************************)
(* Instances of WheelDisplay for TLC: the first button, which rotates the  *)
(* top row, the row pins, and one word the host may write.                 *)
(***************************************************************************)
EXTENDS WheelDisplay

MCButtons == {TopButton}
MCRowPins == 4 .. 7
MCWords   == {515}
MCEntries == {TYPE_SPEED}
============================================================================
