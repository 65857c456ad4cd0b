------------------------------ MODULE MCPanel ------------------------------
(***************************************************************************)
(* Instances of Panel for TLC.  The two words tell every case apart: 0     *)
(* (not drawn over another word; a gear) and 515 (not a gear, and more     *)
(* than seven bits).  A change of {4, 5, 6, 7} is what the first scan      *)
(* reports: the row pins of the button matrix, no button.  Numbers of      *)
(* several lengths are in MCDisplay.                                       *)
(***************************************************************************)
EXTENDS Panel

\* A type of each rotating row, the gear and the LEDs, every press.
RowWords   == {0, 515}
RowEntries == {TYPE_SPEED, TYPE_FUEL_NEED, TYPE_GEAR, TYPE_SHIFTLEDS}
RowChanges == {{}, {TopButton}, {SecondButton}, {TopButton, SecondButton}, {4, 5, 6, 7}}

\* A number and a time: the refinement and the fairness.
FewWords   == {0, 515}
FewEntries == {TYPE_RPM, TYPE_LAPTIME}
FewChanges == {{}, {TopButton}, {SecondButton}}
============================================================================
