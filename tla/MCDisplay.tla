----------------------------- MODULE MCDisplay -----------------------------
(***************************************************************************)
(* An instance of Display for TLC: a number of five digits, which crosses  *)
(* from one controller to the other in the left slots and is cut by the    *)
(* edge of the display in the right ones, a number of one digit after it,  *)
(* and a time.  The two buttons, one at a time, take every type through    *)
(* every slot its row has.                                                 *)
(***************************************************************************)
EXTENDS Display

MCWrites  == {<<TYPE_RPM, 31415>>, <<TYPE_RPM, 8>>, <<TYPE_LAPTIME, 520>>}
MCWords   == {w[2] : w \in MCWrites}
MCEntries == {w[1] : w \in MCWrites}
MCChanges == {{}, {TopButton}, {SecondButton}}
============================================================================
