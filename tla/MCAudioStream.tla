--------------------------- MODULE MCAudioStream ---------------------------
(***************************************************************************)
(* An instance of AudioStream for TLC: packets of two samples, bytes of    *)
(* four values with outputs on both sides of a step of the high byte, and  *)
(* 16 ticks a second for a timer of 4 values: of the rates, 5 fits the     *)
(* timer, 3 does not, and 0 divides by zero.                               *)
(***************************************************************************)
EXTENDS AudioStream

MCOutputs == {3, 4}
MCRates   == {0, 3}
============================================================================
