----------------------------- MODULE MCSampling -----------------------------
(***************************************************************************)
(* An instance of Sampling for TLC.  Without random input a run of the     *)
(* filter is one long path that ends in a cycle, and TLC follows each to   *)
(* its end.  The sounds are as loud as the converter allows:               *)
(*   a start in silence, then every second reading at the top: the weights *)
(*     reach the upper limit;                                              *)
(*   two channels that are at the top for two readings of three: a weight  *)
(*     gets stuck at the lower limit;                                      *)
(*   a voice without noise, at a quarter of the sampling rate: weights     *)
(*     that fall below the lower limit jump to the top;                    *)
(*   silence in the middle of the range: floors overflow.                  *)
(***************************************************************************)
EXTENDS Sampling

Bottom == <<0, 0>>
Top    == <<4095, 4095>>
Voice  == <<4095, 0>>

MCSounds ==
  {[quiet |-> <<Bottom, <<2, 2>>>>,              loud |-> <<Bottom, Top>>],
   [quiet |-> <<<<2047, 2047>>>>,                loud |-> <<Bottom, Top, Top>>],
   [quiet |-> <<<<2047, 0>>>>,                   loud |-> <<Bottom, Bottom, Voice, Voice>>],
   [quiet |-> <<<<2048, 2049>>, <<2050, 2048>>>>, loud |-> <<Bottom, Top>>]}
=============================================================================
