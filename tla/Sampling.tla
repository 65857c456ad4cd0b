------------------------------ MODULE Sampling ------------------------------
(***************************************************************************)
(* From the microphones to audioSample: at start ADCinit averages 16       *)
(* readings of the two channels of the converter to their noise floors,    *)
(* then each pass of the main loop reads both, subtracts the floors and    *)
(* calls the filter (Nlms).  A sound is what the microphones give, during  *)
(* the start and, over and over, after it.                                 *)
(***************************************************************************)
EXTENDS Nlms, Sequences

CONSTANTS
  Sounds    \* records of two sequences of readings <<voice, noise>>

Readings == 0 .. 4095                 \* ADCGetValue: 12 bits
Channels == 1 .. 2
Signals  == Seq(Readings \X Readings) \ {<<>>}

ASSUME SoundsAssumption == Sounds \subseteq [quiet : Signals, loud : Signals]

VARIABLES
  sound,
  wide,         \* how the build computes w[i] - leak
  phase,        \* where the sound is
  reads,        \* iterations of ADCinit that are done
  noisefloor,
  audioSample

adcVars == <<sound, wide, phase, reads, noisefloor, audioSample>>
vars == <<filterVars, adcVars>>

Warmup == 16    \* 1 << 4

TypeOK ==
  /\ sound \in Sounds /\ wide \in BOOLEAN /\ phase \in Nat \ {0} /\ reads \in 0 .. Warmup
  /\ noisefloor \in [Channels -> Int16s]
  /\ audioSample \in Int16s
  /\ x \in [Taps -> Int16s] /\ n \in [Taps -> Int16s] /\ w \in [Taps -> Int16s]
  /\ p \in Int16s /\ leak \in Int16s

SamplingInit ==
  /\ sound \in Sounds /\ wide \in BOOLEAN /\ phase = 1 /\ reads = 0
  /\ noisefloor = [c \in Channels |-> 0]
  /\ audioSample = 0
  /\ Init

\* To the next reading of a signal.
Advance(signal) == phase' = IF phase = Len(signal) THEN 1 ELSE phase + 1

\* Mutant: half of the readings are counted.
AveragedTwice(sum) == sum \div 8

\* noisefloor >>= 4
Averaged(sum) == sum \div Warmup

\* An iteration of ADCinit and, after the last one, the average.
ReadFloor ==
  /\ reads < Warmup
  /\ reads' = reads + 1
  /\ IF reads' < Warmup THEN Advance(sound.quiet) ELSE phase' = 1
  /\ LET sum(c) == Int16(noisefloor[c] + sound.quiet[phase][c])
     IN  noisefloor' = [c \in Channels |-> IF reads' = Warmup THEN Averaged(sum(c)) ELSE sum(c)]
  /\ UNCHANGED <<filterVars, sound, wide, audioSample>>

\* The last line of the main loop.
Sample ==
  /\ reads = Warmup
  /\ Advance(sound.loud)
  /\ LET level(c) == Int16(sound.loud[phase][c] - noisefloor[c])
     IN  /\ Nlms(level(1), level(2), wide)
         /\ audioSample' = Error(level(1), level(2))
  /\ UNCHANGED <<sound, wide, reads, noisefloor>>

Next == ReadFloor \/ Sample

Spec == SamplingInit /\ [][Next]_vars

----------------------------------------------------------------------------
\* "average samples" (mcp3204.c:20): a channel's floor lies between its least and
\* its greatest reading.  The sum of 16 readings is kept in 16 bits with a sign.
FloorIsAverage ==
  reads = Warmup =>
    \A c \in Channels, i, j \in DOMAIN sound.quiet :
      (\A k \in DOMAIN sound.quiet : sound.quiet[k][c] \in sound.quiet[i][c] .. sound.quiet[j][c])
        => noisefloor[c] \in sound.quiet[i][c] .. sound.quiet[j][c]

\* The middle of the converter's range, where the sum of 16 readings overflows.
Middle == 2048

\* It does as long as the channel stays below the middle of the range
\* (mcp3204.c:14-22), and never does at or above it: then the floor is negative.
FloorBelowMiddle ==
  reads = Warmup =>
    \A c \in Channels, i, j \in DOMAIN sound.quiet :
      (\A k \in DOMAIN sound.quiet : sound.quiet[k][c] \in sound.quiet[i][c] .. sound.quiet[j][c])
        => /\ sound.quiet[j][c] < Middle  => noisefloor[c] \in sound.quiet[i][c] .. sound.quiet[j][c]
           /\ sound.quiet[i][c] >= Middle => noisefloor[c] < 0

\* The filter's step is a quotient by the power estimate (nlms.c:34-39), which decays
\* in every call.  It never comes near zero, in the longest silence, because rounding
\* holds it up: no division by zero, and a step that fits its 16 bits.
DivisorPositive == Divisor(x[0], p) >= 24

\* What the filter adds to the voice is never cut to its low 16 bits (nlms.c:47),
\* whatever the weights have become, as long as the noise floors are averages: the
\* sum of seven products may be as large as seven noise samples.
OutputExact ==
  [][Sample /\ (\A c \in Channels : noisefloor[c] >= 0)
       => audioSample' = x'[0] - Estimate(w, n')]_vars

\* The limits of the weights (nlms.c:54-61).  In one call a weight moves by no more than
\* the leak and the voice sample, unless it wraps round.  It falls from the top only in a
\* build whose w[i] - leak overflows its 16 bits: the upper limit then tests a difference
\* that is already wrong.  It rises from the bottom in both builds, when leak and voice
\* would take it below its range: the lower limit tests the old weight.
JumpsOnlyAtLimits ==
  [][\A i \in Taps : \E push \in {x'[i], -x'[i]} :
       /\ \/ \E fall \in {0, leak} : w[i] - w'[i] <= fall + push
          \/ ~wide /\ w[i] - leak > SHRT_MAX
       /\ \/ \E rise \in {0, -leak} : w'[i] - w[i] <= rise + push
          \/ w[i] - leak - push < SHRT_MIN]_vars
=============================================================================
