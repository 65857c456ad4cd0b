--------------------------- MODULE SamplingProofs ---------------------------
(***************************************************************************)
(* Theorems about the noise floors and the filter, for all sounds the      *)
(* microphones may give, of any length, and for both ways the build may    *)
(* compute a weight.                                                       *)
(***************************************************************************)
EXTENDS Sampling, TLAPS

\* The phase is within the signal that is read.
PhaseOK == /\ reads < Warmup => phase \in 1 .. Len(sound.quiet)
           /\ reads = Warmup => phase \in 1 .. Len(sound.loud)

\* A channel of a signal stays between two levels.
Within(signal, c, low, high) ==
  \A k \in DOMAIN signal : low <= signal[k][c] /\ signal[k][c] <= high

\* The floor is made from a sum of readings, cut to 16 bits, whatever the order in
\* which it was cut.
FloorOf(c, s) == noisefloor[c] = IF reads = Warmup THEN Averaged(Int16(s)) ELSE Int16(s)
FloorsOK ==
  \A c \in Channels, low, high \in Readings :
    Within(sound.quiet, c, low, high) =>
      \E s \in Int : reads * low <= s /\ s <= reads * high /\ FloorOf(c, s)

\* The power estimate does not fall below 49, where rounding returns it to itself.
Powers  == 49 .. 1024
PowerOK == p \in Powers

\* The filter has heard no more than the converter gives it.
Loudness == -2047 .. 4095
NoiseOK  == /\ reads < Warmup => \A i \in Taps : n[i] = 0
            /\ (\A c \in Channels : noisefloor[c] >= 0) => \A i \in Taps : n[i] \in Loudness

IInv == TypeOK /\ PhaseOK /\ FloorsOK /\ PowerOK /\ NoiseOK

----------------------------------------------------------------------------
\* Arithmetic of 16 bits.

LEMMA InRange == ASSUME NEW v PROVE v \in Int16s <=> v \in Int /\ -32768 <= v /\ v <= 32767
  <1>1. SHRT_MIN \in Int /\ SHRT_MAX \in Int
    BY SMT DEF SHRT_MIN, SHRT_MAX
  <1>2. v \in Int16s <=> v \in Int /\ SHRT_MIN <= v /\ v <= SHRT_MAX
    BY <1>1, SMT DEF Int16s
  <1> QED
    BY <1>2, SMT DEF SHRT_MIN, SHRT_MAX

LEMMA CutType == ASSUME NEW v \in Int PROVE Int16(v) \in Int16s
  <1>1. Int16(v) \in Int /\ -32768 <= Int16(v) /\ Int16(v) <= 32767
    BY SMT DEF Int16, SHRT_MIN
  <1> QED
    BY <1>1, InRange

LEMMA CutExact == ASSUME NEW v \in Int, -32768 <= v, v <= 32767 PROVE Int16(v) = v
  BY SMT DEF Int16, SHRT_MIN

LEMMA CutTwice == ASSUME NEW v \in Int, NEW d \in Int PROVE Int16(Int16(v) + d) = Int16(v + d)
  BY SMT DEF Int16, SHRT_MIN

LEMMA ScaledType == ASSUME NEW v \in Int PROVE Scaled(v) \in Int
  BY SMT DEF Scaled

LEMMA ProductType == ASSUME NEW a \in Int, NEW b \in Int PROVE a * b \in Int
  BY SMT

LEMMA SumType == ASSUME NEW f \in [Taps -> Int] PROVE Sum(f) \in Int
  BY SMT DEF Sum, Taps, N

LEMMA ShiftedType == ASSUME NEW S, NEW f \in [Taps -> S], NEW new \in S
                     PROVE  /\ Shifted(f, new) \in [Taps -> S]
                            /\ Shifted(f, new)[0] = new
  BY SMT DEF Shifted, Taps, N

LEMMA LimitedType == ASSUME NEW old, NEW new \in Int PROVE Limited(old, new) \in Int16s
  <1>1. SHRT_MAX \in Int16s /\ SHRT_MIN \in Int16s
    BY InRange, SMT DEF SHRT_MIN, SHRT_MAX
  <1> QED
    BY <1>1, CutType DEF Limited

\* The estimate of the power falls and stops at 49.
LEMMA DecayedRange == ASSUME NEW q \in Powers PROVE Decayed(q) \in Powers
  <1>1. Scaled(q * BETA) \in 49 .. 1024
    BY SMT DEF Scaled, BETA, Powers
  <1> QED
    BY <1>1, CutExact, SMT DEF Decayed, Powers

LEMMA DivisorRange == ASSUME NEW voice \in Int, NEW q \in Powers
                      PROVE  Divisor(voice, q) \in Int /\ Divisor(voice, q) >= 24
  <1>1. voice * voice \in Int /\ voice * voice >= 0
    BY SMT
  <1>2. Scaled(voice * voice) \in Int /\ Scaled(voice * voice) >= 0
    BY <1>1, SMT DEF Scaled
  <1>3. /\ Scaled(Scaled(voice * voice) * ONE_MINUS_BETA) \in Int
        /\ Scaled(Scaled(voice * voice) * ONE_MINUS_BETA) >= 0
    BY <1>2, SMT DEF Scaled, ONE_MINUS_BETA, BETA
  <1> QED
    BY <1>3, SMT DEF Divisor, Powers

LEMMA StepSizeType == ASSUME NEW d \in Int, d >= 24 PROVE StepSize(d) \in Int
  BY SMT DEF StepSize, ALPHA, SHRT_MIN

LEMMA EstimateType == ASSUME NEW f \in [Taps -> Int16s], NEW g \in [Taps -> Int16s]
                      PROVE  Estimate(f, g) \in Int
  <1>1. \A i \in Taps : f[i] \in Int /\ g[i] \in Int
    BY InRange
  <1>2. [i \in Taps |-> f[i] * g[i]] \in [Taps -> Int]
    BY <1>1, SMT
  <1> QED
    BY <1>2, SumType, ScaledType DEF Estimate

\* Seven products of a weight and a noise are as large as seven noises.
LEMMA EstimateRange == ASSUME NEW f \in [Taps -> Int16s], NEW g \in [Taps -> Loudness]
                       PROVE  /\ Estimate(f, g) \in Int
                              /\ -28665 <= Estimate(f, g) /\ Estimate(f, g) <= 28665
  <1>1. ASSUME NEW a \in Int16s, NEW b \in Loudness
        PROVE  a * b \in Int /\ a * b <= 32768 * 4095 /\ a * b >= -(32768 * 4095)
    <2>1. a \in Int /\ b \in Int /\ a + 32768 >= 0 /\ 32768 - a >= 0 /\ 4095 - b >= 0 /\ 4095 + b >= 0
      BY InRange, SMT DEF Loudness
    <2>2. (a + 32768) * (4095 + b) >= 0 /\ (32768 - a) * (4095 - b) >= 0
      BY <2>1, SMT
    <2>3. (32768 - a) * (4095 + b) >= 0 /\ (a + 32768) * (4095 - b) >= 0
      BY <2>1, SMT
    <2>4. /\ (a + 32768) * (4095 + b) = a * 4095 + a * b + 32768 * 4095 + 32768 * b
          /\ (32768 - a) * (4095 - b) = 32768 * 4095 - 32768 * b - a * 4095 + a * b
          /\ (32768 - a) * (4095 + b) = 32768 * 4095 + 32768 * b - a * 4095 - a * b
          /\ (a + 32768) * (4095 - b) = a * 4095 - a * b + 32768 * 4095 - 32768 * b
      BY <2>1, SMT
    <2> QED
      BY <2>1, <2>2, <2>3, <2>4, SMT
  <1> DEFINE product == [i \in Taps |-> f[i] * g[i]]
  <1>2. \A i \in Taps : /\ product[i] \in Int /\ product[i] <= 134184960
                        /\ product[i] >= -134184960
    BY <1>1, SMT
  <1>3. Estimate(f, g) = Scaled(Sum(product))
    BY DEF Estimate
  <1>4. Sum(product) \in Int /\ Sum(product) <= 939294720 /\ Sum(product) >= -939294720
    <2> HIDE DEF product
    <2>1. \A i \in {0, 1, 2, 3, 4, 5, 6} :
            product[i] \in Int /\ product[i] <= 134184960 /\ product[i] >= -134184960
      BY <1>2, SMT DEF Taps, N
    <2> QED
      BY <2>1, SMT DEF Sum
  <1> HIDE DEF product
  <1> QED
    BY <1>3, <1>4, SMT DEF Scaled

----------------------------------------------------------------------------
\* What the microphones give.

LEMMA Reading == ASSUME NEW signal \in Signals, NEW k \in 1 .. Len(signal), NEW c \in Channels
                 PROVE  signal[k][c] \in Readings
  <1>1. signal[k] \in Readings \X Readings
    BY SMT DEF Signals
  <1> QED
    BY <1>1, SMT DEF Channels

LEMMA ReadingType == ASSUME NEW r \in Readings, NEW floor \in Int16s
                     PROVE  /\ r \in Int /\ 0 <= r /\ r <= 4095
                            /\ Int16(r - floor) \in Int16s
                            /\ floor >= 0 => Int16(r - floor) = r - floor
                            /\ floor >= 0 /\ floor <= 2047 => Int16(r - floor) \in Loudness
  <1>1. r \in Int /\ 0 <= r /\ r <= 4095
    BY SMT DEF Readings
  <1>2. floor \in Int /\ -32768 <= floor /\ floor <= 32767
    BY InRange
  <1>3. r - floor \in Int /\ (floor >= 0 => -32768 <= r - floor /\ r - floor <= 32767)
    BY <1>1, <1>2, SMT
  <1>4. floor >= 0 /\ floor <= 2047 => r - floor \in Loudness
    BY <1>1, <1>2, SMT DEF Loudness
  <1> QED
    BY <1>1, <1>3, <1>4, CutType, CutExact

LEMMA SoundType == TypeOK => sound.quiet \in Signals /\ sound.loud \in Signals
  BY SoundsAssumption DEF TypeOK

LEMMA AdvanceRange == ASSUME NEW signal \in Signals, phase \in 1 .. Len(signal), Advance(signal)
                      PROVE  phase' \in 1 .. Len(signal)
  BY SMT DEF Advance, Signals

----------------------------------------------------------------------------
\* The types and the filter.

FilterOK == /\ x \in [Taps -> Int16s] /\ n \in [Taps -> Int16s] /\ w \in [Taps -> Int16s]
            /\ leak \in Int16s

LEMMA FilterStep ==
  ASSUME FilterOK, PowerOK, NEW voice \in Int16s, NEW noise \in Int16s, NEW exact \in BOOLEAN,
         Nlms(voice, noise, exact)
  PROVE  FilterOK' /\ PowerOK' /\ Error(voice, noise) \in Int16s
  <1> USE DEF FilterOK, PowerOK
  <1>1. /\ x' \in [Taps -> Int16s] /\ n' \in [Taps -> Int16s]
        /\ Shifted(n, noise) \in [Taps -> Int16s] /\ p' \in Powers
    <2>1. /\ x' = Shifted(x, voice) /\ n' = Shifted(n, noise) /\ p' = Decayed(p)
      BY Zenon DEF Nlms
    <2>2. Decayed(p) \in Powers
      BY DecayedRange
    <2>3. Shifted(x, voice) \in [Taps -> Int16s] /\ Shifted(n, noise) \in [Taps -> Int16s]
      BY ShiftedType
    <2> QED
      BY <2>1, <2>2, <2>3
  <1>2. voice \in Int /\ Int16s \subseteq Int
    BY InRange
  <1>3. Error(voice, noise) \in Int16s
    <2>1. Int16(Estimate(w, Shifted(n, noise))) \in Int
      BY <1>1, <1>2, EstimateType, CutType
    <2>2. voice - Int16(Estimate(w, Shifted(n, noise))) \in Int
      BY <2>1, <1>2
    <2> QED
      BY <2>2, CutType DEF Error
  <1> DEFINE ue      == Int16(Scaled(Error(voice, noise) * StepSize(Divisor(voice, p'))))
             kept(i) == IF exact THEN w[i] - leak ELSE Int16(w[i] - leak)
  <1>4. ue \in Int
    <2>1. StepSize(Divisor(voice, p')) \in Int
      <3>1. Divisor(voice, p') \in Int /\ Divisor(voice, p') >= 24
        BY <1>1, <1>2, DivisorRange
      <3> QED
        BY <3>1, StepSizeType
    <2>2. Error(voice, noise) \in Int
      BY <1>2, <1>3
    <2>3. Error(voice, noise) * StepSize(Divisor(voice, p')) \in Int
      BY <2>1, <2>2, ProductType
    <2> QED
      BY <2>3, <1>2, ScaledType, CutType
  <1>5. w' = [i \in Taps |-> Limited(w[i], kept(i) + Scaled(ue * x'[i]))]
    BY DEF Nlms
  <1>6. ASSUME NEW i \in Taps PROVE Limited(w[i], kept(i) + Scaled(ue * x'[i])) \in Int16s
    <2>1. w[i] \in Int /\ leak \in Int /\ x'[i] \in Int
      BY <1>1, <1>2
    <2>2. w[i] - leak \in Int /\ ue * x'[i] \in Int
      <3> HIDE DEF ue
      <3> QED
        BY <2>1, <1>4, ProductType
    <2>3. kept(i) \in Int /\ Scaled(ue * x'[i]) \in Int
      BY <2>2, <1>2, CutType, ScaledType
    <2> QED
      BY <2>3, LimitedType
  <1> HIDE DEF ue, kept
  <1>7. w' \in [Taps -> Int16s]
    BY <1>5, <1>6
  <1>8. leak' \in Int16s
    <2>1. Sum(w') \in Int
      BY <1>2, <1>7, SumType
    <2>2. Sum(w') \div 8 \in Int
      BY <2>1, SMT
    <2> QED
      BY <2>2, CutType DEF Nlms
  <1> QED
    BY <1>1, <1>3, <1>7, <1>8

LEMMA LevelType ==
  ASSUME TypeOK, PhaseOK, Sample, NEW c \in Channels
  PROVE  /\ sound.loud[phase][c] \in Readings
         /\ Int16(sound.loud[phase][c] - noisefloor[c]) \in Int16s
         /\ noisefloor[c] >= 0 => Int16(sound.loud[phase][c] - noisefloor[c])
                                    = sound.loud[phase][c] - noisefloor[c]
  <1>1. sound.loud[phase][c] \in Readings
    BY SoundType, Reading DEF PhaseOK, Sample
  <1>2. noisefloor[c] \in Int16s
    BY DEF TypeOK
  <1> QED
    BY <1>1, <1>2, ReadingType

LEMMA TypeParts == TypeOK => FilterOK
  BY DEF TypeOK, FilterOK

LEMMA FloorType == ASSUME TypeOK, ReadFloor, PhaseOK, NEW c \in Channels
                   PROVE  noisefloor'[c] \in Int16s
  <1>1. sound.quiet[phase][c] \in Int
    <2>1. sound.quiet[phase][c] \in Readings
      BY SoundType, Reading DEF PhaseOK, ReadFloor
    <2>2. Readings \subseteq Int
      BY SMT DEF Readings
    <2> QED
      BY <2>1, <2>2
  <1>2. noisefloor[c] \in Int
    BY InRange DEF TypeOK
  <1> DEFINE sum == Int16(noisefloor[c] + sound.quiet[phase][c])
  <1>3. sum \in Int /\ -32768 <= sum /\ sum <= 32767
    BY <1>1, <1>2, CutType, InRange
  <1>4. noisefloor'[c] = IF reads' = Warmup THEN Averaged(sum) ELSE sum
    BY DEF ReadFloor
  <1> HIDE DEF sum
  <1>5. Averaged(sum) \in Int /\ -32768 <= Averaged(sum) /\ Averaged(sum) <= 32767
    BY <1>3, SMT DEF Averaged, Warmup
  <1> QED
    BY <1>3, <1>4, <1>5, InRange

LEMMA TypeStep == ASSUME TypeOK, PhaseOK, PowerOK, [Next]_vars
                  PROVE  TypeOK' /\ PhaseOK' /\ PowerOK'
  <1>1. CASE ReadFloor
    <2>1. noisefloor' \in [Channels -> Int16s]
      <3>1. noisefloor' = [c \in Channels |-> noisefloor'[c]]
        BY <1>1 DEF ReadFloor
      <3> QED
        BY <1>1, <3>1, FloorType
    <2>2. PhaseOK' /\ phase' \in Nat \ {0} /\ reads' \in 0 .. Warmup
      BY <1>1, SoundType, AdvanceRange, SMT DEF ReadFloor, PhaseOK, TypeOK, Warmup, Signals
    <2>3. UNCHANGED <<filterVars, sound, wide, audioSample>>
      BY <1>1 DEF ReadFloor
    <2> QED
      BY <2>1, <2>2, <2>3, Zenon DEF TypeOK, PowerOK, filterVars
  <1>2. CASE Sample
    <2>1. PhaseOK' /\ phase' \in Nat \ {0}
      BY <1>2, SoundType, AdvanceRange, SMT DEF Sample, PhaseOK, TypeOK, Warmup, Signals
    <2>2. FilterOK' /\ PowerOK' /\ audioSample' \in Int16s
      <3>1. /\ Int16(sound.loud[phase][1] - noisefloor[1]) \in Int16s
            /\ Int16(sound.loud[phase][2] - noisefloor[2]) \in Int16s
        BY <1>2, LevelType DEF Channels
      <3>2. wide \in BOOLEAN
        BY DEF TypeOK
      <3> QED
        BY <1>2, <3>1, <3>2, TypeParts, FilterStep DEF Sample
    <2>3. UNCHANGED <<sound, wide, reads, noisefloor>>
      BY <1>2 DEF Sample
    <2>4. p' \in Int16s
      BY <2>2, InRange, SMT DEF PowerOK, Powers
    <2> QED
      BY <2>1, <2>2, <2>3, <2>4, Zenon DEF TypeOK, FilterOK
  <1>3. CASE UNCHANGED vars
    BY <1>3, Zenon DEF vars, adcVars, filterVars, TypeOK, PhaseOK, PowerOK
  <1> QED
    BY <1>1, <1>2, <1>3 DEF Next

----------------------------------------------------------------------------
\* The noise floors.

LEMMA FloorsStep == ASSUME TypeOK, PhaseOK, FloorsOK, [Next]_vars PROVE FloorsOK'
  <1>1. CASE ReadFloor
    <2>1. reads < Warmup /\ reads' = reads + 1 /\ sound' = sound /\ reads \in Int /\ reads # Warmup
      BY <1>1, SMT DEF ReadFloor, TypeOK, Warmup
    <2>2. sound.quiet \in Signals /\ phase \in 1 .. Len(sound.quiet)
      BY <2>1, SoundType DEF PhaseOK
    <2>3. SUFFICES ASSUME NEW c \in Channels, NEW low \in Readings, NEW high \in Readings,
                          Within(sound.quiet, c, low, high)
                   PROVE  \E s \in Int : reads' * low <= s /\ s <= reads' * high /\ FloorOf(c, s)'
      BY <2>1 DEF FloorsOK, Within
    <2>4. PICK s \in Int : reads * low <= s /\ s <= reads * high /\ FloorOf(c, s)
      BY <2>3 DEF FloorsOK
    <2> DEFINE r == sound.quiet[phase][c]
    <2>5. low <= r /\ r <= high /\ r \in Readings
      <3>1. phase \in DOMAIN sound.quiet
        BY <2>2, SMT DEF Signals
      <3> QED
        BY <2>2, <2>3, <3>1, Reading DEF Within
    <2>6. noisefloor'[c] = IF reads' = Warmup THEN Averaged(Int16(noisefloor[c] + r))
                                              ELSE Int16(noisefloor[c] + r)
      BY <1>1 DEF ReadFloor
    <2> HIDE DEF r
    <2>7. low \in Int /\ high \in Int /\ r \in Int /\ low <= r /\ r <= high
      BY <2>5, SMT DEF Readings
    <2>8. PICK t \in Int : t = s + r
      BY <2>7
    <2>9. reads' * low <= t /\ t <= reads' * high
      <3>1. /\ reads * low \in Int /\ (reads + 1) * low = reads * low + low
            /\ reads * high \in Int /\ (reads + 1) * high = reads * high + high
        BY <2>1, <2>7, SMT
      <3> QED
        BY <2>1, <2>4, <2>7, <2>8, <3>1, SMT
    <2>10. Int16(noisefloor[c] + r) = Int16(t)
      <3>1. noisefloor[c] = Int16(s)
        BY <2>1, <2>4, Zenon DEF FloorOf
      <3> QED
        BY <2>7, <2>8, <3>1, CutTwice
    <2>11. FloorOf(c, t)'
      BY <2>6, <2>10, Zenon DEF FloorOf
    <2> QED
      BY <2>9, <2>11
  <1>2. CASE Sample
    BY <1>2, Zenon DEF Sample, FloorsOK, FloorOf, Within
  <1>3. CASE UNCHANGED vars
    BY <1>3, Zenon DEF vars, adcVars, FloorsOK, FloorOf, Within
  <1> QED
    BY <1>1, <1>2, <1>3 DEF Next

LEMMA FloorUpperEnd == ASSUME TypeOK, FloorsOK, reads = Warmup, NEW c \in Channels
                       PROVE  noisefloor[c] <= 2047
  <1>1. Within(sound.quiet, c, 0, 4095)
    <2>1. SUFFICES ASSUME NEW k \in DOMAIN sound.quiet 
                   PROVE  0 <= sound.quiet[k][c] /\ sound.quiet[k][c] <= 4095
      BY DEF Within
    <2>2. k \in 1 .. Len(sound.quiet)
      BY SoundType, SMT DEF Signals
    <2>3. sound.quiet[k][c] \in Readings
      BY <2>2, SoundType, Reading
    <2>4. noisefloor[c] \in Int16s
      BY DEF TypeOK
    <2> QED
      BY <2>3, <2>4, ReadingType
  <1>2. 0 \in Readings /\ 4095 \in Readings
    BY SMT DEF Readings
  <1>3. PICK s \in Int : FloorOf(c, s)
    BY <1>1, <1>2 DEF FloorsOK
  <1>4. noisefloor[c] = Averaged(Int16(s))
    BY <1>3 DEF FloorOf
  <1>5. Int16(s) \in Int /\ Int16(s) <= 32767
    BY CutType, InRange
  <1> QED
    BY <1>4, <1>5, SMT DEF Averaged, Warmup

LEMMA NoiseStep == ASSUME TypeOK, PhaseOK, FloorsOK, NoiseOK, [Next]_vars PROVE NoiseOK'
  <1>0. 0 \in Loudness
    BY SMT DEF Loudness
  <1>1. CASE ReadFloor
    BY <1>0, <1>1 DEF ReadFloor, NoiseOK, filterVars
  <1>2. CASE Sample
    <2>1. reads' = Warmup /\ noisefloor' = noisefloor
      BY <1>2 DEF Sample
    <2>2. ASSUME \A c \in Channels : noisefloor[c] >= 0 PROVE \A i \in Taps : n'[i] \in Loudness
      <3> DEFINE noise == Int16(sound.loud[phase][2] - noisefloor[2])
      <3>1. noise \in Loudness
        <4>1. sound.loud[phase][2] \in Readings
          BY <1>2, LevelType DEF Channels
        <4>2. noisefloor[2] \in Int16s /\ noisefloor[2] <= 2047 /\ noisefloor[2] >= 0
          BY <1>2, <2>2, FloorUpperEnd DEF Sample, Channels, TypeOK
        <4> QED
          BY <4>1, <4>2, ReadingType
      <3>2. n \in [Taps -> Loudness]
        BY <2>2 DEF NoiseOK, TypeOK
      <3>3. n' = Shifted(n, noise)
        BY <1>2, Zenon DEF Sample, Nlms
      <3> HIDE DEF noise
      <3> QED
        BY <3>1, <3>2, <3>3, ShiftedType
    <2> QED
      BY <2>1, <2>2, SMT DEF NoiseOK, Warmup
  <1>3. CASE UNCHANGED vars
    BY <1>3, Zenon DEF vars, adcVars, filterVars, NoiseOK
  <1> QED
    BY <1>1, <1>2, <1>3 DEF Next

----------------------------------------------------------------------------
\* The theorems.

LEMMA LoudnessType == Loudness \subseteq Int16s
  <1> SUFFICES ASSUME NEW v \in Loudness PROVE v \in Int16s
    OBVIOUS
  <1>1. v \in Int /\ -32768 <= v /\ v <= 32767
    BY SMT DEF Loudness
  <1> QED
    BY <1>1, InRange

LEMMA Between == ASSUME NEW low \in Readings, NEW high \in Readings, NEW r \in low .. high
                 PROVE  low <= r /\ r <= high
  BY SMT DEF Readings

\* Sixteen readings below the middle of the range fit 16 bits, sixteen at or above it
\* do not.
LEMMA AverageOf ==
  ASSUME NEW low \in Readings, NEW high \in Readings, NEW s \in Int, 16 * low <= s, s <= 16 * high
  PROVE  /\ high < Middle => Averaged(Int16(s)) \in low .. high
         /\ low >= Middle => Averaged(Int16(s)) < 0
  <1>1. /\ low \in Int /\ 0 <= low /\ low <= 4095
        /\ high \in Int /\ 0 <= high /\ high <= 4095
    BY SMT DEF Readings
  <1>2. ASSUME high < Middle PROVE Averaged(Int16(s)) \in low .. high
    <2>1. 0 <= s /\ s <= 32767
      BY <1>1, <1>2, SMT DEF Middle
    <2>2. Int16(s) = s
      BY <2>1, CutExact, SMT
    <2> QED
      BY <1>1, <2>2, SMT DEF Averaged, Warmup
  <1>3. ASSUME low >= Middle PROVE Averaged(Int16(s)) < 0
    <2>1. 32768 <= s /\ s <= 65520
      BY <1>1, <1>3, SMT DEF Middle
    <2>2. Int16(s) = s - 65536
      BY <2>1, SMT DEF Int16, SHRT_MIN
    <2> QED
      BY <2>1, <2>2, SMT DEF Averaged, Warmup
  <1> QED
    BY <1>2, <1>3

LEMMA InitIInv == SamplingInit => IInv
  <1> SUFFICES ASSUME SamplingInit PROVE IInv
    OBVIOUS
  <1>1. 0 \in Int16s /\ 1024 \in Int16s /\ 0 \in Loudness /\ 1024 \in Powers
    BY InRange, SMT DEF Loudness, Powers
  <1>2. reads = 0 /\ phase = 1 /\ reads < Warmup /\ 0 \in 0 .. Warmup
    BY SMT DEF SamplingInit, Warmup
  <1>3. TypeOK
    BY <1>1, <1>2 DEF SamplingInit, Init, TypeOK
  <1>4. PhaseOK
    BY <1>2, <1>3, SoundType, SMT DEF PhaseOK, Signals, Warmup
  <1>5. FloorsOK
    <2> SUFFICES ASSUME NEW c \in Channels, NEW low \in Readings, NEW high \in Readings
                 PROVE  \E s \in Int : reads * low <= s /\ s <= reads * high /\ FloorOf(c, s)
      BY DEF FloorsOK
    <2>1. reads * low <= 0 /\ 0 <= reads * high
      BY <1>2, SMT DEF Readings
    <2>2. FloorOf(c, 0)
      BY <1>2, CutExact, SMT DEF FloorOf, SamplingInit, Warmup
    <2> QED
      BY <2>1, <2>2
  <1>6. PowerOK /\ NoiseOK
    BY <1>1 DEF SamplingInit, Init, PowerOK, NoiseOK
  <1> QED
    BY <1>3, <1>4, <1>5, <1>6 DEF IInv

\* A floor comes from a sum of as many readings as were taken, cut to 16 bits; the
\* power estimate stays at 49 or above; with floors that are not negative the filter
\* hears what the converter reads, less the floor.
THEOREM Invariance == Spec => []IInv
  <1>1. IInv /\ [Next]_vars => IInv'
    <2> SUFFICES ASSUME IInv, [Next]_vars PROVE IInv'
      OBVIOUS
    <2>1. TypeOK /\ PhaseOK /\ FloorsOK /\ PowerOK /\ NoiseOK
      BY DEF IInv
    <2> QED
      BY <2>1, TypeStep, FloorsStep, NoiseStep DEF IInv
  <1> QED
    BY InitIInv, <1>1, PTL DEF Spec

\* Samples, weights and floors are kept in 16 bits, whatever is computed with them.
THEOREM TypeCorrect == Spec => []TypeOK
  <1>1. IInv => TypeOK
    BY DEF IInv
  <1> QED
    BY <1>1, Invariance, PTL

\* The filter never divides by zero, nor by less than 24, in any silence.
THEOREM DivisorCorrect == Spec => []DivisorPositive
  <1>1. IInv => DivisorPositive
    <2> SUFFICES ASSUME IInv PROVE DivisorPositive
      OBVIOUS
    <2>1. x[0] \in Int16s
      BY SMT DEF IInv, TypeOK, Taps, N
    <2>2. x[0] \in Int /\ p \in Powers
      BY <2>1, InRange DEF IInv, PowerOK
    <2> QED
      BY <2>2, DivisorRange DEF DivisorPositive
  <1> QED
    BY <1>1, Invariance, PTL

\* A channel that is below the middle of the range during the start gets a floor
\* between its readings, one that is not gets a negative floor.
THEOREM FloorCorrect == Spec => []FloorBelowMiddle
  <1>1. IInv => FloorBelowMiddle
    <2> SUFFICES ASSUME IInv, reads = Warmup, NEW c \in Channels,
                        NEW i \in DOMAIN sound.quiet, NEW j \in DOMAIN sound.quiet,
                        \A k \in DOMAIN sound.quiet :
                          sound.quiet[k][c] \in sound.quiet[i][c] .. sound.quiet[j][c]
                 PROVE  /\ sound.quiet[j][c] < Middle
                             => noisefloor[c] \in sound.quiet[i][c] .. sound.quiet[j][c]
                        /\ sound.quiet[i][c] >= Middle => noisefloor[c] < 0
      BY DEF FloorBelowMiddle
    <2> DEFINE low  == sound.quiet[i][c]
               high == sound.quiet[j][c]
    <2>1. \A k \in DOMAIN sound.quiet : sound.quiet[k][c] \in Readings
      <3>1. DOMAIN sound.quiet = 1 .. Len(sound.quiet)
        BY SoundType, SMT DEF IInv, Signals
      <3> QED
        BY <3>1, SoundType, Reading DEF IInv
    <2>2. low \in Readings /\ high \in Readings
      BY <2>1
    <2>3. Within(sound.quiet, c, low, high)
      <3> SUFFICES ASSUME NEW k \in DOMAIN sound.quiet
                   PROVE  low <= sound.quiet[k][c] /\ sound.quiet[k][c] <= high
        BY DEF Within
      <3>1. sound.quiet[k][c] \in low .. high
        OBVIOUS
      <3> HIDE DEF low, high
      <3> QED
        BY <2>2, <3>1, Between
    <2> HIDE DEF low, high
    <2>4. PICK s \in Int : reads * low <= s /\ s <= reads * high /\ FloorOf(c, s)
      BY <2>2, <2>3 DEF IInv, FloorsOK
    <2>5. 16 * low <= s /\ s <= 16 * high /\ noisefloor[c] = Averaged(Int16(s))
      BY <2>4, SMT DEF Warmup, FloorOf
    <2>6. /\ high < Middle => noisefloor[c] \in low .. high
          /\ low >= Middle => noisefloor[c] < 0
      BY <2>2, <2>5, AverageOf
    <2> QED
      BY <2>6 DEF low, high
  <1> QED
    BY <1>1, Invariance, PTL

\* With floors that are averages the output of the filter fits its 16 bits, for all
\* weights: seven products of a weight and a noise, and the voice, come to 32 760.
THEOREM OutputCorrect == Spec => OutputExact
  <1>1. ASSUME IInv, Sample, \A c \in Channels : noisefloor[c] >= 0
        PROVE  audioSample' = x'[0] - Estimate(w, n')
    <2> DEFINE voice == Int16(sound.loud[phase][1] - noisefloor[1])
               noise == Int16(sound.loud[phase][2] - noisefloor[2])
    <2>1. TypeOK /\ PhaseOK /\ FloorsOK /\ NoiseOK /\ reads = Warmup
      BY <1>1, Zenon DEF IInv, Sample
    <2>2. voice \in Loudness /\ noise \in Loudness
      <3>1. sound.loud[phase][1] \in Readings /\ sound.loud[phase][2] \in Readings
        BY <1>1, <2>1, LevelType DEF Channels
      <3>2. /\ noisefloor[1] \in Int16s /\ noisefloor[1] <= 2047 /\ noisefloor[1] >= 0
            /\ noisefloor[2] \in Int16s /\ noisefloor[2] <= 2047 /\ noisefloor[2] >= 0
        BY <1>1, <2>1, FloorUpperEnd DEF Channels, TypeOK
      <3> QED
        BY <3>1, <3>2, ReadingType
    <2>3. /\ audioSample' = Error(voice, noise)
          /\ x' = Shifted(x, voice) /\ n' = Shifted(n, noise)
      BY <1>1, Zenon DEF Sample, Nlms
    <2> HIDE DEF voice, noise
    <2>4. x'[0] = voice
      <3>1. voice \in Int16s
        BY <2>2, LoudnessType
      <3>2. x \in [Taps -> Int16s]
        BY <2>1, Zenon DEF TypeOK
      <3>3. Shifted(x, voice)[0] = voice
        BY <3>1, <3>2, ShiftedType
      <3> QED
        BY <2>3, <3>3
    <2>5. Shifted(n, noise) \in [Taps -> Loudness]
      <3>1. n \in [Taps -> Loudness]
        BY <1>1, <2>1 DEF NoiseOK, TypeOK
      <3> QED
        BY <2>2, <3>1, ShiftedType
    <2> DEFINE estimate == Estimate(w, Shifted(n, noise))
    <2>6. estimate \in Int /\ -28665 <= estimate /\ estimate <= 28665
      BY <2>1, <2>5, EstimateRange DEF TypeOK
    <2>7. Error(voice, noise) = Int16(voice - Int16(estimate))
      BY DEF Error
    <2> HIDE DEF estimate
    <2>8. Int16(estimate) = estimate
      BY <2>6, CutExact, SMT
    <2>9. Int16(voice - estimate) = voice - estimate
      <3>1. voice - estimate \in Int /\ -32768 <= voice - estimate /\ voice - estimate <= 32767
        BY <2>2, <2>6, SMT DEF Loudness
      <3> QED
        BY <3>1, CutExact
    <2> QED
      BY <2>3, <2>4, <2>7, <2>8, <2>9 DEF estimate
  <1>2. IInv /\ [Next]_vars
          => [Sample /\ (\A c \in Channels : noisefloor[c] >= 0)
                => audioSample' = x'[0] - Estimate(w, n')]_vars
    BY <1>1
  <1> QED
    BY <1>2, Invariance, PTL DEF Spec, OutputExact

----------------------------------------------------------------------------
\* The limits of the weights.

\* A weight is pushed by the voice sample at most: the factor has 16 bits.
LEMMA PushRange ==
  ASSUME NEW ue \in Int16s, NEW voice \in Int16s
  PROVE  /\ Scaled(ue * voice) \in Int
         /\ \E push \in {voice, -voice} : /\ 0 <= push /\ push <= 32768
                                          /\ -push <= Scaled(ue * voice)
                                          /\ Scaled(ue * voice) <= push
  <1>1. /\ ue \in Int /\ 32768 + ue >= 0 /\ 32768 - ue >= 0
        /\ voice \in Int /\ -32768 <= voice /\ voice <= 32767
    BY InRange, SMT
  <1>2. ue * voice \in Int /\ Scaled(ue * voice) \in Int
    BY <1>1, ProductType, ScaledType
  <1>3. \A v \in Int, m \in Int : /\ v + 32768 * m >= 0 => -m <= Scaled(v)
                                  /\ v - 32768 * m <= 0 => Scaled(v) <= m
    BY SMT DEF Scaled
  <1>4. CASE voice >= 0
    <2>1. (32768 + ue) * voice >= 0 /\ (32768 + ue) * voice = ue * voice + 32768 * voice
      BY <1>1, <1>4, SMT
    <2>2. (32768 - ue) * voice >= 0 /\ (32768 - ue) * voice = 32768 * voice - ue * voice
      BY <1>1, <1>4, SMT
    <2>3. ue * voice + 32768 * voice >= 0 /\ ue * voice - 32768 * voice <= 0
      BY <1>1, <1>2, <2>1, <2>2
    <2> QED
      BY <1>1, <1>2, <1>3, <1>4, <2>3
  <1>5. CASE ~(voice >= 0)
    <2>1. (32768 - ue) * (-voice) >= 0 /\ (32768 - ue) * (-voice) = ue * voice + 32768 * (-voice)
      BY <1>1, <1>5, SMT
    <2>2. (32768 + ue) * (-voice) >= 0 /\ (32768 + ue) * (-voice) = 32768 * (-voice) - ue * voice
      BY <1>1, <1>5, SMT
    <2>3. -voice \in Int /\ -voice >= 0 /\ -voice <= 32768
      BY <1>1, <1>5
    <2>4. ue * voice + 32768 * (-voice) >= 0 /\ ue * voice - 32768 * (-voice) <= 0
      BY <1>2, <2>1, <2>2, <2>3
    <2> QED
      BY <1>2, <1>3, <2>3, <2>4
  <1> QED
    BY <1>4, <1>5

\* What the limits make of a new weight.
LEMMA LimitedCases ==
  ASSUME NEW old \in Int16s, NEW new \in Int
  PROVE  /\ Limited(old, new) \in Int
         /\ \/ Limited(old, new) = 32767 /\ new >= 32767
            \/ Limited(old, new) = old /\ new < 32767
            \/ Limited(old, new) = Int16(new) /\ new < 32767
  <1>1. old \in Int /\ -32768 <= old /\ old <= 32767
    BY InRange
  <1>2. Limited(old, new) \in Int
    BY LimitedType, InRange
  <1> QED
    BY <1>1, <1>2 DEF Limited, SHRT_MAX, SHRT_MIN

\* A number below 32767 that is cut to 16 bits does not get smaller; it is cut
\* only below -32768.
LEMMA CutBelow == ASSUME NEW v \in Int, v < 32767
                  PROVE  /\ Int16(v) \in Int /\ Int16(v) >= v
                         /\ v >= -32768 => Int16(v) = v
                         /\ v < -32768 /\ v >= -98304 => Int16(v) = v + 65536
  BY SMT DEF Int16, SHRT_MIN

\* The difference of two numbers of 16 bits, cut to 16 bits.
LEMMA CutDifference == ASSUME NEW v \in Int, v >= -65535, v <= 65535
                       PROVE  /\ -32768 <= v /\ v <= 32767 => Int16(v) = v
                              /\ v < -32768 => Int16(v) = v + 65536
                              /\ v > 32767 => Int16(v) = v - 65536
  BY SMT DEF Int16, SHRT_MIN

\* How far a limited weight moves.
LEMMA LimitedMove ==
  ASSUME NEW old \in Int16s, NEW leaked \in Int16s,
         NEW push \in Int, NEW most \in Int, 0 <= most, most <= 32768, -most <= push, push <= most,
         NEW kept \in {old - leaked, Int16(old - leaked)},
         NEW new, new = Limited(old, kept + push)
  PROVE  /\ new \in Int
         /\ old - new <= 0 + most \/ old - new <= leaked + most
            \/ (kept # old - leaked /\ old - leaked > 32767)
         /\ new - old <= 0 + most \/ new - old <= -leaked + most \/ old - leaked - most < -32768
  <1>1. /\ old \in Int /\ -32768 <= old /\ old <= 32767
        /\ leaked \in Int /\ -32768 <= leaked /\ leaked <= 32767
    BY InRange
  <1>2. PICK d \in Int : d = old - leaked /\ d >= -65535 /\ d <= 65535
    BY <1>1
  <1>3. \/ kept = d
        \/ kept # d /\ d < -32768 /\ kept = d + 65536
        \/ kept # d /\ d > 32767 /\ kept = d - 65536
    BY <1>2, CutDifference
  <1>4. PICK v \in Int : v = kept + push
    BY <1>2, <1>3
  <1>5. /\ new \in Int
        /\ \/ new = 32767 /\ v >= 32767
           \/ new = old /\ v < 32767
           \/ new = Int16(v) /\ v < 32767
    BY <1>4, LimitedCases
  <1>6. v < 32767 => /\ Int16(v) \in Int /\ Int16(v) >= v
                     /\ v >= -32768 => Int16(v) = v
                     /\ v < -32768 /\ v >= -98304 => Int16(v) = v + 65536
    BY CutBelow
  <1>7. old - new <= 0 + most \/ old - new <= leaked + most \/ (kept # d /\ d > 32767)
    <2>1. new >= v \/ new >= old
      BY <1>1, <1>5, <1>6
    <2> QED
      BY <1>1, <1>2, <1>3, <1>4, <1>5, <2>1
  <1>8. new - old <= 0 + most \/ new - old <= -leaked + most \/ d - most < -32768
    <2>1. CASE new = old \/ (new = 32767 /\ v >= 32767)
      BY <1>1, <1>2, <1>3, <1>4, <2>1
    <2>2. CASE new = Int16(v) /\ v < 32767
      BY <1>1, <1>2, <1>3, <1>4, <1>6, <2>2
    <2> QED
      BY <1>5, <2>1, <2>2
  <1> QED
    BY <1>2, <1>5, <1>7, <1>8

\* A weight moves by the leak and the voice sample, or wraps round.
Moves(i) ==
  \E push \in {x'[i], -x'[i]} :
    /\ \/ \E fall \in {0, leak} : w[i] - w'[i] <= fall + push
       \/ ~wide /\ w[i] - leak > SHRT_MAX
    /\ \/ \E rise \in {0, -leak} : w'[i] - w[i] <= rise + push
       \/ w[i] - leak - push < SHRT_MIN

LEMMA MoveStep ==
  ASSUME FilterOK, PowerOK, wide \in BOOLEAN,
         NEW voice \in Int16s, NEW noise \in Int16s, Nlms(voice, noise, wide),
         NEW i \in Taps
  PROVE  Moves(i)
  <1> DEFINE ue   == Int16(Scaled(Error(voice, noise) * StepSize(Divisor(voice, p'))))
             kept == IF wide THEN w[i] - leak ELSE Int16(w[i] - leak)
             push == Scaled(ue * x'[i])
  <1>1. /\ x' \in [Taps -> Int16s] /\ p' \in Powers /\ Error(voice, noise) \in Int16s
    BY FilterStep DEF FilterOK, PowerOK
  <1>2. ue \in Int16s
    <2>1. voice \in Int /\ Error(voice, noise) \in Int
      BY <1>1, InRange
    <2>2. Divisor(voice, p') \in Int /\ Divisor(voice, p') >= 24
      BY <1>1, <2>1, DivisorRange
    <2>3. Error(voice, noise) * StepSize(Divisor(voice, p')) \in Int
      BY <2>1, <2>2, StepSizeType, ProductType
    <2> QED
      BY <2>3, ScaledType, CutType
  <1>3. w'[i] = Limited(w[i], kept + push)
    BY DEF Nlms
  <1>4. x'[i] \in Int16s /\ w[i] \in Int16s /\ leak \in Int16s
    BY <1>1 DEF FilterOK
  <1>5. /\ kept \in {w[i] - leak, Int16(w[i] - leak)}
        /\ wide => kept = w[i] - leak
    OBVIOUS
  <1> HIDE DEF ue
  <1>6. /\ push \in Int
        /\ \E most \in {x'[i], -x'[i]} : 0 <= most /\ most <= 32768 /\ -most <= push /\ push <= most
    BY <1>2, <1>4, PushRange
  <1> HIDE DEF push, kept
  <1>7. PICK most \in {x'[i], -x'[i]} : 0 <= most /\ most <= 32768 /\ -most <= push /\ push <= most
    BY <1>6
  <1>8. most \in Int
    <2>1. x'[i] \in Int
      BY <1>4, InRange
    <2> QED
      BY <1>7, <2>1
  <1>9. /\ w[i] - w'[i] <= 0 + most \/ w[i] - w'[i] <= leak + most
           \/ (kept # w[i] - leak /\ w[i] - leak > 32767)
        /\ w'[i] - w[i] <= 0 + most \/ w'[i] - w[i] <= -leak + most
           \/ w[i] - leak - most < -32768
    <2> DEFINE old == w[i]
               new == w'[i]
    <2>1. old \in Int16s /\ kept \in {old - leak, Int16(old - leak)} /\ new = Limited(old, kept + push)
      BY <1>3, <1>4, <1>5
    <2> HIDE DEF old, new
    <2>2. /\ old - new <= 0 + most \/ old - new <= leak + most
             \/ (kept # old - leak /\ old - leak > 32767)
          /\ new - old <= 0 + most \/ new - old <= -leak + most \/ old - leak - most < -32768
      BY <1>4, <1>6, <1>7, <1>8, <2>1, LimitedMove
    <2> QED
      BY <2>2 DEF old, new
  <1>10. /\ \/ \E fall \in {0, leak} : w[i] - w'[i] <= fall + most
            \/ ~wide /\ w[i] - leak > SHRT_MAX
         /\ \/ \E rise \in {0, -leak} : w'[i] - w[i] <= rise + most
            \/ w[i] - leak - most < SHRT_MIN
    <2>1. ASSUME NEW a, NEW b, a <= 0 + b \/ a <= leak + b
          PROVE  \E fall \in {0, leak} : a <= fall + b
      BY <2>1, Zenon
    <2>2. ASSUME NEW a, NEW b, a <= 0 + b \/ a <= -leak + b
          PROVE  \E rise \in {0, -leak} : a <= rise + b
      BY <2>2, Zenon
    <2>3. \/ \E fall \in {0, leak} : w[i] - w'[i] <= fall + most
          \/ ~wide /\ w[i] - leak > SHRT_MAX
      BY <1>5, <1>9, <2>1 DEF SHRT_MAX
    <2>4. \/ \E rise \in {0, -leak} : w'[i] - w[i] <= rise + most
          \/ w[i] - leak - most < SHRT_MIN
      BY <1>9, <2>2 DEF SHRT_MIN
    <2> QED
      BY <2>3, <2>4
  <1> QED
    BY <1>7, <1>10 DEF Moves

\* In either build, for every sound, a weight moves in one call by the leak and the voice
\* sample at most, unless it wraps round: down where w[i] - leak overflows 16 bits, which
\* a build that computes it exactly never does, up where the lower limit comes too late
\* (nlms.c:54-61).
THEOREM LimitsCorrect == Spec => JumpsOnlyAtLimits
  <1>1. ASSUME IInv, [Next]_vars, vars' # vars, NEW i \in Taps
        PROVE  Moves(i)
    <2>1. CASE ReadFloor
      <3>1. /\ x' = x /\ w' = w
            /\ x \in [Taps -> Int16s] /\ w \in [Taps -> Int16s]
        BY <1>1, <2>1 DEF ReadFloor, filterVars, IInv, TypeOK
      <3>2. x'[i] \in Int /\ w[i] \in Int /\ w'[i] = w[i]
        BY <3>1, InRange
      <3>3. PICK most \in {x'[i], -x'[i]} : w[i] - w'[i] <= 0 + most /\ w'[i] - w[i] <= 0 + most
        BY <3>2
      <3> QED
        BY <3>3, Zenon DEF Moves
    <2>2. CASE Sample
      <3> DEFINE voice == Int16(sound.loud[phase][1] - noisefloor[1])
                 noise == Int16(sound.loud[phase][2] - noisefloor[2])
      <3>1. voice \in Int16s /\ noise \in Int16s
        BY <1>1, <2>2, LevelType, SMT DEF Channels, IInv
      <3>2. Nlms(voice, noise, wide)
        BY <2>2, Zenon DEF Sample
      <3>3. FilterOK /\ PowerOK /\ wide \in BOOLEAN
        BY <1>1, TypeParts DEF IInv, TypeOK
      <3> HIDE DEF voice, noise
      <3> QED
        BY <3>1, <3>2, <3>3, MoveStep
    <2> QED
      BY <1>1, <2>1, <2>2 DEF Next
  <1>2. IInv /\ [Next]_vars => [\A i \in Taps : Moves(i)]_vars
    BY <1>1
  <1> QED
    BY <1>2, Invariance, PTL DEF Spec, JumpsOnlyAtLimits, Moves
=============================================================================
