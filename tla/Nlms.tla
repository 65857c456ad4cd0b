-------------------------------- MODULE Nlms --------------------------------
(***************************************************************************)
(* The adaptive filter of the microphone (nlms.c): seven taps in 16-bit    *)
(* fixed point.  Its static variables are the VARIABLES, a call is the     *)
(* action Nlms.  >> is \div by a power of two, which rounds down as the    *)
(* arithmetic shift does; int has 16 bits on this processor, where         *)
(* 1 << SCALE is the smallest number and not 2^15.                         *)
(***************************************************************************)
EXTENDS Integers

VARIABLES
  x, n,   \* the last samples of voice and noise
  w,      \* the weights
  p,      \* the estimated power
  leak

filterVars == <<x, n, w, p, leak>>

SHRT_MAX == 32767
SHRT_MIN == -32768
Int16s   == SHRT_MIN .. SHRT_MAX

\* A number cut to int16_t.
Int16(v) == ((v - SHRT_MIN) % 65536) + SHRT_MIN

N              == 7
BETA           == 32439         \* (int16_t)(0.99*32767)
ONE_MINUS_BETA == 32767 - BETA
ALPHA          == SHRT_MIN      \* 1 << SCALE

Taps   == 0 .. N - 1
Sum(f) == f[0] + f[1] + f[2] + f[3] + f[4] + f[5] + f[6]

\* (v + ROUND) >> SCALE
Scaled(v) == (v + 16384) \div 32768

\* The oldest sample goes, the new one comes.
Shifted(f, new) == [i \in Taps |-> IF i = 0 THEN new ELSE f[i - 1]]

\* Mutant: without ROUND.
DecayedDown(q) == Int16((q * BETA) \div 32768)

\* The estimate, which decays in every call and has nothing added to it.
Decayed(q) == Int16(Scaled(q * BETA))

\* What the step is divided by; c is never set.
Divisor(voice, q) == (Scaled(Scaled(voice * voice) * ONE_MINUS_BETA) + q) \div 2

\* C's quotient of a negative number and a positive one.
StepSize(divisor) == -((-ALPHA) \div divisor)

\* Mutant: two bits less are shifted out.
EstimateFourfold(weights, noises) ==
  (Sum([i \in Taps |-> weights[i] * noises[i]]) + 4096) \div 8192

\* The output of the filter, before it is cut to 16 bits.
Estimate(weights, noises) == Scaled(Sum([i \in Taps |-> weights[i] * noises[i]]))

\* Mutant: without the test against SHRT_MAX.
LimitedBelow(old, new) == IF old <= SHRT_MIN THEN SHRT_MIN ELSE Int16(new)

\* Mutant: without the cut to 16 bits.
LimitedWide(old, new) ==
  IF new >= SHRT_MAX THEN SHRT_MAX ELSE IF old <= SHRT_MIN THEN SHRT_MIN ELSE new

\* The limits of a weight: the lower one tests the weight before the update.
Limited(old, new) ==
  IF new >= SHRT_MAX THEN SHRT_MAX
  ELSE IF old <= SHRT_MIN THEN SHRT_MIN
  ELSE Int16(new)

Init ==
  /\ x = [i \in Taps |-> 0] /\ n = [i \in Taps |-> 0] /\ w = [i \in Taps |-> 0]
  /\ p = 1024 /\ leak = 0

\* What nlms(voice, noise) returns: the voice without what the filter makes of the noise.
Error(voice, noise) == Int16(voice - Int16(Estimate(w, Shifted(n, noise))))

\* nlms(voice, noise).  w[i] - leak overflows an int: wide says whether the build
\* keeps the exact difference.
Nlms(voice, noise, wide) ==
  /\ x' = Shifted(x, voice) /\ n' = Shifted(n, noise)
  /\ p' = Decayed(p)
  /\ LET ue      == Int16(Scaled(Error(voice, noise) * StepSize(Divisor(voice, p'))))
         kept(i) == IF wide THEN w[i] - leak ELSE Int16(w[i] - leak)
     IN  w' = [i \in Taps |-> Limited(w[i], kept(i) + Scaled(ue * x'[i]))]
  /\ leak' = Int16(Sum(w') \div 8)      \* N - LEAK is 3
=============================================================================
