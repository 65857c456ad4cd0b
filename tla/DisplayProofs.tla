--------------------------- MODULE DisplayProofs ---------------------------
(***************************************************************************)
(* Theorems about the pixels of the display, for every sequence of words   *)
(* and presses: texts stay apart until the second button is pressed, and   *)
(* the damage that "fuel need" does afterwards stays where it is.          *)
(*                                                                         *)
(* The invariant (Picture) is about places: each label has a range of      *)
(* columns on its pages, no two of which meet, and each place shows the    *)
(* label's last text and nothing else.  A text keeps to its place because  *)
(* of the widths of its glyphs (Fit), and cleans it up because the width   *)
(* that was saved is that of the text before (Saved).                      *)
(*                                                                         *)
(* Where a text lies is defined step by step, from one character to the    *)
(* next.  Induction is a fact about sets of numbers here (Induction).      *)
(***************************************************************************)
EXTENDS Display, PanelProofs, WellFoundedInduction

----------------------------------------------------------------------------
(***************************************************************************)
(* Induction and functions defined step by step.                           *)
(***************************************************************************)
\* A set of numbers that has 0 and the successor of each of its elements has all.
LEMMA Induction ==
  ASSUME NEW S, 0 \in S, \A n \in S \intersect Nat : n + 1 \in S
  PROVE  Nat \subseteq S
  <1> SUFFICES ASSUME Nat \ S # {} PROVE FALSE
    OBVIOUS
  <1> DEFINE R == OpToRel(<, Nat)
  <1>1. IsWellFoundedOn(R, Nat)
    BY NatLessThanWellFounded
  <1>2. PICK x \in Nat \ S : \A y \in Nat \ S : ~(<<y, x>> \in R)
    <2> HIDE DEF R
    <2> QED
      BY <1>1, WFMin
  <1>3. \A y \in Nat \ S : ~(y < x)
    BY <1>2 DEF OpToRel
  <1> HIDE DEF R
  <1>4. x # 0 /\ x - 1 \in Nat
    BY <1>2
  <1>5. x - 1 \in S
    BY <1>3, <1>4
  <1> QED
    BY <1>2, <1>4, <1>5

\* A table of n + 1 entries, each found from the one before it.
IsTable(f, S, a, F, n) ==
  /\ f \in [1 .. n + 1 -> S]
  /\ \A i \in 1 .. n + 1 : f[i] = IF i = 1 THEN a ELSE F[<<i - 1, f[i - 1]>>]

\* Such a table exists.
LEMMA Table ==
  ASSUME NEW S, NEW a \in S, NEW F \in [Nat \X S -> S], NEW n \in Nat
  PROVE  \E f : IsTable(f, S, a, F, n)
  <1> DEFINE Is(f, m) == \A i \in 1 .. m + 1 : f[i] = IF i = 1 THEN a ELSE F[<<i - 1, f[i - 1]>>]
             T == {m \in Nat : \E f \in [1 .. m + 1 -> S] : Is(f, m)}
  <1>1. 0 \in T
    <2> DEFINE f == [i \in 1 .. 0 + 1 |-> a]
    <2>1. f \in [1 .. 0 + 1 -> S] /\ Is(f, 0)
      BY SMT
    <2> QED
      BY <2>1, Zenon
  <1>2. ASSUME NEW m \in T \intersect Nat PROVE m + 1 \in T
    <2>1. PICK f \in [1 .. m + 1 -> S] : Is(f, m)
      OBVIOUS
    <2> DEFINE g == [i \in 1 .. (m + 1) + 1 |-> IF i = m + 2 THEN F[<<m + 1, f[m + 1]>>] ELSE f[i]]
    <2>2. m \in Nat /\ f[m + 1] \in S /\ m + 1 \in Nat
      OBVIOUS
    <2>3. g \in [1 .. (m + 1) + 1 -> S]
      BY <2>2, SMT
    <2>4. ASSUME NEW i \in 1 .. (m + 1) + 1
          PROVE  g[i] = IF i = 1 THEN a ELSE F[<<i - 1, g[i - 1]>>]
      <3>1. CASE i = m + 2
        <4>1. g[i] = F[<<m + 1, f[m + 1]>>] /\ i - 1 = m + 1 /\ i # 1
          BY <2>2, <3>1, SMT
        <4>2. g[m + 1] = f[m + 1]
          BY <2>2, SMT
        <4> QED
          BY <4>1, <4>2, Zenon
      <3>2. CASE i # m + 2
        <4>1. i \in 1 .. m + 1 /\ g[i] = f[i] /\ (i # 1 => g[i - 1] = f[i - 1])
          BY <2>2, <3>2, SMT
        <4> QED
          BY <2>1, <4>1, Zenon
      <3> QED
        BY <3>1, <3>2
    <2>5. Is(g, m + 1)
      BY <2>4, Zenon
    <2> HIDE DEF g, Is
    <2>6. \E h \in [1 .. (m + 1) + 1 -> S] : Is(h, m + 1)
      BY <2>3, <2>5, Zenon
    <2> QED
      BY <2>2, <2>6, Zenon
  <1>3. n \in T
    <2> HIDE DEF T
    <2> QED
      BY <1>1, <1>2, Induction
  <1>4. PICK f \in [1 .. n + 1 -> S] : Is(f, n)
    BY <1>3, Zenon
  <1>5. IsTable(f, S, a, F, n)
    BY <1>4, Zenon DEF IsTable
  <1> QED
    BY <1>5, Zenon
----------------------------------------------------------------------------
(***************************************************************************)
(* Where the characters of a text start.                                   *)
(***************************************************************************)
Widths == {Nothing} \union (0 .. 9)

\* A character leads to the right, or nowhere.
LEMMA AfterType ==
  ASSUME NEW x \in Nat, NEW w \in Widths, NEW large
  PROVE  After(x, w, large) \in Nat /\ After(x, w, large) >= x
  BY DEF After, Widths, Nothing, Space, GlyphEnd, Spaced

\* What a function defined by recursion abbreviates.
LEMMA StartsDef ==
  ASSUME NEW x, NEW text, NEW large
  PROVE  Starts(x, text, large) =
           CHOOSE at : at = [i \in 1 .. Len(text) + 1 |->
                              IF i = 1 THEN x ELSE After(at[i - 1], text[i - 1], large)]
  BY Zenon DEF Starts

\* The starts of the characters are as Starts says: the recursion has a solution.
LEMMA StartsAre ==
  ASSUME NEW x \in Nat, NEW text \in Seq(Widths), NEW large
  PROVE  LET at == Starts(x, text, large)
         IN  /\ at \in [1 .. Len(text) + 1 -> Nat]
             /\ at[1] = x
             /\ \A i \in DOMAIN text : at[i + 1] = After(at[i], text[i], large)
  <1> DEFINE F == [q \in Nat \X Nat |-> IF q[1] \in DOMAIN text THEN After(q[2], text[q[1]], large) ELSE 0]
             n == Len(text)
             at == Starts(x, text, large)
  <1>0. n \in Nat /\ DOMAIN text = 1 .. n /\ \A i \in DOMAIN text : text[i] \in Widths
    OBVIOUS
  <1>1. F \in [Nat \X Nat -> Nat]
    <2> SUFFICES ASSUME NEW q \in Nat \X Nat
                 PROVE  (IF q[1] \in DOMAIN text THEN After(q[2], text[q[1]], large) ELSE 0) \in Nat
      BY Zenon
    <2>1. q[1] \in DOMAIN text => text[q[1]] \in Widths
      BY <1>0
    <2>2. q[2] \in Nat /\ 0 \in Nat
      OBVIOUS
    <2> QED
      BY <2>1, <2>2, AfterType, Zenon
  <1>2. PICK f \in [1 .. n + 1 -> Nat] :
             \A i \in 1 .. n + 1 : f[i] = IF i = 1 THEN x ELSE F[<<i - 1, f[i - 1]>>]
    <2>1. x \in Nat /\ n \in Nat /\ F \in [Nat \X Nat -> Nat]
      BY <1>0, <1>1
    <2> HIDE DEF F, n
    <2>2. PICK f : IsTable(f, Nat, x, F, n)
      BY <2>1, Table, Zenon
    <2> QED
      BY <2>2, Zenon DEF IsTable
  <1>3. ASSUME NEW i \in 1 .. n + 1, i # 1
        PROVE  F[<<i - 1, f[i - 1]>>] = After(f[i - 1], text[i - 1], large)
    <2>1. i - 1 \in DOMAIN text /\ i - 1 \in Nat /\ f[i - 1] \in Nat
      BY <1>0, <1>2, <1>3
    <2> QED
      BY <2>1, Zenon
  <1> HIDE DEF F
  <1>4. \A i \in 1 .. n + 1 : f[i] = IF i = 1 THEN x ELSE After(f[i - 1], text[i - 1], large)
    BY <1>2, <1>3, Zenon
  <1>5. f = [i \in 1 .. n + 1 |-> IF i = 1 THEN x ELSE After(f[i - 1], text[i - 1], large)]
    BY <1>2, <1>4, Zenon
  <1>6. at = [i \in 1 .. n + 1 |-> IF i = 1 THEN x ELSE After(at[i - 1], text[i - 1], large)]
    BY <1>5, StartsDef, Zenon
  <1> HIDE DEF at
  <1>7. \A i \in 1 .. n + 1 : at[i] = IF i = 1 THEN x ELSE After(at[i - 1], text[i - 1], large)
    BY <1>6, Zenon
  <1>8. \A i \in 1 .. n : at[i + 1] = After(at[i], text[i], large)
    <2> SUFFICES ASSUME NEW i \in 1 .. n PROVE at[i + 1] = After(at[i], text[i], large)
      OBVIOUS
    <2>1. i + 1 \in 1 .. n + 1 /\ i + 1 # 1 /\ (i + 1) - 1 = i
      BY <1>0
    <2> QED
      BY <1>7, <2>1, Zenon
  <1>9. Nat \subseteq {m \in Nat : m + 1 \in 1 .. n + 1 => at[m + 1] \in Nat}
    <2> DEFINE S == {m \in Nat : m + 1 \in 1 .. n + 1 => at[m + 1] \in Nat}
    <2>1. 0 \in S
      BY <1>7, <1>0
    <2>2. ASSUME NEW m \in S \intersect Nat PROVE m + 1 \in S
      <3> SUFFICES ASSUME (m + 1) + 1 \in 1 .. n + 1 PROVE at[(m + 1) + 1] \in Nat
        BY <2>2
      <3>1. m + 1 \in 1 .. n /\ at[m + 1] \in Nat
        BY <1>0, <2>2
      <3>2. text[m + 1] \in Widths
        BY <1>0, <3>1
      <3>3. After(at[m + 1], text[m + 1], large) \in Nat
        BY <3>1, <3>2, AfterType
      <3> QED
        BY <1>8, <3>1, <3>3, Zenon
    <2>3. Nat \subseteq S
      <3> HIDE DEF S
      <3> QED
        BY <2>1, <2>2, Induction
    <2> QED
      BY <2>3
  <1>10. ASSUME NEW i \in 1 .. n + 1 PROVE at[i] \in Nat
    <2>1. i - 1 \in Nat /\ (i - 1) + 1 = i
      BY <1>0
    <2> QED
      BY <1>9, <2>1
  <1>11. at \in [1 .. n + 1 -> Nat]
    BY <1>6, <1>10, Zenon
  <1>12. at[1] = x
    BY <1>0, <1>7
  <1> QED
    BY <1>0, <1>8, <1>11, <1>12, Zenon DEF at

----------------------------------------------------------------------------
\* A text goes on to the right.
LEMMA Ascending ==
  ASSUME NEW x \in Nat, NEW text \in Seq(Widths), NEW large,
         NEW i \in 1 .. Len(text) + 1, NEW j \in i .. Len(text) + 1
  PROVE  LET at == Starts(x, text, large) IN at[i] \in Nat /\ at[j] \in Nat /\ at[i] <= at[j]
  <1> DEFINE at == Starts(x, text, large)
             n == Len(text)
             T == {m \in Nat : i + m <= n + 1 => at[i] <= at[i + m]}
  <1>0. n \in Nat /\ DOMAIN text = 1 .. n /\ \A k \in DOMAIN text : text[k] \in Widths
    OBVIOUS
  <1>1. at \in [1 .. n + 1 -> Nat] /\ \A k \in DOMAIN text : at[k + 1] = After(at[k], text[k], large)
    BY StartsAre
  <1> HIDE DEF at, n
  <1>2. 0 \in T
    <2>1. i + 0 = i /\ at[i] \in Nat
      BY <1>0, <1>1 DEF n
    <2> QED
      BY <2>1
  <1>3. ASSUME NEW m \in T \intersect Nat PROVE m + 1 \in T
    <2> SUFFICES ASSUME i + (m + 1) <= n + 1 PROVE at[i] <= at[i + (m + 1)]
      BY <1>3
    <2>1. i + m \in 1 .. n /\ i + (m + 1) = (i + m) + 1 /\ i \in 1 .. n + 1
      BY <1>0, <1>3 DEF n
    <2>2. at[i] \in Nat /\ at[i + m] \in Nat /\ text[i + m] \in Widths /\ at[i] <= at[i + m]
      BY <1>0, <1>1, <1>3, <2>1
    <2>3. /\ at[(i + m) + 1] = After(at[i + m], text[i + m], large)
          /\ After(at[i + m], text[i + m], large) \in Nat
          /\ After(at[i + m], text[i + m], large) >= at[i + m]
      BY <1>0, <1>1, <2>1, <2>2, AfterType
    <2> QED
      BY <2>1, <2>2, <2>3
  <1>4. Nat \subseteq T
    <2> HIDE DEF T
    <2> QED
      BY <1>2, <1>3, Induction
  <1>5. j - i \in Nat /\ i + (j - i) = j /\ j \in 1 .. n + 1 /\ i \in 1 .. n + 1
    BY DEF n
  <1>6. at[i] <= at[i + (j - i)]
    BY <1>4, <1>5
  <1> QED
    BY <1>1, <1>5, <1>6, Zenon DEF at

IsStarts(at, x, text, large) ==
  /\ at[1] = x
  /\ \A i \in DOMAIN text : at[i + 1] = After(at[i], text[i], large)

\* The starts of the characters of a text, and their order.
LEMMA StartsInOrder ==
  ASSUME NEW x \in Nat, NEW text \in Seq(Widths), NEW large
  PROVE  IsStarts(Starts(x, text, large), x, text, large)
  BY StartsAre DEF IsStarts

\* A text without spaces.
Inked == {Nothing} \union (1 .. 9)

LEMMA InkedWidths == \A text \in Seq(Inked) : text \in Seq(Widths)
  BY DEF Inked, Widths

LEMMA AfterNothing == \A y \in Nat : \A large : After(y, Nothing, large) = y
  BY DEF After, Nothing, Space

\* The columns behind its glyphs.
EndsOf(x, text, large) ==
  LET at == Starts(x, text, large)
  IN  {GlyphEnd(at[i], text[i]) : i \in {j \in Glyphs(text) : Spaced(at[j], text[j], large)}}

\* One glyph of a text that the display has room for.
LEMMA OneGlyph ==
  ASSUME NEW x \in 0 .. 128, NEW w \in 1 .. 9, NEW large \in BOOLEAN, After(x, w, large) <= 128
  PROVE  /\ GlyphEnd(x, w) \in x .. 128
         /\ GlyphBody(x, w) = x .. GlyphEnd(x, w) - 1
         /\ Spaced(x, w, large) => /\ After(x, w, large) = GlyphEnd(x, w) + 1
                                   /\ GlyphEnd(x, w) < 128 /\ x < GlyphEnd(x, w)
                                   /\ SpaceColumn(x, w) = IF GlyphEnd(x, w) = 64 THEN 0 ELSE GlyphEnd(x, w)
         /\ ~Spaced(x, w, large) => After(x, w, large) = GlyphEnd(x, w)
  <1>1. After(x, w, large) = GlyphEnd(x, w) + (IF Spaced(x, w, large) THEN 1 ELSE 0)
    BY DEF After, Nothing, Space
  <1>2. GlyphEnd(x, w) \in x .. 128 /\ (x < 128 => x < GlyphEnd(x, w))
    BY DEF GlyphEnd
  <1>3. GlyphBody(x, w) = x .. GlyphEnd(x, w) - 1
    BY DEF GlyphBody
  <1>4. ASSUME Spaced(x, w, large)
        PROVE  /\ GlyphEnd(x, w) < 128 /\ x < GlyphEnd(x, w)
               /\ SpaceColumn(x, w) = IF GlyphEnd(x, w) = 64 THEN 0 ELSE GlyphEnd(x, w)
    <2>1. GlyphEnd(x, w) < 128
      BY <1>1, <1>2, <1>4
    <2>2. x < GlyphEnd(x, w)
      BY <1>2, <2>1
    <2> DEFINE e == GlyphEnd(x, w)
    <2>3. 1 \in Writers(x, w) <=> (x >= 64 \/ e > 64)
      BY DEF Writers
    <2>4. e \in 1 .. 127 /\ x \in 0 .. 126
      BY <1>2, <2>1, <2>2
    <2>5. SpaceColumn(x, w) = 64 * (IF x >= 64 \/ e > 64 THEN 1 ELSE 0) + (e % 64)
      BY <2>3 DEF SpaceColumn, Wrapped
    <2> HIDE DEF e
    <2>6. e % 64 = IF e < 64 THEN e ELSE e - 64
      BY <2>4
    <2> QED
      BY <2>1, <2>2, <2>4, <2>5, <2>6 DEF e
  <1> QED
    BY <1>1, <1>2, <1>3, <1>4

\* A text is glyphs and the columns behind them, side by side, and what is cleared is
\* these columns, but for column 64: the left controller clears its column 0 instead.
Shaped(x, text, large) ==
  LET l    == Layout(x, text, large)
      ends == EndsOf(x, text, large)
  IN  /\ l.end \in x .. 128
      /\ \A c \in Int : c \in l.body \/ c \in ends <=> c \in x .. l.end - 1
      /\ \A c \in ends : c \notin l.body /\ c \in x + 1 .. 127
      /\ \A c : c \in l.gaps <=> \E e \in ends : c = IF e = 64 THEN 0 ELSE e

\* A text that ends on the display covers every column from its start to its end once:
\* with a glyph or with the space behind one.
LEMMA Shape ==
  ASSUME NEW x \in 0 .. 128, NEW text \in Seq(Inked), NEW large \in BOOLEAN,
         Layout(x, text, large).end <= 128
  PROVE  Shaped(x, text, large)
  <1> DEFINE at   == Starts(x, text, large)
             n    == Len(text)
             G    == Glyphs(text)
             S    == {j \in G : Spaced(at[j], text[j], large)}
             E(i) == GlyphEnd(at[i], text[i])
             B(i) == GlyphBody(at[i], text[i])
             body == UNION {B(i) : i \in G}
             gaps == {SpaceColumn(at[i], text[i]) : i \in S}
             ends == {E(i) : i \in S}
  <1>0. /\ n \in Nat /\ DOMAIN text = 1 .. n /\ text \in Seq(Widths) /\ x \in Nat
        /\ \A k \in DOMAIN text : text[k] \in Inked
    BY InkedWidths
  <1>1. at \in [1 .. n + 1 -> Nat] /\ at[1] = x /\ \A k \in 1 .. n : at[k + 1] = After(at[k], text[k], large)
    BY <1>0, StartsAre
  <1>2. /\ Layout(x, text, large).end = at[n + 1]
        /\ Layout(x, text, large).body = body
        /\ Layout(x, text, large).gaps = gaps
        /\ EndsOf(x, text, large) = ends
    BY DEF Layout, EndsOf
  <1>3. \A i \in 1 .. n + 1 : \A j \in i .. n + 1 : at[i] <= at[j]
    BY <1>0, Ascending
  <1>4. \A i \in 1 .. n + 1 : at[i] \in x .. 128 /\ at[i] <= at[n + 1]
    <2> HIDE DEF at, n, body, gaps, ends
    <2> SUFFICES ASSUME NEW i \in 1 .. n + 1 PROVE at[i] \in x .. 128 /\ at[i] <= at[n + 1]
      OBVIOUS
    <2>1. at[1] <= at[i] /\ at[i] <= at[n + 1]
      BY <1>0, <1>3
    <2> QED
      BY <1>0, <1>1, <1>2, <2>1
  <1> HIDE DEF at, n
  <1>5. G = {i \in 1 .. n : text[i] \in 1 .. 9} /\ \A i \in (1 .. n) \ G : at[i + 1] = at[i]
    <2>1. \A y \in Nat : After(y, Nothing, large) = y
      BY AfterNothing
    <2>2. \A w \in Inked : w = Nothing \/ w \in 1 .. 9
      BY DEF Inked
    <2>3. Nothing \notin 1 .. 9 /\ Space \notin Inked
      BY DEF Nothing, Space, Inked
    <2>4. G = {i \in 1 .. n : text[i] \notin {Nothing, Space}}
      BY <1>0, Zenon DEF Glyphs
    <2>5. \A i \in 1 .. n : text[i] \in Inked
      BY <1>0, Zenon
    <2> HIDE DEF G
    <2>6. \A i \in 1 .. n : i \in G <=> text[i] \in 1 .. 9
      BY <2>2, <2>3, <2>4, <2>5, ZenonT(40)
    <2>7. \A i \in (1 .. n) \ G : at[i + 1] = at[i]
      <3> SUFFICES ASSUME NEW i \in (1 .. n) \ G PROVE at[i + 1] = at[i]
        OBVIOUS
      <3>1. text[i] = Nothing /\ i \in 1 .. n
        BY <2>2, <2>5, <2>6, Zenon
      <3>2. at[i] \in Nat
        BY <1>0, <1>1
      <3> QED
        BY <1>1, <2>1, <3>1, <3>2, Zenon
    <2> QED
      BY <2>4, <2>6, <2>7, Zenon
  <1>6. \A i \in G : /\ i \in 1 .. n
                     /\ E(i) \in at[i] .. 128
                     /\ B(i) = at[i] .. E(i) - 1
                     /\ i \in S => /\ at[i + 1] = E(i) + 1 /\ E(i) \in at[i] + 1 .. 127
                                  /\ SpaceColumn(at[i], text[i]) = IF E(i) = 64 THEN 0 ELSE E(i)
                     /\ i \notin S => at[i + 1] = E(i)
    <2> HIDE DEF G
    <2> SUFFICES ASSUME NEW i \in G
                 PROVE  /\ i \in 1 .. n
                        /\ E(i) \in at[i] .. 128
                        /\ B(i) = at[i] .. E(i) - 1
                        /\ i \in S => /\ at[i + 1] = E(i) + 1 /\ E(i) \in at[i] + 1 .. 127
                                     /\ SpaceColumn(at[i], text[i]) = IF E(i) = 64 THEN 0 ELSE E(i)
                        /\ i \notin S => at[i + 1] = E(i)
      BY Zenon
    <2>1. i \in 1 .. n /\ text[i] \in 1 .. 9
      BY <1>5
    <2>2. at[i] \in 0 .. 128 /\ at[i + 1] <= 128 /\ at[i + 1] = After(at[i], text[i], large)
      <3>1. i \in 1 .. n + 1 /\ i + 1 \in 1 .. n + 1
        BY <1>0, <2>1
      <3>2. at[i] \in x .. 128 /\ at[i + 1] \in x .. 128
        BY <1>4, <3>1, Zenon
      <3>3. at[i + 1] = After(at[i], text[i], large)
        BY <1>1, <2>1, Zenon
      <3>4. \A y \in x .. 128 : y \in 0 .. 128 /\ y <= 128
        BY <1>0
      <3> QED
        BY <3>2, <3>3, <3>4, Zenon
    <2>3. i \in S <=> Spaced(at[i], text[i], large)
      OBVIOUS
    <2>4. After(at[i], text[i], large) <= 128
      BY <2>2
    <2> HIDE DEF S
    <2>5. /\ E(i) \in at[i] .. 128
          /\ B(i) = at[i] .. E(i) - 1
          /\ i \in S => /\ After(at[i], text[i], large) = E(i) + 1 /\ E(i) \in at[i] + 1 .. 127
                       /\ SpaceColumn(at[i], text[i]) = IF E(i) = 64 THEN 0 ELSE E(i)
          /\ i \notin S => After(at[i], text[i], large) = E(i)
      <3>0. at[i] \in Int
        <4>1. \A y \in 0 .. 128 : y \in Int
          OBVIOUS
        <4> QED
          BY <2>2, <4>1, Zenon
      <3>1. at[i] \in 0 .. 128 /\ text[i] \in 1 .. 9
        BY <2>1, <2>2
      <3>2. LET a == at[i]
                w == text[i]
            IN  /\ GlyphEnd(a, w) \in a .. 128
                /\ GlyphBody(a, w) = a .. GlyphEnd(a, w) - 1
                /\ Spaced(a, w, large) => /\ After(a, w, large) = GlyphEnd(a, w) + 1
                                          /\ GlyphEnd(a, w) < 128 /\ a < GlyphEnd(a, w)
                                          /\ SpaceColumn(a, w) = IF GlyphEnd(a, w) = 64 THEN 0 ELSE GlyphEnd(a, w)
                /\ ~Spaced(a, w, large) => After(a, w, large) = GlyphEnd(a, w)
        BY <2>4, <3>1, OneGlyph
      <3> QED
        BY <2>3, <3>0, <3>2
    <2> QED
      BY <2>1, <2>2, <2>5, Zenon
  <1> HIDE DEF G, S, E, B
  <1>7. \A i, j \in G : i < j => E(i) <= at[j] /\ (i \in S => E(i) < at[j])
    <2> SUFFICES ASSUME NEW i \in G, NEW j \in G, i < j PROVE E(i) <= at[j] /\ (i \in S => E(i) < at[j])
      BY Zenon
    <2>1. i \in 1 .. n /\ j \in 1 .. n /\ i + 1 \in 1 .. n + 1 /\ j \in i + 1 .. n + 1
      BY <1>0, <1>6
    <2>2. at[i + 1] <= at[j] /\ at[i + 1] \in Nat /\ at[j] \in Nat
      BY <1>1, <1>3, <2>1
    <2> QED
      BY <1>6, <2>1, <2>2, SMTT(20)
  <1> DEFINE Covered(c) == \E j \in G : c \in B(j) \/ (j \in S /\ c = E(j))
             T == {m \in Nat : m <= n => \A c \in x .. at[m + 1] - 1 : Covered(c)}
  <1>8. Nat \subseteq T
    <2>1. 0 \in T
      BY <1>0, <1>1
    <2>2. ASSUME NEW m \in T \intersect Nat PROVE m + 1 \in T
      <3> SUFFICES ASSUME m + 1 <= n, NEW c \in x .. at[(m + 1) + 1] - 1 PROVE Covered(c)
        BY <2>2
      <3>1. m + 1 \in 1 .. n /\ (c \in x .. at[m + 1] - 1 => Covered(c))
        BY <1>0, <2>2
      <3>2. CASE m + 1 \in G
        <4>1. /\ E(m + 1) \in at[m + 1] .. 128 /\ B(m + 1) = at[m + 1] .. E(m + 1) - 1
              /\ m + 1 \in S => at[(m + 1) + 1] = E(m + 1) + 1
              /\ m + 1 \notin S => at[(m + 1) + 1] = E(m + 1)
          BY <1>6, <3>2, ZenonT(40)
        <4>2. at[m + 1] \in Nat
          BY <1>0, <1>1, <3>1
        <4>3. CASE c < at[m + 1]
          BY <3>1, <4>2, <4>3
        <4>4. CASE c >= at[m + 1]
          <5>1. c \in B(m + 1) \/ (m + 1 \in S /\ c = E(m + 1))
            BY <4>1, <4>2, <4>4
          <5> QED
            BY <3>2, <5>1, Zenon
        <4> QED
          BY <4>2, <4>3, <4>4
      <3>3. CASE m + 1 \notin G
        BY <1>5, <3>1, <3>3
      <3> QED
        BY <3>2, <3>3
    <2> HIDE DEF T
    <2> QED
      BY <2>1, <2>2, Induction
  <1>9. at[n + 1] \in x .. 128
    BY <1>0, <1>4
  <1>10. ASSUME NEW c \in Int PROVE c \in body \/ c \in ends <=> c \in x .. at[n + 1] - 1
    <2>1. c \in body \/ c \in ends <=> Covered(c)
      BY <1>6 DEF S
    <2>2. ASSUME Covered(c) PROVE c \in x .. at[n + 1] - 1
      <3>1. PICK j \in G : c \in B(j) \/ (j \in S /\ c = E(j))
        BY <2>2
      <3>2. j \in 1 .. n /\ j \in 1 .. n + 1 /\ j + 1 \in 1 .. n + 1
        BY <1>0, <1>6
      <3>3. at[j] \in x .. 128 /\ at[j + 1] \in x .. 128 /\ at[j + 1] <= at[n + 1]
        BY <1>4, <3>2
      <3> QED
        <4>1. /\ E(j) \in at[j] .. 128 /\ B(j) = at[j] .. E(j) - 1
              /\ j \in S => at[j + 1] = E(j) + 1
              /\ j \notin S => at[j + 1] = E(j)
          BY <1>6, ZenonT(40)
        <4> QED
          BY <1>9, <3>1, <3>3, <4>1
    <2>3. ASSUME c \in x .. at[n + 1] - 1 PROVE Covered(c)
      BY <1>0, <1>8, <2>3
    <2> QED
      BY <2>1, <2>2, <2>3
  <1>11. ASSUME NEW c \in ends PROVE c \notin body /\ c \in x + 1 .. 127
    <2>1. PICK i \in S : c = E(i)
      OBVIOUS
    <2>2. i \in G
      BY <2>1 DEF S
    <2>3. c \in x + 1 .. 127
      <3>1. i \in 1 .. n /\ E(i) \in at[i] + 1 .. 127
        BY <1>6, <2>2, ZenonT(40)
      <3>2. at[i] \in x .. 128
        BY <1>0, <1>4, <3>1
      <3>3. \A y \in x .. 128, e \in Int : e \in y + 1 .. 127 => e \in x + 1 .. 127
        BY <1>0
      <3>4. E(i) \in Int
        BY <3>1
      <3> QED
        BY <2>1, <3>1, <3>2, <3>3, <3>4, Zenon
    <2>4. ASSUME c \in body PROVE FALSE
      <3>1. PICK j \in G : c \in B(j)
        BY <2>4
      <3>2. i \in 1 .. n /\ j \in 1 .. n /\ at[i] \in Nat /\ at[j] \in Nat
        <4>1. i \in 1 .. n /\ j \in 1 .. n
          BY <1>6, <2>2, Zenon
        <4> QED
          BY <1>0, <1>1, <4>1
      <3>6. /\ E(i) \in at[i] .. 128 /\ E(j) \in at[j] .. 128
            /\ B(i) = at[i] .. E(i) - 1 /\ B(j) = at[j] .. E(j) - 1
        BY <1>6, <2>2, ZenonT(40)
      <3>7. (i < j => E(i) < at[j]) /\ (j < i => E(j) <= at[i])
        <4>2. i < j => E(i) < at[j]
          BY <1>7, <2>2, Zenon
        <4>3. j < i => E(j) <= at[i]
          BY <1>7, <2>2, Zenon
        <4> QED
          BY <4>2, <4>3
      <3>3. CASE i < j
        BY <2>1, <3>1, <3>2, <3>3, <3>6, <3>7
      <3>4. CASE i = j
        BY <2>1, <3>1, <3>2, <3>4, <3>6
      <3>5. CASE j < i
        BY <2>1, <3>1, <3>2, <3>5, <3>6, <3>7
      <3> QED
        BY <3>2, <3>3, <3>4, <3>5
    <2> QED
      BY <2>3, <2>4
  <1>12. ASSUME NEW c PROVE c \in gaps <=> \E e \in ends : c = IF e = 64 THEN 0 ELSE e
    <2>1. \A i \in S : SpaceColumn(at[i], text[i]) = IF E(i) = 64 THEN 0 ELSE E(i)
      BY <1>6 DEF S
    <2>2. ASSUME c \in gaps PROVE \E e \in ends : c = IF e = 64 THEN 0 ELSE e
      <3>1. PICK i \in S : c = SpaceColumn(at[i], text[i])
        BY <2>2
      <3>2. E(i) \in ends
        OBVIOUS
      <3>3. c = IF E(i) = 64 THEN 0 ELSE E(i)
        BY <2>1, <3>1
      <3> QED
        BY <3>2, <3>3, Zenon
    <2>3. ASSUME NEW e \in ends, c = IF e = 64 THEN 0 ELSE e PROVE c \in gaps
      <3>1. PICK i \in S : e = E(i)
        OBVIOUS
      <3>2. c = SpaceColumn(at[i], text[i])
        BY <2>1, <2>3, <3>1
      <3> QED
        BY <3>2
    <2> QED
      BY <2>2, <2>3, Zenon
  <1> HIDE DEF body, gaps, ends
  <1> QED
    BY <1>2, <1>9, <1>10, <1>11, <1>12 DEF Shaped

Numeral == {Nothing, 5, 9}
LEMMA SeqSubset ==
  ASSUME NEW S, NEW T, S \subseteq T, NEW s \in Seq(S)
  PROVE  s \in Seq(T) /\ Len(s) \in Nat /\ DOMAIN s = 1 .. Len(s) /\ \A i \in DOMAIN s : s[i] \in S
  OBVIOUS

\* The large font does not leave the display.
LEMMA AfterLarge == \A y \in 0 .. 128, w \in Inked : After(y, w, TRUE) \in y .. 128
  <1> SUFFICES ASSUME NEW y \in 0 .. 128, NEW w \in Inked PROVE After(y, w, TRUE) \in y .. 128
    OBVIOUS
  <1> DEFINE a == After(y, w, TRUE)
             e == GlyphEnd(y, w)
  <1>1. w = Nothing \/ w \in 1 .. 9
    BY DEF Inked
  <1>2. CASE w = Nothing
    BY <1>2 DEF After, Nothing, Space
  <1>3. CASE w \in 1 .. 9
    <2>1. a = e + (IF e < 128 THEN 1 ELSE 0)
      BY <1>3 DEF After, Nothing, Space, Spaced
    <2>2. e \in y .. 128
      BY <1>3 DEF GlyphEnd
    <2> HIDE DEF a, e
    <2>3. a \in y .. 128
      BY <2>1, <2>2
    <2> QED
      BY <2>3 DEF a
  <1> QED
    BY <1>1, <1>2, <1>3

\* The glyphs of large digits are odd, so that with their spaces they are even.
LEMMA AfterNumeral ==
  \A y \in 0 .. 128, w \in Numeral :
     y % 2 = 0 => /\ After(y, w, TRUE) \in 0 .. 128 /\ After(y, w, TRUE) % 2 = 0
                  /\ After(y, w, TRUE) <= y + 10
  <1> SUFFICES ASSUME NEW y \in 0 .. 128, y % 2 = 0, NEW w \in Numeral
               PROVE  /\ After(y, w, TRUE) \in 0 .. 128 /\ After(y, w, TRUE) % 2 = 0
                      /\ After(y, w, TRUE) <= y + 10
    OBVIOUS
  <1> DEFINE a == After(y, w, TRUE)
  <1>1. CASE w = Nothing
    BY <1>1 DEF After, Nothing, Space
  <1>2. CASE w \in {5, 9}
    <2>1. a = IF y + w + 1 < 128 THEN y + w + 1 ELSE 128
      BY <1>2 DEF After, Nothing, Space, Spaced, GlyphEnd
    <2> HIDE DEF a
    <2>2. (y + 6) % 2 = 0 /\ (y + 10) % 2 = 0 /\ 128 % 2 = 0
      OBVIOUS
    <2>3. a \in 0 .. 128 /\ a % 2 = 0 /\ a <= y + 10
      BY <1>2, <2>1, <2>2
    <2> QED
      BY <2>3 DEF a
  <1> QED
    BY <1>1, <1>2 DEF Numeral

Kept(R, text, large) ==
  \A m \in 0 .. Len(text) - 1, y \in Nat :
    <<m, y>> \in R => <<m + 1, After(y, text[m + 1], large)>> \in R

\* A relation between the characters drawn and the columns reached, by induction over a text.
LEMMA TextInduction ==
  ASSUME NEW x \in Nat, NEW text \in Seq(Inked), NEW large, NEW R, <<0, x>> \in R, Kept(R, text, large)
  PROVE  \A m \in 0 .. Len(text) : <<m, Starts(x, text, large)[m + 1]>> \in R
  <1> DEFINE at == Starts(x, text, large)
             n  == Len(text)
             T  == {m \in Nat : m <= n => <<m, at[m + 1]>> \in R}
  <1>1. n \in Nat /\ DOMAIN text = 1 .. n /\ text \in Seq(Widths) /\ x \in Nat
    BY InkedWidths
  <1>2. at \in [1 .. n + 1 -> Nat] /\ at[1] = x /\ \A i \in 1 .. n : at[i + 1] = After(at[i], text[i], large)
    <2>1. /\ at \in [1 .. Len(text) + 1 -> Nat]
          /\ at[1] = x
          /\ \A i \in DOMAIN text : at[i + 1] = After(at[i], text[i], large)
      BY <1>1, StartsAre
    <2> QED
      BY <1>1, <2>1
  <1>3. \A m \in 0 .. n - 1, y \in Nat : <<m, y>> \in R => <<m + 1, After(y, text[m + 1], large)>> \in R
    BY Zenon DEF Kept
  <1> HIDE DEF at, n
  <1>4. Nat \subseteq T
    <2>1. 0 \in T
      <3>1. at[0 + 1] = x
        BY <1>2
      <3> QED
        BY <3>1
    <2>2. ASSUME NEW m \in T \intersect Nat PROVE m + 1 \in T
      <3> SUFFICES ASSUME m + 1 <= n PROVE <<m + 1, at[(m + 1) + 1]>> \in R
        BY <2>2
      <3>1. m \in 0 .. n - 1 /\ m + 1 \in 1 .. n /\ <<m, at[m + 1]>> \in R /\ m + 1 \in 1 .. n + 1
        BY <1>1, <2>2
      <3>2. at[m + 1] \in Nat
        BY <1>2, <3>1, Zenon
      <3>3. at[(m + 1) + 1] = After(at[m + 1], text[m + 1], large)
        BY <1>2, <3>1, Zenon
      <3> QED
        BY <1>3, <3>1, <3>2, <3>3, Zenon
    <2> HIDE DEF T
    <2> QED
      BY <2>1, <2>2, Induction
  <1> QED
    BY <1>1, <1>4 DEF n, at

\* A small glyph narrower than k takes at most k columns with its space.
LEMMA AfterSmall ==
  \A k \in 2 .. 10, y \in 0 .. 127, w \in Inked :
    w < k /\ y + k <= 128 => After(y, w, FALSE) <= y + k
  <1> SUFFICES ASSUME NEW k \in 2 .. 10, NEW y \in 0 .. 127, NEW w \in Inked, w < k, y + k <= 128
               PROVE  After(y, w, FALSE) <= y + k
    OBVIOUS
  <1> DEFINE a == After(y, w, FALSE)
  <1>1. CASE w = Nothing
    BY <1>1 DEF After, Nothing, Space
  <1>2. CASE w \in 1 .. 9
    <2>1. a = y + w + 1
      BY <1>2 DEF After, Nothing, Space, Spaced, GlyphEnd
    <2> HIDE DEF a
    <2>2. a <= y + k
      BY <1>2, <2>1
    <2> QED
      BY <2>2 DEF a
  <1> QED
    BY <1>1, <1>2 DEF Inked

LEMMA LayoutEnd == \A x, text, large : Layout(x, text, large).end = Starts(x, text, large)[Len(text) + 1]
  BY DEF Layout

\* A text in the small font, of glyphs narrower than k.
LEMMA SmallEnd ==
  ASSUME NEW k \in 2 .. 10, NEW x \in 0 .. 127, NEW text \in Seq({Nothing} \union (1 .. k - 1)),
         x + k * Len(text) <= 128
  PROVE  /\ text \in Seq(Inked)
         /\ Layout(x, text, FALSE).end \in Nat
         /\ Layout(x, text, FALSE).end <= x + k * Len(text)
  <1> DEFINE n == Len(text)
             R == {q \in Nat \X Nat : q[1] <= n => q[2] <= x + k * q[1]}
  <1>1. /\ text \in Seq(Inked) /\ n \in Nat
        /\ \A i \in 1 .. n : text[i] \in Inked /\ text[i] < k
    <2>1. \A w \in {Nothing} \union (1 .. k - 1) : w \in Inked /\ w < k
      BY DEF Inked, Nothing
    <2>2. /\ text \in Seq(Inked) /\ Len(text) \in Nat /\ DOMAIN text = 1 .. Len(text)
          /\ \A i \in DOMAIN text : text[i] \in {Nothing} \union (1 .. k - 1)
      BY <2>1, SeqSubset
    <2> QED
      BY <2>1, <2>2, Zenon
  <1>0. \A m \in Nat, y \in Nat : <<m, y>> \in R <=> (m <= n => y <= x + k * m)
    OBVIOUS
  <1> HIDE DEF R
  <1>2. <<0, x>> \in R
    BY <1>0
  <1>3. Kept(R, text, FALSE)
    <2> SUFFICES ASSUME NEW m \in 0 .. n - 1, NEW y \in Nat, <<m, y>> \in R
                 PROVE  <<m + 1, After(y, text[m + 1], FALSE)>> \in R
      BY Zenon DEF Kept
    <2>1. m \in Nat /\ m + 1 \in 1 .. n /\ m + 1 \in Nat
      BY <1>1
    <2>2. y <= x + k * m
      BY <1>0, <2>1
    <2>3. text[m + 1] \in Inked /\ text[m + 1] < k
      BY <1>1, <2>1, Zenon
    <2> DEFINE a == After(y, text[m + 1], FALSE)
    <2>4. k * (m + 1) = k * m + k /\ k * (m + 1) <= k * n
      <3>1. \A b, c \in Nat : b <= c => k * b <= k * c
        OBVIOUS
      <3> QED
        BY <1>1, <2>1, <3>1
    <2>5. y + k <= 128 /\ y \in 0 .. 127
      BY <1>1, <2>1, <2>2, <2>4
    <2>6. a <= y + k
      BY <2>3, <2>5, AfterSmall, Zenon
    <2>7. a \in Nat
      <3>1. text[m + 1] \in Widths
        BY <2>3 DEF Inked, Widths
      <3> QED
        BY <3>1, AfterType, Zenon
    <2> HIDE DEF a
    <2>8. <<m + 1, a>> \in R
      BY <1>0, <2>1, <2>2, <2>4, <2>6, <2>7
    <2> QED
      BY <2>8 DEF a
  <1>4. \A m \in 0 .. n : <<m, Starts(x, text, FALSE)[m + 1]>> \in R
    <2>1. x \in Nat
      OBVIOUS
    <2> QED
      BY <1>1, <1>2, <1>3, <2>1, TextInduction, Zenon
  <1> DEFINE a == Starts(x, text, FALSE)[n + 1]
  <1>5. <<n, a>> \in R
    <2>1. n \in 0 .. n
      BY <1>1
    <2> QED
      BY <1>4, <2>1, Zenon
  <1>6. Layout(x, text, FALSE).end = a
    BY LayoutEnd, Zenon
  <1> HIDE DEF a
  <1>7. a \in Nat /\ a <= x + k * n
    <2>1. a \in Nat
      BY <1>5 DEF R
    <2> QED
      BY <1>0, <1>1, <1>5, <2>1
  <1> QED
    BY <1>1, <1>6, <1>7, Zenon

\* A text in the large font stays on the display.
LEMMA LargeEnd ==
  ASSUME NEW x \in 0 .. 128, NEW text \in Seq(Inked)
  PROVE  Layout(x, text, TRUE).end \in x .. 128
  <1> DEFINE n == Len(text)
             R == Nat \X (x .. 128)
  <1>1. n \in Nat /\ \A i \in 1 .. n : text[i] \in Inked
    OBVIOUS
  <1>0. \A m, y : <<m, y>> \in R <=> m \in Nat /\ y \in x .. 128
    OBVIOUS
  <1> HIDE DEF R
  <1>2. <<0, x>> \in R
    BY <1>0
  <1>3. Kept(R, text, TRUE)
    <2> SUFFICES ASSUME NEW m \in 0 .. n - 1, NEW y \in Nat, <<m, y>> \in R
                 PROVE  <<m + 1, After(y, text[m + 1], TRUE)>> \in R
      BY Zenon DEF Kept
    <2>1. m + 1 \in 1 .. n /\ m + 1 \in Nat
      BY <1>1
    <2>2. y \in x .. 128 /\ y \in 0 .. 128 /\ \A z \in y .. 128 : z \in x .. 128
      BY <1>0
    <2>3. After(y, text[m + 1], TRUE) \in y .. 128
      BY <1>1, <2>1, <2>2, AfterLarge, Zenon
    <2> QED
      BY <1>0, <2>1, <2>2, <2>3, Zenon
  <1>4. \A m \in 0 .. n : <<m, Starts(x, text, TRUE)[m + 1]>> \in R
    <2>1. x \in Nat
      OBVIOUS
    <2> QED
      BY <1>2, <1>3, <2>1, TextInduction, Zenon
  <1> DEFINE a == Starts(x, text, TRUE)[n + 1]
  <1>5. <<n, a>> \in R
    <2>1. n \in 0 .. n
      BY <1>1
    <2> QED
      BY <1>4, <2>1, Zenon
  <1>6. Layout(x, text, TRUE).end = a
    BY LayoutEnd, Zenon
  <1> HIDE DEF a
  <1>7. a \in x .. 128
    BY <1>0, <1>5, Zenon
  <1> QED
    BY <1>6, <1>7, Zenon

\* Digits of the large font are 5 and 9 columns wide: with the column between them,
\* they start at even columns and end before odd ones.
LEMMA NumeralEnd ==
  ASSUME NEW x \in 0 .. 128, x % 2 = 0, NEW text \in Seq(Numeral)
  PROVE  /\ text \in Seq(Inked)
         /\ Layout(x, text, TRUE).end <= x + 10 * Len(text)
         /\ \A e \in EndsOf(x, text, TRUE) : e % 2 = 1
  <1> DEFINE n == Len(text)
             R == {q \in Nat \X (0 .. 128) : q[2] % 2 = 0 /\ q[2] <= x + 10 * q[1]}
  <1>1. /\ text \in Seq(Inked) /\ n \in Nat /\ DOMAIN text = 1 .. n
        /\ \A i \in 1 .. n : text[i] \in Numeral
    <2>1. Numeral \subseteq Inked
      BY DEF Inked, Numeral
    <2>2. /\ text \in Seq(Inked) /\ Len(text) \in Nat /\ DOMAIN text = 1 .. Len(text)
          /\ \A i \in DOMAIN text : text[i] \in Numeral
      BY <2>1, SeqSubset
    <2> QED
      BY <2>2, Zenon
  <1>0. \A m, y : <<m, y>> \in R <=> m \in Nat /\ y \in 0 .. 128 /\ y % 2 = 0 /\ y <= x + 10 * m
    OBVIOUS
  <1> HIDE DEF R
  <1>2. <<0, x>> \in R
    <2>1. 0 \in Nat /\ x \in 0 .. 128 /\ x % 2 = 0 /\ x <= x + 10 * 0
      OBVIOUS
    <2> QED
      BY <1>0, <2>1, Zenon
  <1>3. Kept(R, text, TRUE)
    <2> SUFFICES ASSUME NEW m \in 0 .. n - 1, NEW y \in Nat, <<m, y>> \in R
                 PROVE  <<m + 1, After(y, text[m + 1], TRUE)>> \in R
      BY Zenon DEF Kept
    <2>1. m \in Nat /\ m + 1 \in 1 .. n /\ m + 1 \in Nat
      BY <1>1
    <2>2. y \in 0 .. 128 /\ y % 2 = 0 /\ y <= x + 10 * m
      BY <1>0, Zenon
    <2> DEFINE a == After(y, text[m + 1], TRUE)
    <2>3. a \in 0 .. 128 /\ a % 2 = 0 /\ a <= y + 10
      BY <1>1, <2>1, <2>2, AfterNumeral, Zenon
    <2> HIDE DEF a
    <2>4. <<m + 1, a>> \in R
      <3>1. a <= x + 10 * (m + 1)
        BY <2>1, <2>2, <2>3
      <3> QED
        BY <1>0, <2>1, <2>3, <3>1, Zenon
    <2> QED
      BY <2>4 DEF a
  <1>4. \A m \in 0 .. n : <<m, Starts(x, text, TRUE)[m + 1]>> \in R
    <2>1. x \in Nat
      OBVIOUS
    <2> QED
      BY <1>1, <1>2, <1>3, <2>1, TextInduction, Zenon
  <1> DEFINE a == Starts(x, text, TRUE)[n + 1]
  <1>5. <<n, a>> \in R
    <2>1. n \in 0 .. n
      BY <1>1
    <2> QED
      BY <1>4, <2>1, Zenon
  <1>6. Layout(x, text, TRUE).end = a
    BY LayoutEnd, Zenon
  <1>7. a <= x + 10 * n
    <2> HIDE DEF a
    <2> QED
      BY <1>0, <1>1, <1>5
  <1>8. ASSUME NEW i \in Glyphs(text), Spaced(Starts(x, text, TRUE)[i], text[i], TRUE)
        PROVE  GlyphEnd(Starts(x, text, TRUE)[i], text[i]) % 2 = 1
    <2>1. i \in 1 .. n /\ text[i] \in {5, 9}
      BY <1>1 DEF Glyphs, Numeral, Nothing
    <2>2. i - 1 \in 0 .. n /\ (i - 1) + 1 = i
      BY <1>1, <2>1
    <2> DEFINE y == Starts(x, text, TRUE)[i]
               w == text[i]
    <2>3. <<i - 1, y>> \in R
      BY <1>4, <2>2, Zenon
    <2>4. GlyphEnd(y, w) < 128
      BY <1>8 DEF Spaced
    <2>5. w \in {5, 9}
      BY <2>1
    <2> HIDE DEF y, w
    <2>6. y \in 0 .. 128 /\ y % 2 = 0
      BY <1>0, <2>3, Zenon
    <2>7. GlyphEnd(y, w) = y + w
      BY <2>4, <2>5, <2>6 DEF GlyphEnd
    <2>8. GlyphEnd(y, w) % 2 = 1
      BY <2>5, <2>6, <2>7
    <2> QED
      BY <2>8 DEF y, w
  <1>9. EndsOf(x, text, TRUE) =
          {GlyphEnd(Starts(x, text, TRUE)[i], text[i]) :
             i \in {j \in Glyphs(text) : Spaced(Starts(x, text, TRUE)[j], text[j], TRUE)}}
    BY Zenon DEF EndsOf
  <1>10. \A e \in EndsOf(x, text, TRUE) : e % 2 = 1
    BY <1>8, <1>9, Zenon
  <1> HIDE DEF a
  <1> QED
    BY <1>1, <1>6, <1>7, <1>10, Zenon

----------------------------------------------------------------------------
(***************************************************************************)
(* Texts in their places.                                                  *)
(***************************************************************************)
\* The last column of a label's place.
Last(l) == CASE SlotOf(l) \in {1, 3} -> 79 [] SlotOf(l) = 5 -> 63 [] OTHER -> 127

\* A text for label l that stays in its place and clears it up, but for column 64 when
\* the left controller has written up to there: a header from LEFTCOL, where no other
\* header has a glyph.
Fit(l, text) ==
  LET layout == Layout(Column(l), text, IsLarge(l))
  IN  /\ text \in Seq(Inked)
      /\ layout.end <= Last(l) + 1
      /\ 64 \in EndsOf(Column(l), text, IsLarge(l)) => l \in {2, 6}
      /\ l \in {2, 6} => 64 \notin layout.body

\* The labels of the slots.
LEMMA Places14 ==
  /\ \A l \in Labels : SlotOf(l) \in Slots
  /\ \A s \in Slots : /\ 2 * s \in Labels /\ SlotOf(2 * s) = s /\ IsHeader(2 * s) /\ ~IsLarge(2 * s)
                      /\ 2 * s + 1 \in Labels /\ SlotOf(2 * s + 1) = s /\ ~IsHeader(2 * s + 1)
                      /\ IsLarge(2 * s + 1) <=> s < 5
  BY DEF Labels, SlotOf, Slots, IsHeader, IsLarge

\* LCDinit, label by label.
LEMMA ColumnsOfLabels ==
  /\ \A l \in {2, 3, 6, 7} : Column(l) = 28 /\ Last(l) = 79
  /\ \A l \in {4, 5, 8, 9} : Column(l) = 80 /\ Last(l) = 127
  /\ \A l \in {10, 11} : Column(l) = 0 /\ Last(l) = 63
  /\ \A l \in {12, 13} : Column(l) = 64 /\ Last(l) = 127
  /\ \A l \in {3, 5, 7, 9} : IsLarge(l) = TRUE
  /\ \A l \in {2, 4, 6, 8, 10, 11, 12, 13} : IsLarge(l) = FALSE
  BY DEF Column, Last, SlotOf, IsLarge, IsHeader

\* A text in the small font that cannot reach column 64 from the left.
LEMMA SmallFits ==
  ASSUME NEW x \in 0 .. 127, NEW last \in 0 .. 127, NEW k \in 2 .. 10,
         NEW text \in Seq({Nothing} \union (1 .. k - 1)),
         NEW n \in Nat, Len(text) <= n, x + k * n <= last + 1, x < 64 => x + k * n <= 64
  PROVE  /\ text \in Seq(Inked)
         /\ Layout(x, text, FALSE).end <= last + 1
         /\ 64 \notin EndsOf(x, text, FALSE)
         /\ x < 64 => 64 \notin Layout(x, text, FALSE).body
  <1> DEFINE body == Layout(x, text, FALSE).body
             e    == Layout(x, text, FALSE).end
             ends == EndsOf(x, text, FALSE)
  <1>1. x + k * Len(text) <= x + k * n
    <2>1. \A b, c \in Nat : b <= c => k * b <= k * c
      OBVIOUS
    <2>2. Len(text) \in Nat
      OBVIOUS
    <2> QED
      BY <2>1, <2>2
  <1>2. x + k * Len(text) <= 128 /\ x \in 0 .. 128
    BY <1>1
  <1>3. text \in Seq(Inked) /\ e \in Nat /\ e <= x + k * Len(text)
    BY <1>2, SmallEnd, Zenon
  <1>4. \A y \in Nat : y <= x + k * Len(text) => y <= x + k * n /\ y <= 128 /\ y <= last + 1
    BY <1>1
  <1>5. e <= x + k * n /\ e <= 128 /\ e <= last + 1
    BY <1>3, <1>4, Zenon
  <1>6. /\ e \in x .. 128
        /\ \A c \in Int : c \in body \/ c \in ends <=> c \in x .. e - 1
        /\ \A c \in ends : c \notin body /\ c \in x + 1 .. 127
    <2>1. FALSE \in BOOLEAN
      OBVIOUS
    <2>2. Shaped(x, text, FALSE)
      BY <1>2, <1>3, <1>5, <2>1, Shape, Zenon
    <2> QED
      BY <2>2, Zenon DEF Shaped
  <1> HIDE DEF body, e, ends
  <1>7. 64 \notin ends /\ (x < 64 => 64 \notin body)
    <2>1. CASE x < 64
      <3>1. 64 \notin x .. e - 1 /\ 64 \in Int
        BY <1>3, <1>5, <2>1
      <3> QED
        BY <1>6, <3>1, Zenon
    <2>2. CASE ~(x < 64)
      <3>1. 64 \notin x + 1 .. 127
        BY <2>2
      <3> QED
        BY <1>6, <2>2, <3>1, Zenon
    <2> QED
      BY <2>1, <2>2
  <1> QED
    BY <1>3, <1>5, <1>7, Zenon DEF body, e, ends

----------------------------------------------------------------------------
\* A small glyph takes its width and a space.
LEMMA AfterExact ==
  \A y \in 0 .. 127, w \in 0 .. 9 : y + w <= 127 => After(y, w, FALSE) = y + w + 1
  <1> SUFFICES ASSUME NEW y \in 0 .. 127, NEW w \in 0 .. 9, y + w <= 127
               PROVE  After(y, w, FALSE) = y + w + 1
    OBVIOUS
  <1>1. CASE w = 0
    BY <1>1 DEF After, Nothing, Space
  <1>2. CASE w # 0
    BY <1>2 DEF After, Nothing, Space, Spaced, GlyphEnd
  <1> QED
    BY <1>1, <1>2

\* Where the characters of a text that stays on the display start.
Exact(at, x, text) ==
  /\ at[1] = x
  /\ \A i \in DOMAIN text : at[i] \in 0 .. 127 /\ at[i] + text[i] <= 127 => at[i + 1] = at[i] + text[i] + 1

\* The starts of a short text in the small font are the sums of the widths before.
LEMMA StartsExact ==
  ASSUME NEW x \in 0 .. 127, NEW text \in Seq(0 .. 9)
  PROVE  Exact(Starts(x, text, FALSE), x, text)
  <1> DEFINE at == Starts(x, text, FALSE)
  <1>1. /\ text \in Seq(Widths) /\ x \in Nat /\ DOMAIN text = 1 .. Len(text)
        /\ \A i \in DOMAIN text : text[i] \in 0 .. 9
    <2>1. 0 .. 9 \subseteq Widths
      BY DEF Widths
    <2> QED
      BY <2>1, SeqSubset
  <1>2. at[1] = x /\ \A i \in DOMAIN text : at[i + 1] = After(at[i], text[i], FALSE)
    <2>1. IsStarts(Starts(x, text, FALSE), x, text, FALSE)
      BY <1>1, StartsInOrder, Zenon
    <2> QED
      BY <2>1, Zenon DEF IsStarts
  <1> HIDE DEF at
  <1>3. ASSUME NEW i \in DOMAIN text, at[i] \in 0 .. 127, at[i] + text[i] <= 127
        PROVE  at[i + 1] = at[i] + text[i] + 1
    BY <1>1, <1>2, <1>3, AfterExact, Zenon
  <1> QED
    BY <1>2, <1>3, Zenon DEF at, Exact

\* "position" is the longest header of the top row.
Position == <<5, 5, 5, 2, 6, 2, 5, 6>>

\* "position" from column x: its seventh glyph, and its end.
LEMMA PositionStarts ==
  ASSUME NEW x \in 0 .. 80
  PROVE  /\ Position \in Seq(Inked) /\ 7 \in Glyphs(Position) /\ Position[7] = 5 /\ Len(Position) = 8
         /\ Starts(x, Position, FALSE)[7] = x + 31
         /\ Starts(x, Position, FALSE)[9] = x + 44
  <1> DEFINE at == Starts(x, Position, FALSE)
  <1>1. Position \in Seq(Inked) /\ Position \in Seq(0 .. 9) /\ Len(Position) = 8 /\ DOMAIN Position = 1 .. 8
    BY DEF Position, Inked
  <1>2. /\ Position[1] = 5 /\ Position[2] = 5 /\ Position[3] = 5 /\ Position[4] = 2
        /\ Position[5] = 6 /\ Position[6] = 2 /\ Position[7] = 5 /\ Position[8] = 6
    BY DEF Position
  <1>3. Exact(at, x, Position)
    <2>1. x \in 0 .. 127
      OBVIOUS
    <2> QED
      BY <1>1, <2>1, StartsExact, Zenon
  <1> HIDE DEF at
  <1>4. at[1] = x /\ \A i \in 1 .. 8 :
          at[i] \in 0 .. 127 /\ at[i] + Position[i] <= 127 => at[i + 1] = at[i] + Position[i] + 1
    BY <1>1, <1>3, Zenon DEF Exact
  <1>5. at[2] = x + 6 /\ at[3] = x + 12 /\ at[4] = x + 18 /\ at[5] = x + 21
    BY <1>2, <1>4
  <1>6. at[6] = x + 28 /\ at[7] = x + 31 /\ at[8] = x + 37 /\ at[9] = x + 44
    BY <1>2, <1>4, <1>5
  <1>7. 7 \in Glyphs(Position)
    BY <1>1, <1>2 DEF Glyphs, Nothing, Space
  <1> QED
    BY <1>1, <1>2, <1>6, <1>7, Zenon DEF at

LEMMA PositionFits ==
  ASSUME NEW x \in 0 .. 80
  PROVE  /\ Position \in Seq(Inked)
         /\ Layout(x, Position, FALSE).end = x + 44
         /\ x = 28 => 64 \notin Layout(x, Position, FALSE).body
         /\ x = 80 => 64 \notin EndsOf(x, Position, FALSE)
  <1> DEFINE at == Starts(x, Position, FALSE)
  <1>1. /\ Position \in Seq(Inked) /\ 7 \in Glyphs(Position) /\ Position[7] = 5 /\ Len(Position) = 8
        /\ at[7] = x + 31 /\ at[9] = x + 44
    BY PositionStarts, Zenon
  <1>2. Layout(x, Position, FALSE).end = x + 44
    <2>1. Len(Position) + 1 = 9
      BY <1>1
    <2> QED
      BY <1>1, <2>1, LayoutEnd, ZenonT(40)
  <1>3. Shaped(x, Position, FALSE)
    <2>1. x + 44 <= 128 /\ x \in 0 .. 128 /\ FALSE \in BOOLEAN
      OBVIOUS
    <2> QED
      BY <1>1, <1>2, <2>1, Shape, Zenon
  <1>4. ASSUME x = 28 PROVE 64 \in EndsOf(x, Position, FALSE)
    <2>1. Spaced(at[7], Position[7], FALSE)
      BY DEF Spaced
    <2>2. GlyphEnd(at[7], Position[7]) = 64
      <3> HIDE DEF at
      <3> QED
        BY <1>1, <1>4 DEF GlyphEnd
    <2> QED
      BY <1>1, <2>1, <2>2, Zenon DEF EndsOf
  <1>5. x = 28 => 64 \notin Layout(x, Position, FALSE).body
    BY <1>3, <1>4, Zenon DEF Shaped
  <1>6. x = 80 => 64 \notin EndsOf(x, Position, FALSE)
    <2>1. \A c \in EndsOf(x, Position, FALSE) : c \in x + 1 .. 127
      BY <1>3, Zenon DEF Shaped
    <2>2. x = 80 => 64 \notin x + 1 .. 127
      OBVIOUS
    <2> QED
      BY <2>1, <2>2, ZenonT(40)
  <1> QED
    BY <1>1, <1>2, <1>5, <1>6, Zenon

\* "fuel need" and what is behind it is written by the right controller, too.
LEMMA OverrunsRight ==
  ASSUME NEW x \in {28, 80}
  PROVE  /\ Overrunning \in Seq(0 .. 9)
         /\ 1 \in Layout(x, Overrunning, FALSE).writers
  <1> DEFINE at == Starts(x, Overrunning, FALSE)
  <1>1. Overrunning \in Seq(0 .. 9) /\ Len(Overrunning) = 12 /\ DOMAIN Overrunning = 1 .. 12
    BY DEF Overrunning, Space
  <1>2. /\ Overrunning[1] = 5 /\ Overrunning[2] = 5 /\ Overrunning[3] = 5 /\ Overrunning[4] = 4
        /\ Overrunning[5] = 0 /\ Overrunning[6] = 6 /\ Overrunning[7] = 5 /\ Overrunning[8] = 5
    BY DEF Overrunning, Space
  <1>3. Exact(at, x, Overrunning)
    <2>1. x \in 0 .. 127
      OBVIOUS
    <2> QED
      BY <1>1, <2>1, StartsExact, ZenonT(40)
  <1>4. Layout(x, Overrunning, FALSE).writers = UNION {Writers(at[i], Overrunning[i]) : i \in Glyphs(Overrunning)}
    BY DEF Layout
  <1> HIDE DEF at
  <1>5. at[1] = x /\ \A i \in 1 .. 12 :
          at[i] \in 0 .. 127 /\ at[i] + Overrunning[i] <= 127 => at[i + 1] = at[i] + Overrunning[i] + 1
    BY <1>1, <1>3, Zenon DEF Exact
  <1>6. x = 28 => at[8] = 65
    BY <1>2, <1>5
  <1>7. 8 \in Glyphs(Overrunning) /\ 1 \in Glyphs(Overrunning)
    BY <1>1, <1>2 DEF Glyphs, Nothing, Space
  <1>8. (x = 28 => 1 \in Writers(at[8], Overrunning[8])) /\ (x = 80 => 1 \in Writers(at[1], Overrunning[1]))
    BY <1>5, <1>6 DEF Writers
  <1>9. 1 \in UNION {Writers(at[i], Overrunning[i]) : i \in Glyphs(Overrunning)}
    BY <1>7, <1>8
  <1> QED
    BY <1>1, <1>4, <1>9, Zenon

----------------------------------------------------------------------------
LEMMA PlaceRanges ==
  \A l \in Labels : Column(l) \in {0, 28, 64, 80} /\ Last(l) \in {63, 79, 127} /\ Column(l) <= Last(l)
  <1>1. Labels = {2, 3, 6, 7} \union {4, 5, 8, 9} \union {10, 11} \union {12, 13}
    BY DEF Labels
  <1> SUFFICES ASSUME NEW l \in Labels
               PROVE  Column(l) \in {0, 28, 64, 80} /\ Last(l) \in {63, 79, 127} /\ Column(l) <= Last(l)
    OBVIOUS
  <1> DEFINE x == Column(l)
             y == Last(l)
  <1>2. (x = 28 /\ y = 79) \/ (x = 80 /\ y = 127) \/ (x = 0 /\ y = 63) \/ (x = 64 /\ y = 127)
    BY <1>1, ColumnsOfLabels
  <1> HIDE DEF x, y
  <1>3. x \in {0, 28, 64, 80} /\ y \in {63, 79, 127} /\ x <= y
    BY <1>2
  <1> QED
    BY <1>3 DEF x, y

\* A small text that fits, character by character.
LEMMA FitSmall ==
  ASSUME NEW l \in {2, 4, 6, 8, 10, 11, 12, 13}, NEW k \in 2 .. 10, NEW n \in Nat,
         NEW text \in Seq({Nothing} \union (1 .. k - 1)), Len(text) <= n,
         Column(l) + k * n <= Last(l) + 1, Column(l) < 64 => Column(l) + k * n <= 64
  PROVE  Fit(l, text)
  <1> DEFINE x == Column(l)
             y == Last(l)
  <1>1. l \in Labels /\ IsLarge(l) = FALSE /\ (l \in {2, 6} => x = 28)
    <2>1. l \in Labels
      BY DEF Labels
    <2>2. l \in {2, 6} => l \in {2, 3, 6, 7}
      OBVIOUS
    <2> QED
      BY <2>1, <2>2, ColumnsOfLabels, Zenon
  <1>2. x + k * n <= y + 1 /\ (x < 64 => x + k * n <= 64)
    BY Zenon
  <1>3. x \in 0 .. 127 /\ y \in 0 .. 127
    <2>1. x \in {0, 28, 64, 80} /\ y \in {63, 79, 127}
      BY <1>1, PlaceRanges, ZenonT(40)
    <2> HIDE DEF x, y
    <2> QED
      BY <2>1
  <1>4. Len(text) <= n
    OBVIOUS
  <1>5. /\ text \in Seq(Inked)
        /\ Layout(x, text, FALSE).end <= y + 1
        /\ 64 \notin EndsOf(x, text, FALSE)
        /\ x < 64 => 64 \notin Layout(x, text, FALSE).body
    <2> HIDE DEF x, y
    <2> QED
      BY <1>2, <1>3, <1>4, SmallFits, Zenon
  <1>6. 28 < 64
    OBVIOUS
  <1> QED
    BY <1>1, <1>5, <1>6, Zenon DEF Fit

\* The values.
LEMMA FitNumber ==
  ASSUME NEW l \in {3, 5, 7, 9}, NEW text \in Seq(Numeral), Len(text) = 5
  PROVE  Fit(l, text)
  <1> DEFINE x == Column(l)
             y == Last(l)
  <1>1. IsLarge(l) = TRUE /\ ((x = 28 /\ y = 79) \/ (x = 80 /\ y = 127)) /\ l \notin {2, 6}
    <2>1. IsLarge(l) = TRUE /\ l \notin {2, 6}
      BY ColumnsOfLabels
    <2>2. l \in {2, 3, 6, 7} \/ l \in {4, 5, 8, 9}
      OBVIOUS
    <2> QED
      BY <2>1, <2>2, ColumnsOfLabels, Zenon
  <1>2. x \in 0 .. 128 /\ x % 2 = 0 /\ (x + 50 <= y + 1 \/ y = 127)
    <2> HIDE DEF x, y
    <2> QED
      BY <1>1
  <1> HIDE DEF x, y
  <1>3. /\ text \in Seq(Inked)
        /\ Layout(x, text, TRUE).end <= x + 10 * Len(text)
        /\ \A c \in EndsOf(x, text, TRUE) : c % 2 = 1
    <2>1. x \in 0 .. 128 /\ x % 2 = 0 /\ text \in Seq(Numeral)
      BY <1>2
    <2>2. \A z \in 0 .. 128 : z % 2 = 0 => \A t \in Seq(Numeral) :
            /\ t \in Seq(Inked)
            /\ Layout(z, t, TRUE).end <= z + 10 * Len(t)
            /\ \A c \in EndsOf(z, t, TRUE) : c % 2 = 1
      BY NumeralEnd, Zenon
    <2> QED
      BY <2>1, <2>2, Zenon
  <1>4. Layout(x, text, TRUE).end \in x .. 128
    BY <1>2, <1>3, LargeEnd, Zenon
  <1>6. Layout(x, text, TRUE).end <= y + 1
    <2> DEFINE e == Layout(x, text, TRUE).end
    <2>1. e <= x + 10 * Len(text) /\ e \in x .. 128
      BY <1>3, <1>4
    <2> HIDE DEF e
    <2>2. e <= y + 1
      BY <1>1, <1>2, <2>1
    <2> QED
      BY <2>2 DEF e
  <1>7. 64 \notin EndsOf(x, text, TRUE)
    <2>1. 64 % 2 # 1
      OBVIOUS
    <2> QED
      BY <1>3, <2>1, Zenon
  <1> QED
    BY <1>1, <1>3, <1>6, <1>7, Zenon DEF Fit, x, y

\* The texts of the last row.
LEMMA FitDigits ==
  ASSUME NEW l \in {11, 13}, NEW text \in Seq({Nothing} \union (1 .. 5)), Len(text) <= 9
  PROVE  Fit(l, text)
  <1> DEFINE x == Column(l)
             y == Last(l)
  <1>1. (x = 0 /\ y = 63) \/ (x = 64 /\ y = 127)
    <2>1. l \in {10, 11} \/ l \in {12, 13}
      OBVIOUS
    <2> QED
      BY <2>1, ColumnsOfLabels, Zenon
  <1>2. l \in {2, 4, 6, 8, 10, 11, 12, 13}
    OBVIOUS
  <1>3. \E k \in 2 .. 10, n \in Nat :
          /\ k - 1 = 5 /\ Len(text) <= n
          /\ x + k * n <= y + 1 /\ (x < 64 => x + k * n <= 64)
    <2>1. x + 6 * 9 <= y + 1 /\ (x < 64 => x + 6 * 9 <= 64)
      <3> HIDE DEF x, y
      <3> QED
        BY <1>1
    <2> HIDE DEF x, y
    <2>2. 6 \in 2 .. 10 /\ 9 \in Nat /\ 6 - 1 = 5
      OBVIOUS
    <2> QED
      BY <2>1, <2>2, Zenon
  <1>4. PICK k \in 2 .. 10, n \in Nat :
          /\ k - 1 = 5 /\ Len(text) <= n
          /\ x + k * n <= y + 1 /\ (x < 64 => x + k * n <= 64)
    BY <1>3, Zenon
  <1>5. text \in Seq({Nothing} \union (1 .. k - 1))
    BY <1>4, Zenon
  <1> QED
    BY <1>2, <1>4, <1>5, FitSmall, Zenon

\* The headers of each slot.
LEMMA HeaderTexts ==
  /\ HeaderText(TYPE_NULL) = <<>>
  /\ HeaderText(TYPE_RPM) = <<5, 5, 7>>
  /\ HeaderText(TYPE_SPEED) = <<5, 5, 5, 5, 5>>
  /\ HeaderText(TYPE_POS) = Position
  /\ HeaderText(TYPE_LAP) = <<4, 5, 5>>
  /\ HeaderText(TYPE_LAPTIME) = <<4, 5, 5, 6, 2, 7, 5>>
  /\ HeaderText(TYPE_DELTA) = <<5, 5, 4, 6, 5>>
  <1>1. /\ TYPE_LAPTIME # TYPE_DELTA
        /\ \A t \in IntTypes : t # TYPE_LAPTIME /\ t # TYPE_DELTA
        /\ TYPE_NULL # TYPE_LAPTIME /\ TYPE_NULL # TYPE_DELTA
    BY TimeTypesDiffer DEF TimeTypes
  <1>2. HeaderText(TYPE_NULL) = <<>>
    <2>1. /\ TYPE_NULL # TYPE_SPEED /\ TYPE_NULL # TYPE_FUEL /\ TYPE_NULL # TYPE_FUEL_NEED /\ TYPE_NULL # TYPE_LAP
          /\ TYPE_NULL # TYPE_LAPS_REM /\ TYPE_NULL # TYPE_POS /\ TYPE_NULL # TYPE_RPM
          /\ TYPE_NULL # TYPE_LAPTIME /\ TYPE_NULL # TYPE_DELTA
      BY <1>1, RowTypesDiffer DEF IntTypes
    <2> QED
      BY <2>1 DEF HeaderText
  <1>3. HeaderText(TYPE_RPM) = <<5, 5, 7>>
    <2>1. /\ TYPE_RPM # TYPE_SPEED /\ TYPE_RPM # TYPE_FUEL /\ TYPE_RPM # TYPE_FUEL_NEED /\ TYPE_RPM # TYPE_LAP
          /\ TYPE_RPM # TYPE_LAPS_REM /\ TYPE_RPM # TYPE_POS /\ TYPE_RPM # TYPE_LAPTIME /\ TYPE_RPM # TYPE_DELTA
      BY <1>1, RowTypesDiffer DEF IntTypes
    <2> QED
      BY <2>1 DEF HeaderText
  <1>4. HeaderText(TYPE_SPEED) = <<5, 5, 5, 5, 5>>
    <2>1. /\ TYPE_SPEED # TYPE_FUEL /\ TYPE_SPEED # TYPE_FUEL_NEED /\ TYPE_SPEED # TYPE_LAP /\ TYPE_SPEED # TYPE_LAPS_REM
          /\ TYPE_SPEED # TYPE_POS /\ TYPE_SPEED # TYPE_RPM /\ TYPE_SPEED # TYPE_LAPTIME /\ TYPE_SPEED # TYPE_DELTA
      BY <1>1, RowTypesDiffer DEF IntTypes
    <2> QED
      BY <2>1 DEF HeaderText
  <1>5. HeaderText(TYPE_POS) = Position
    <2>1. /\ TYPE_POS # TYPE_SPEED /\ TYPE_POS # TYPE_FUEL /\ TYPE_POS # TYPE_FUEL_NEED /\ TYPE_POS # TYPE_LAP
          /\ TYPE_POS # TYPE_LAPS_REM /\ TYPE_POS # TYPE_RPM /\ TYPE_POS # TYPE_LAPTIME /\ TYPE_POS # TYPE_DELTA
      BY <1>1, RowTypesDiffer DEF IntTypes
    <2> QED
      BY <2>1 DEF HeaderText, Position
  <1>6. HeaderText(TYPE_LAP) = <<4, 5, 5>>
    <2>1. /\ TYPE_LAP # TYPE_SPEED /\ TYPE_LAP # TYPE_FUEL /\ TYPE_LAP # TYPE_FUEL_NEED /\ TYPE_LAP # TYPE_LAPS_REM
          /\ TYPE_LAP # TYPE_POS /\ TYPE_LAP # TYPE_RPM /\ TYPE_LAP # TYPE_LAPTIME /\ TYPE_LAP # TYPE_DELTA
      BY <1>1, RowTypesDiffer DEF IntTypes
    <2> QED
      BY <2>1 DEF HeaderText
  <1>7. HeaderText(TYPE_LAPTIME) = <<4, 5, 5, 6, 2, 7, 5>>
    <2>1. /\ TYPE_LAPTIME # TYPE_SPEED /\ TYPE_LAPTIME # TYPE_FUEL /\ TYPE_LAPTIME # TYPE_FUEL_NEED /\ TYPE_LAPTIME # TYPE_LAP
          /\ TYPE_LAPTIME # TYPE_LAPS_REM /\ TYPE_LAPTIME # TYPE_POS /\ TYPE_LAPTIME # TYPE_RPM /\ TYPE_LAPTIME # TYPE_DELTA
      BY <1>1, RowTypesDiffer DEF IntTypes
    <2> QED
      BY <2>1 DEF HeaderText
  <1>8. HeaderText(TYPE_DELTA) = <<5, 5, 4, 6, 5>>
    <2>1. /\ TYPE_DELTA # TYPE_SPEED /\ TYPE_DELTA # TYPE_FUEL /\ TYPE_DELTA # TYPE_FUEL_NEED /\ TYPE_DELTA # TYPE_LAP
          /\ TYPE_DELTA # TYPE_LAPS_REM /\ TYPE_DELTA # TYPE_POS /\ TYPE_DELTA # TYPE_RPM /\ TYPE_DELTA # TYPE_LAPTIME
      BY <1>1, RowTypesDiffer DEF IntTypes
    <2> QED
      BY <2>1 DEF HeaderText
  <1> QED
    BY <1>2, <1>3, <1>4, <1>5, <1>6, <1>7, <1>8

----------------------------------------------------------------------------
NumberOfRow == {TYPE_RPM, TYPE_SPEED, TYPE_POS}

\* The columns a header may take without reaching column 64 from the left.
Room(l) == IF l \in {2, 6} THEN 36 ELSE IF l \in {4, 8} THEN 48 ELSE 64

\* The same by the room of each header.
LEMMA FitInRoom ==
  ASSUME NEW l \in {2, 4, 6, 8, 10, 12}, NEW k \in 2 .. 10, NEW n \in Nat,
         NEW text \in Seq({Nothing} \union (1 .. k - 1)), Len(text) <= n, k * n <= Room(l)
  PROVE  Fit(l, text)
  <1> DEFINE x == Column(l)
             y == Last(l)
             m == k * n
  <1>1. /\ (x = 28 /\ y = 79) \/ (x = 80 /\ y = 127) \/ (x = 0 /\ y = 63) \/ (x = 64 /\ y = 127)
        /\ x = 28 => m <= 36
        /\ x = 80 => m <= 48
        /\ m <= 64
    <2>0. m <= 64 /\ (l \in {2, 6} => m <= 36) /\ (l \in {4, 8} => m <= 48) /\ m \in Nat
      BY DEF Room
    <2>1. l \in {2, 6} => l \in {2, 3, 6, 7}
      OBVIOUS
    <2>2. l \in {4, 8} => l \in {4, 5, 8, 9}
      OBVIOUS
    <2>3. l = 10 => l \in {10, 11}
      OBVIOUS
    <2>4. l = 12 => l \in {12, 13}
      OBVIOUS
    <2>5. l \in {2, 6} \/ l \in {4, 8} \/ l = 10 \/ l = 12
      OBVIOUS
    <2>6. /\ l \in {2, 6} => x = 28 /\ y = 79
          /\ l \in {4, 8} => x = 80 /\ y = 127
          /\ l = 10 => x = 0 /\ y = 63
          /\ l = 12 => x = 64 /\ y = 127
      BY <2>1, <2>2, <2>3, <2>4, ColumnsOfLabels, ZenonT(40)
    <2> HIDE DEF x, y, m
    <2> QED
      BY <2>0, <2>5, <2>6
  <1>2. x + m <= y + 1 /\ (x < 64 => x + m <= 64)
    <2>1. m \in Nat
      OBVIOUS
    <2> HIDE DEF x, y, m
    <2> QED
      BY <1>1, <2>1
  <1>3. l \in {2, 4, 6, 8, 10, 11, 12, 13}
    OBVIOUS
  <1> QED
    BY <1>2, <1>3, FitSmall, Zenon

\* What the headers need.
LEMMA HeaderRoom ==
  ASSUME NEW l \in {2, 4, 6, 8, 10, 12}
  PROVE  /\ Fit(l, <<>>)
         /\ Fit(l, <<5, 5, 7>>) /\ Fit(l, <<5, 5, 5, 5, 5>>)
         /\ Fit(l, <<4, 5, 5>>)
         /\ l \in {10, 12} => Fit(l, <<4, 5, 5, 6, 2, 7, 5>>)
         /\ Fit(l, <<5, 5, 4, 6, 5>>)
  <1>1. Fit(l, <<>>)
    <2>1. <<>> \in Seq({Nothing} \union (1 .. 2 - 1))
      OBVIOUS
    <2>2. Len(<<>>) <= 0
      OBVIOUS
    <2>3. 2 \in 2 .. 10 /\ 0 \in Nat /\ 2 * 0 <= Room(l)
      BY DEF Room
    <2> QED
      BY <2>1, <2>2, <2>3, FitInRoom, Zenon
  <1>2. Fit(l, <<5, 5, 7>>)
    <2>1. <<5, 5, 7>> \in Seq({Nothing} \union (1 .. 8 - 1))
      OBVIOUS
    <2>2. Len(<<5, 5, 7>>) <= 3
      OBVIOUS
    <2>3. 8 \in 2 .. 10 /\ 3 \in Nat /\ 8 * 3 <= Room(l)
      BY DEF Room
    <2> QED
      BY <2>1, <2>2, <2>3, FitInRoom, Zenon
  <1>3. Fit(l, <<5, 5, 5, 5, 5>>)
    <2>1. <<5, 5, 5, 5, 5>> \in Seq({Nothing} \union (1 .. 6 - 1))
      OBVIOUS
    <2>2. Len(<<5, 5, 5, 5, 5>>) <= 5
      OBVIOUS
    <2>3. 6 \in 2 .. 10 /\ 5 \in Nat /\ 6 * 5 <= Room(l)
      BY DEF Room
    <2> QED
      BY <2>1, <2>2, <2>3, FitInRoom, Zenon
  <1>4. Fit(l, <<4, 5, 5>>)
    <2>1. <<4, 5, 5>> \in Seq({Nothing} \union (1 .. 6 - 1))
      OBVIOUS
    <2>2. Len(<<4, 5, 5>>) <= 3
      OBVIOUS
    <2>3. 6 \in 2 .. 10 /\ 3 \in Nat /\ 6 * 3 <= Room(l)
      BY DEF Room
    <2> QED
      BY <2>1, <2>2, <2>3, FitInRoom, Zenon
  <1>5. ASSUME l \in {10, 12} PROVE Fit(l, <<4, 5, 5, 6, 2, 7, 5>>)
    <2>1. <<4, 5, 5, 6, 2, 7, 5>> \in Seq({Nothing} \union (1 .. 8 - 1))
      OBVIOUS
    <2>2. Len(<<4, 5, 5, 6, 2, 7, 5>>) <= 7
      OBVIOUS
    <2>3. 8 \in 2 .. 10 /\ 7 \in Nat /\ 8 * 7 <= Room(l)
      BY <1>5 DEF Room
    <2> QED
      BY <2>1, <2>2, <2>3, FitInRoom, Zenon
  <1>6. Fit(l, <<5, 5, 4, 6, 5>>)
    <2>1. <<5, 5, 4, 6, 5>> \in Seq({Nothing} \union (1 .. 7 - 1))
      OBVIOUS
    <2>2. Len(<<5, 5, 4, 6, 5>>) <= 5
      OBVIOUS
    <2>3. 7 \in 2 .. 10 /\ 5 \in Nat /\ 7 * 5 <= Room(l)
      BY DEF Room
    <2> QED
      BY <2>1, <2>2, <2>3, FitInRoom, Zenon
  <1> QED
    BY <1>1, <1>2, <1>3, <1>4, <1>5, <1>6

\* Every header fits that its slot shows before the second row is rotated.
LEMMA FitHeader ==
  /\ \A s \in {1, 2}, t \in NumberOfRow : Fit(2 * s, HeaderText(t))
  /\ Fit(6, HeaderText(TYPE_POS)) /\ Fit(8, HeaderText(TYPE_LAP))
  /\ Fit(10, HeaderText(TYPE_LAPTIME)) /\ Fit(12, HeaderText(TYPE_DELTA))
  /\ \A s \in Slots : Fit(2 * s, HeaderText(TYPE_NULL))
  <1>2. ASSUME NEW l \in {2, 4, 6, 8}
        PROVE  Fit(l, Position)
    <2> DEFINE x == Column(l)
               y == Last(l)
    <2>1. /\ (l \in {2, 6} /\ x = 28 /\ y = 79) \/ (l \notin {2, 6} /\ x = 80 /\ y = 127)
          /\ IsLarge(l) = FALSE
      <3>1. (l \in {2, 6} /\ l \in {2, 3, 6, 7}) \/ (l \notin {2, 6} /\ l \in {4, 5, 8, 9})
        OBVIOUS
      <3>2. l \in {2, 4, 6, 8, 10, 11, 12, 13}
        OBVIOUS
      <3> QED
        BY <3>1, <3>2, ColumnsOfLabels, ZenonT(40)
    <2>2. x \in 0 .. 80 /\ x + 44 <= y + 1
      <3> HIDE DEF x, y
      <3> QED
        BY <2>1
    <2> HIDE DEF x, y
    <2>3. /\ Position \in Seq(Inked)
          /\ Layout(x, Position, FALSE).end = x + 44
          /\ x = 28 => 64 \notin Layout(x, Position, FALSE).body
          /\ x = 80 => 64 \notin EndsOf(x, Position, FALSE)
      BY <2>2, PositionFits, Zenon
    <2>4. Layout(x, Position, FALSE).end <= y + 1
      BY <2>2, <2>3, Zenon
    <2> QED
      BY <2>1, <2>3, <2>4, Zenon DEF Fit, x, y
  <1>8. ASSUME NEW s \in {1, 2}, NEW t \in NumberOfRow
        PROVE  Fit(2 * s, HeaderText(t))
    <2>1. 2 * s \in {2, 4, 6, 8} /\ 2 * s \in {2, 4, 6, 8, 10, 12}
      OBVIOUS
    <2>2. t = TYPE_RPM \/ t = TYPE_SPEED \/ t = TYPE_POS
      BY DEF NumberOfRow
    <2> DEFINE l == 2 * s
    <2> HIDE DEF l
    <2>3. Fit(l, HeaderText(t))
      BY <1>2, HeaderRoom, <2>1, <2>2, HeaderTexts, Zenon DEF l
    <2> QED
      BY <2>3 DEF l
  <1>9. Fit(6, HeaderText(TYPE_POS)) /\ Fit(8, HeaderText(TYPE_LAP))
    <2>1. 6 \in {2, 4, 6, 8} /\ 8 \in {2, 4, 6, 8, 10, 12}
      OBVIOUS
    <2> QED
      BY <1>2, HeaderRoom, <2>1, HeaderTexts, Zenon
  <1>10. Fit(10, HeaderText(TYPE_LAPTIME)) /\ Fit(12, HeaderText(TYPE_DELTA))
    <2>1. /\ 10 \in {2, 4, 6, 8, 10, 12} /\ 12 \in {2, 4, 6, 8, 10, 12}
          /\ 10 \in {10, 12}
      OBVIOUS
    <2> QED
      BY <2>1, HeaderRoom, HeaderTexts, Zenon
  <1>11. ASSUME NEW s \in Slots
         PROVE  Fit(2 * s, HeaderText(TYPE_NULL))
    <2>1. 2 * s \in {2, 4, 6, 8, 10, 12}
      BY DEF Slots
    <2> QED
      BY <2>1, HeaderRoom, HeaderTexts, Zenon
  <1> QED
    BY <1>8, <1>9, <1>10, <1>11, Zenon

----------------------------------------------------------------------------
\* The glyphs of a number and of a time.
LEMMA NumberGlyphs ==
  ASSUME NEW l, NEW content, NEW cells
  PROVE  /\ Len(NumberText(l, content, cells)) = 5
         /\ IsLarge(l) => NumberText(l, content, cells) \in Seq(Numeral)
         /\ ~IsLarge(l) => NumberText(l, content, cells) \in Seq({Nothing} \union (1 .. 5))
  <1> DEFINE Shows(i) == i < Digits(content.word) \/ i \in content.stale
             Cell(i)  == If(Shows(i), Glyph(l, cells[i]))
  <1>1. NumberText(l, content, cells) = <<Cell(0), Cell(1), Cell(2), Cell(3), Cell(4)>>
    BY DEF NumberText
  <1>2. ASSUME NEW i
        PROVE  /\ IsLarge(l) => Cell(i) \in Numeral
               /\ ~IsLarge(l) => Cell(i) \in {Nothing} \union (1 .. 5)
    <2>1. ASSUME NEW digit PROVE Large(digit) \in {5, 9} /\ Small(digit) \in 1 .. 5
      BY DEF Large, Small
    <2>2. ASSUME NEW present, NEW w PROVE If(present, w) \in {Nothing, w}
      BY Zenon DEF If
    <2>3. IsLarge(l) => Glyph(l, cells[i]) = Large(cells[i])
      BY DEF Glyph
    <2>4. ~IsLarge(l) => Glyph(l, cells[i]) = Small(cells[i])
      BY DEF Glyph
    <2>5. Cell(i) = Nothing \/ Cell(i) = Glyph(l, cells[i])
      BY <2>2
    <2> HIDE DEF Cell
    <2> QED
      BY <2>1, <2>3, <2>4, <2>5 DEF Numeral
  <1> HIDE DEF Cell
  <1>3. Len(NumberText(l, content, cells)) = 5
    BY <1>1
  <1>4. ASSUME IsLarge(l) PROVE NumberText(l, content, cells) \in Seq(Numeral)
    <2>1. \A i : Cell(i) \in Numeral
      BY <1>2, <1>4
    <2> QED
      BY <1>1, <2>1
  <1>5. ASSUME ~IsLarge(l) PROVE NumberText(l, content, cells) \in Seq({Nothing} \union (1 .. 5))
    <2> DEFINE S == {Nothing} \union (1 .. 5)
    <2>1. \A i : Cell(i) \in S
      BY <1>2, <1>5
    <2> HIDE DEF S
    <2>2. NumberText(l, content, cells) \in Seq(S)
      BY <1>1, <2>1
    <2> QED
      BY <2>2 DEF S
  <1> QED
    BY <1>3, <1>4, <1>5

LEMMA TimeGlyphs ==
  ASSUME NEW word
  PROVE  TimeText(word) \in Seq({Nothing} \union (1 .. 5)) /\ Len(TimeText(word)) = 9
  <1> DEFINE S       == {Nothing} \union (1 .. 5)
             minutes == (word \div 1024) % 32
             seconds == (word \div 16) % 64
             tenths  == word % 16
             c1 == If(word >= 32768, Minus)
             c2 == If(minutes >= 10, Small(minutes \div 10))
             c3 == If(minutes # 0, Small(minutes % 10))
             c4 == If(minutes # 0, Colon)
             c5 == If(minutes # 0 \/ seconds >= 10, Small(seconds \div 10))
             c6 == Small(seconds % 10)
             c8 == If(tenths >= 10, Small(1))
             c9 == Small(tenths % 10)
  <1>1. TimeText(word) = <<c1, c2, c3, c4, c5, c6, Dot, c8, c9>>
    BY DEF TimeText
  <1>2. ASSUME NEW digit PROVE Small(digit) \in S
    BY DEF Small
  <1>3. Minus \in S /\ Colon \in S /\ Dot \in S /\ Nothing \in S
    BY DEF Minus, Colon, Dot
  <1> HIDE DEF S, minutes, seconds, tenths
  <1>5. c1 \in S /\ c2 \in S /\ c3 \in S /\ c4 \in S /\ c5 \in S /\ c6 \in S /\ c8 \in S /\ c9 \in S
    <2>1. c1 \in S
      <3> DEFINE negative == word >= 32768
      <3> HIDE DEF negative
      <3>1. If(negative, Minus) \in S
        BY <1>3, Zenon DEF If
      <3> QED
        BY <3>1 DEF negative
    <2>2. c2 \in S
      BY <1>2, <1>3, Zenon DEF If
    <2>3. c3 \in S
      BY <1>2, <1>3, Zenon DEF If
    <2>4. c4 \in S
      BY <1>3, Zenon DEF If
    <2>5. c5 \in S
      BY <1>2, <1>3, Zenon DEF If
    <2>6. c6 \in S /\ c9 \in S
      BY <1>2, Zenon
    <2>7. c8 \in S
      BY <1>2, <1>3, Zenon DEF If
    <2> HIDE DEF c1, c2, c3, c4, c5, c6, c8, c9
    <2> QED
      BY <2>1, <2>2, <2>3, <2>4, <2>5, <2>6, <2>7
  <1> HIDE DEF c1, c2, c3, c4, c5, c6, c8, c9
  <1>6. TimeText(word) \in Seq(S) /\ Len(TimeText(word)) = 9
    BY <1>1, <1>3, <1>5
  <1> QED
    BY <1>6 DEF S

\* A value fits its place, whatever word it shows; the large ones show numbers.
LEMMA FitValue ==
  ASSUME NEW s \in Slots, NEW v \in ValueLabel, s < 5 => v.text = NoText, NEW cells
  PROVE  Fit(2 * s + 1, Text(2 * s + 1, Content(v), cells))
  <1> DEFINE l    == 2 * s + 1
             text == Text(l, Content(v), cells)
  <1>1. (s < 5 /\ l \in {3, 5, 7, 9}) \/ (s >= 5 /\ l \in {11, 13})
    BY DEF Slots
  <1>2. /\ l \in {3, 5, 7, 9} => IsLarge(l) = TRUE
        /\ l \in {11, 13} => IsLarge(l) = FALSE
    <2>1. l \in {11, 13} => l \in {2, 4, 6, 8, 10, 11, 12, 13}
      OBVIOUS
    <2> HIDE DEF l
    <2> QED
      BY <2>1, ColumnsOfLabels, Zenon
  <1>3. /\ v.text = NoText => text = NumberText(l, Content(v), cells)
        /\ v.text # NoText => text = TimeText(Content(v).word)
    BY DEF Text, Content
  <1> HIDE DEF l, text
  <1>4. CASE l \in {3, 5, 7, 9}
    <2>1. text = NumberText(l, Content(v), cells) /\ IsLarge(l)
      <3>1. v.text = NoText
        BY <1>1, <1>4
      <3> QED
        BY <1>2, <1>3, <1>4, <3>1, Zenon
    <2>2. text \in Seq(Numeral) /\ Len(text) = 5
      <3>1. /\ NumberText(l, Content(v), cells) \in Seq(Numeral)
            /\ Len(NumberText(l, Content(v), cells)) = 5
        BY <2>1, NumberGlyphs, Zenon
      <3> QED
        BY <2>1, <3>1, Zenon
    <2> QED
      BY <1>4, <2>2, FitNumber, Zenon DEF l, text
  <1>5. CASE l \in {11, 13}
    <2>1. text \in Seq({Nothing} \union (1 .. 5)) /\ (Len(text) = 5 \/ Len(text) = 9)
      <3>1. ~IsLarge(l)
        BY <1>2, <1>5, Zenon
      <3>2. /\ NumberText(l, Content(v), cells) \in Seq({Nothing} \union (1 .. 5))
            /\ Len(NumberText(l, Content(v), cells)) = 5
        BY <3>1, NumberGlyphs, Zenon
      <3>3. /\ TimeText(Content(v).word) \in Seq({Nothing} \union (1 .. 5))
            /\ Len(TimeText(Content(v).word)) = 9
        BY TimeGlyphs, Zenon
      <3> QED
        BY <1>3, <3>2, <3>3, Zenon
    <2>2. Len(text) <= 9
      <3> DEFINE n == Len(text)
      <3>1. n = 5 \/ n = 9
        BY <2>1
      <3> HIDE DEF n
      <3>2. n <= 9
        BY <3>1
      <3> QED
        BY <3>2 DEF n
    <2> QED
      BY <1>5, <2>1, <2>2, FitDigits, Zenon DEF l, text
  <1> QED
    BY <1>1, <1>4, <1>5

\* Where a displaced value ends.
LEMMA DisplacedEnd ==
  ASSUME NEW s \in {3, 4}, NEW v \in ValueLabel, v.text = NoText, NEW cells
  PROVE  LET text == Text(2 * s + 1, Content(v), cells)
         IN  /\ text \in Seq(Inked)
             /\ Layout(LetterA, text, IsLarge(2 * s + 1)).end \in LetterA .. 128
             /\ Shaped(LetterA, text, IsLarge(2 * s + 1))
             /\ 64 \notin EndsOf(LetterA, text, IsLarge(2 * s + 1))
  <1> DEFINE l    == 2 * s + 1
             text == Text(l, Content(v), cells)
             x    == LetterA
  <1>1. l \in {3, 5, 7, 9} /\ s < 5 /\ s \in Slots
    BY DEF Slots
  <1>2. Fit(l, text) /\ IsLarge(l) = TRUE
    <2> HIDE DEF l
    <2>1. Fit(2 * s + 1, Text(2 * s + 1, Content(v), cells))
      BY <1>1, FitValue, Zenon
    <2> QED
      BY <1>1, <2>1, ColumnsOfLabels, Zenon DEF l
  <1>3. text \in Seq(Inked)
    BY <1>2, Zenon DEF Fit
  <1>4. x \in 0 .. 128 /\ 64 \notin x + 1 .. 127 /\ \A e \in x .. 128 : e <= 128
    BY DEF LetterA
  <1> HIDE DEF l, text, x
  <1>5. Layout(x, text, TRUE).end \in x .. 128
    BY <1>3, <1>4, LargeEnd, ZenonT(40)
  <1>6. Shaped(x, text, TRUE)
    <2>1. TRUE \in BOOLEAN
      OBVIOUS
    <2> QED
      BY <1>3, <1>4, <1>5, <2>1, Shape, ZenonT(40)
  <1>7. 64 \notin EndsOf(x, text, TRUE)
    BY <1>4, <1>6, ZenonT(40) DEF Shaped
  <1> QED
    BY <1>2, <1>3, <1>5, <1>6, <1>7, Zenon DEF l, text, x

----------------------------------------------------------------------------
(***************************************************************************)
(* What drawing a text does to the display.                                *)
(***************************************************************************)
PagesOf(l) == {Page(l)} \union (IF IsLarge(l) THEN {Page(l) + 1} ELSE {})
Place(l)   == Column(l) .. Last(l)

\* What is not accounted for: the gear's first column in two lines and, once a value is
\* displaced, the second row's headers and the end of all lines.
Exempt(p, c, spoilt) == GearHit(p, c) \/ (spoilt /\ (p = 3 \/ c >= LetterA))

\* A label's place shows a text and nothing else.
Good(d, l, mark, text, spoilt) ==
  \A p \in PagesOf(l) : \A c \in Place(l) :
    \/ Exempt(p, c, spoilt)
    \/ d.ram[p][c] = IF c \in Layout(Column(l), text, IsLarge(l)).body THEN mark ELSE Empty

\* The clean-up goes by the text that is there.
Saved(d, l, text) ==
  Fit(l, text) /\ d.width[l] = Layout(Column(l), text, IsLarge(l)).end - Column(l)

\* Between d and n only the place of label l changes.
Spares(d, n, l, spoilt) ==
  \A p \in Pages, c \in Columns :
    \/ n.ram[p][c] = d.ram[p][c]
    \/ Exempt(p, c, spoilt)
    \/ p \in PagesOf(l) /\ c \in Place(l)

LcdOK(d) ==
  /\ d = [ram |-> d.ram, page |-> d.page, width |-> d.width]
  /\ d.page \in [Controllers -> Pages]
  /\ d.width = [l \in Labels |-> d.width[l]]

\* A column of the display after a text has been drawn.
LEMMA WriteRam ==
  ASSUME NEW d, NEW label, NEW mark, NEW x, NEW y, NEW text, NEW large, NEW p \in Pages, NEW c \in Columns
  PROVE  LET lay     == Layout(x, text, large)
             cleared == Cleared(lay.end, x + d.width[label])
         IN  Write(d, label, mark, x, y, text, large).ram[p][c] =
               IF c \in lay.body \union lay.gaps \union cleared /\ p \in PagesAt(d, ControllerOf(c), y, large)
               THEN IF c \in lay.gaps \union cleared THEN Empty ELSE mark
               ELSE d.ram[p][c]
  <1> DEFINE lay     == Layout(x, text, large)
             cleared == Cleared(lay.end, x + d.width[label])
             blank   == lay.gaps \union cleared
             written == lay.body \union blank
             pages   == [k \in Controllers |-> PagesAt(d, k, y, large)]
             Strip(q) == LET old   == d.ram[q]
                             there == {e \in written : q \in pages[ControllerOf(e)]}
                         IN  [e \in Columns |-> IF e \notin there THEN old[e]
                                                ELSE IF e \in blank THEN Empty ELSE mark]
             new == Write(d, label, mark, x, y, text, large).ram
  <1>1. new = [q \in Pages |-> IF q \in pages[0] \union pages[1] THEN Strip(q) ELSE d.ram[q]]
    BY Zenon DEF Write
  <1>2. ControllerOf(c) \in {0, 1}
    BY DEF ControllerOf, Columns
  <1>3. pages[ControllerOf(c)] = PagesAt(d, ControllerOf(c), y, large)
    BY <1>2 DEF Controllers
  <1> HIDE DEF pages, written, blank, new
  <1>4. new[p] = IF p \in pages[0] \union pages[1] THEN Strip(p) ELSE d.ram[p]
    BY <1>1
  <1>5. Strip(p)[c] = IF c \in written /\ p \in pages[ControllerOf(c)]
                      THEN IF c \in blank THEN Empty ELSE mark ELSE d.ram[p][c]
    OBVIOUS
  <1>6. p \in pages[ControllerOf(c)] => p \in pages[0] \union pages[1]
    BY <1>2
  <1> HIDE DEF Strip
  <1>7. new[p][c] = IF c \in written /\ p \in pages[ControllerOf(c)]
                    THEN IF c \in blank THEN Empty ELSE mark ELSE d.ram[p][c]
    BY <1>4, <1>5, <1>6
  <1>8. c \in written <=> c \in lay.body \union lay.gaps \union cleared
    BY DEF written, blank
  <1> HIDE DEF lay, cleared
  <1> QED
    BY <1>3, <1>7, <1>8, Zenon DEF new, blank, lay, cleared

\* The columns a text is written to, and what they show then.
WrittenAt(d, n, label, mark, x, y, text, large) ==
  LET lay     == Layout(x, text, large)
      cleared == Cleared(lay.end, x + d.width[label])
  IN  \A p \in Pages, c \in Columns :
        n.ram[p][c] =
          IF c \in lay.body \union lay.gaps \union cleared /\ p \in PagesAt(d, ControllerOf(c), y, large)
          THEN IF c \in lay.gaps \union cleared THEN Empty ELSE mark
          ELSE d.ram[p][c]

LEMMA WriteWrites ==
  \A d, label, mark, x, y, text, large :
    WrittenAt(d, Write(d, label, mark, x, y, text, large), label, mark, x, y, text, large)
  BY WriteRam DEF WrittenAt

\* What it leaves of the rest: the widths of other texts and the pages.
LeavesAt(d, n, label, x, y, text, large) ==
  /\ LcdOK(n)
  /\ n.width[label] = Layout(x, text, large).end - x
  /\ \A m \in Labels : m # label => n.width[m] = d.width[m]
  /\ y > 7 => n.page = d.page
  /\ 1 \in Layout(x, text, large).writers /\ y <= 7 /\ ~large => n.page[1] = y

\* The rest of the display after a text has been drawn.
LEMMA WriteLcd ==
  ASSUME NEW d, LcdOK(d), NEW label \in Labels, NEW mark,
         NEW x, NEW y \in Nat, NEW text, NEW large \in BOOLEAN,
         y <= 7 => y + (IF large THEN 1 ELSE 0) \in Pages
  PROVE  LeavesAt(d, Write(d, label, mark, x, y, text, large), label, x, y, text, large)
  <1> DEFINE n       == Write(d, label, mark, x, y, text, large)
             lay     == Layout(x, text, large)
             cleared == Cleared(lay.end, x + d.width[label])
             writers == lay.writers \union {ControllerOf(c) : c \in cleared}
             below   == IF large THEN 1 ELSE 0
             w       == lay.end - x
  <1>1. n = [ram |-> n.ram, page |-> n.page, width |-> n.width]
    BY Zenon DEF Write
  <1>2. n.width = [d.width EXCEPT ![label] = w]
    BY Zenon DEF Write, NewWidth
  <1>3. n.page = [k \in Controllers |-> IF k \in writers /\ y <= 7 THEN y + below ELSE d.page[k]]
    BY Zenon DEF Write
  <1> HIDE DEF n, w, writers
  <1>4. /\ n.width = [l \in Labels |-> n.width[l]] /\ n.width[label] = w
        /\ \A m \in Labels : m # label => n.width[m] = d.width[m]
    <2>1. d.width = [l \in Labels |-> d.width[l]]
      BY DEF LcdOK
    <2> QED
      BY <1>2, <2>1
  <1>5. d.page \in [Controllers -> Pages]
    BY DEF LcdOK
  <1>6. n.page \in [Controllers -> Pages] /\ (y > 7 => n.page = d.page)
    <2>1. n.page \in [Controllers -> Pages]
      BY <1>3, <1>5
    <2>2. y > 7 => n.page = d.page
      BY <1>3, <1>5
    <2> QED
      BY <2>1, <2>2
  <1>7. 1 \in lay.writers /\ y <= 7 /\ ~large => n.page[1] = y
    <2>1. 1 \in lay.writers => 1 \in writers
      BY DEF writers
    <2> HIDE DEF lay
    <2> QED
      BY <1>3, <2>1 DEF Controllers
  <1>8. LcdOK(n)
    BY <1>1, <1>4, <1>6, Zenon DEF LcdOK
  <1> QED
    BY <1>4, <1>6, <1>7, <1>8, Zenon DEF n, w, LeavesAt

----------------------------------------------------------------------------
\* Where labels are.
LEMMA PagesOfLabels ==
  ASSUME NEW l \in Labels
  PROVE  /\ IsLarge(l) \in BOOLEAN
         /\ Page(l) \in 0 .. 7
         /\ Page(l) + (IF IsLarge(l) THEN 1 ELSE 0) \in Pages
         /\ PagesOf(l) \subseteq Pages
         /\ l \in {2, 6} => PagesOf(l) \subseteq {0, 3} /\ ~IsLarge(l)
  BY DEF Labels, IsLarge, IsHeader, SlotOf, Page, Pages, PagesOf

LEMMA EndIsNat ==
  ASSUME NEW x \in Nat, NEW text \in Seq(Inked), NEW large
  PROVE  Layout(x, text, large).end \in Nat
  <1> DEFINE at == Starts(x, text, large)
             n  == Len(text)
  <1>1. text \in Seq(Widths)
    BY InkedWidths, Zenon
  <1>2. at \in [1 .. n + 1 -> Nat]
    BY <1>1, StartsAre, Zenon
  <1>3. n + 1 \in 1 .. n + 1
    <2>1. n \in Nat
      OBVIOUS
    <2> HIDE DEF n
    <2> QED
      BY <2>1
  <1>4. at[n + 1] \in Nat
    <2> HIDE DEF at, n
    <2> QED
      BY <1>2, <1>3, Zenon
  <1> QED
    BY <1>4, LayoutEnd, Zenon

\* A text that fits is laid out within its place.
Settled(l, text) ==
  Shaped(Column(l), text, IsLarge(l)) /\ Layout(Column(l), text, IsLarge(l)).end <= Last(l) + 1

LEMMA FitIsShaped ==
  ASSUME NEW l \in Labels, NEW text, Fit(l, text)
  PROVE  Settled(l, text)
  <1> DEFINE x == Column(l)
             y == Last(l)
             b == IsLarge(l)
  <1>1. x \in {0, 28, 64, 80} /\ y \in {63, 79, 127} /\ b \in BOOLEAN
    BY PlaceRanges, PagesOfLabels, ZenonT(40)
  <1>2. text \in Seq(Inked) /\ Layout(x, text, b).end <= y + 1
    BY Zenon DEF Fit
  <1> HIDE DEF x, y, b
  <1>3. x \in 0 .. 128 /\ x \in Nat /\ \A e \in Nat : e <= y + 1 => e <= 128
    BY <1>1
  <1>4. Layout(x, text, b).end <= 128
    BY <1>2, <1>3, EndIsNat, Zenon
  <1>5. Shaped(x, text, b)
    <2>1. x \in 0 .. 128 /\ text \in Seq(Inked) /\ b \in BOOLEAN
      BY <1>1, <1>2, <1>3
    <2> QED
      BY <1>4, <2>1, Shape, Zenon
  <1> QED
    BY <1>2, <1>5, Zenon DEF Settled, x, y, b

\* The main step: over its earlier text, a label leaves its place with the new text and
\* nothing else, and no other place is written to, but for what is exempt.
LEMMA WriteInPlace ==
  ASSUME NEW d, LcdOK(d), NEW l \in Labels, NEW mark, NEW text, Fit(l, text),
         NEW oldMark, NEW oldText, Saved(d, l, oldText),
         NEW spoilt, Good(d, l, oldMark, oldText, spoilt)
  PROVE  LET n == Write(d, l, mark, Column(l), Page(l), text, IsLarge(l))
         IN  /\ Good(n, l, mark, text, spoilt)
             /\ Spares(d, n, l, spoilt)
  <1> DEFINE x     == Column(l)
             last  == Last(l)
             b     == IsLarge(l)
             new   == Layout(x, text, b)
             old   == Layout(x, oldText, b)
             body  == new.body
             gaps  == new.gaps
             e     == new.end
             ends  == EndsOf(x, text, b)
             obody == old.body
             oe    == old.end
             oends == EndsOf(x, oldText, b)
             n     == Write(d, l, mark, x, Page(l), text, b)
             tail  == Cleared(e, x + d.width[l])
  <1>1. x \in {0, 28, 64, 80} /\ last \in {63, 79, 127} /\ b \in BOOLEAN /\ (l \in {2, 6} => x = 28)
    <2>1. l \in {2, 6} => l \in {2, 3, 6, 7}
      OBVIOUS
    <2> QED
      BY <2>1, PlaceRanges, PagesOfLabels, ColumnsOfLabels, ZenonT(40)
  <1>2. Fit(l, oldText) /\ d.width[l] = oe - x
    BY Zenon DEF Saved
  <1>3. /\ e \in x .. 128 /\ e <= last + 1
        /\ \A c \in Int : c \in body \/ c \in ends <=> c \in x .. e - 1
        /\ \A c \in ends : c \notin body /\ c \in x + 1 .. 127
        /\ \A c : c \in gaps <=> \E i \in ends : c = IF i = 64 THEN 0 ELSE i
    <2>1. Settled(l, text)
      BY FitIsShaped, Zenon
    <2> QED
      BY <2>1, Zenon DEF Settled, Shaped
  <1>4. /\ oe \in x .. 128 /\ oe <= last + 1
        /\ \A c \in Int : c \in obody \/ c \in oends <=> c \in x .. oe - 1
    <2>1. Settled(l, oldText)
      BY <1>2, FitIsShaped, Zenon
    <2> QED
      BY <2>1, Zenon DEF Settled, Shaped
  <1>5. 64 \in ends => l \in {2, 6} /\ 64 \notin obody
    BY <1>2, Zenon DEF Fit
  <1>6. \A p \in PagesOf(l) : l \in {2, 6} => p \in {0, 3}
    BY PagesOfLabels, Zenon
  <1>7. \A c \in Columns : c \in tail <=> c \in e .. oe - 1
    <2>1. tail = Cleared(e, oe)
      <3>1. x + (oe - x) = oe
        <4> HIDE DEF x, oe
        <4> QED
          BY <1>1, <1>4
      <3> QED
        BY <1>2, <3>1
    <2> HIDE DEF e, oe, tail, x
    <2>2. \A c \in e .. oe - 1 : c < 128
      BY <1>1, <1>3, <1>4
    <2> QED
      BY <2>1, <2>2, Zenon DEF Cleared
  <1>8. ASSUME NEW p \in Pages, NEW c \in Columns
        PROVE  n.ram[p][c] = IF p \in PagesOf(l) /\ (c \in body \/ c \in gaps \/ c \in e .. oe - 1)
                             THEN IF c \in gaps \/ c \in e .. oe - 1 THEN Empty ELSE mark
                             ELSE d.ram[p][c]
    <2>1. n.ram[p][c] = IF c \in body \union gaps \union tail /\ p \in PagesAt(d, ControllerOf(c), Page(l), b)
                        THEN IF c \in gaps \union tail THEN Empty ELSE mark
                        ELSE d.ram[p][c]
      <3>1. WrittenAt(d, n, l, mark, x, Page(l), text, b)
        BY WriteWrites, Zenon
      <3> HIDE DEF n
      <3> QED
        BY <3>1, Zenon DEF WrittenAt
    <2>2. PagesAt(d, ControllerOf(c), Page(l), b) = PagesOf(l)
      <3>1. ~(Page(l) > 7)
        BY PagesOfLabels
      <3> QED
        BY <3>1, Zenon DEF PagesAt, PagesOf
    <2> HIDE DEF n, body, gaps, tail, e, oe
    <2> QED
      BY <1>7, <2>1, <2>2
  <1> HIDE DEF x, last, b, body, gaps, e, ends, obody, oe, oends, n, tail, new, old
  <1>9. \A c \in Columns : c \in gaps => (c \in ends /\ c # 64) \/ (c = 0 /\ l \in {2, 6})
    BY <1>3, <1>5
  <1>10. \A c \in Columns : c \in ends /\ c # 64 => c \in gaps
    BY <1>3
  <1>11. \A p \in PagesOf(l) : p \in Pages
    BY PagesOfLabels
  <1>12. ASSUME NEW p \in PagesOf(l), NEW c \in x .. last
         PROVE  \/ Exempt(p, c, spoilt)
                \/ n.ram[p][c] = IF c \in body THEN mark ELSE Empty
    <2>1. c \in Columns /\ c \in Int /\ c >= x
      BY <1>1 DEF Columns
    <2>2. n.ram[p][c] = IF c \in body \/ c \in gaps \/ c \in e .. oe - 1
                        THEN IF c \in gaps \/ c \in e .. oe - 1 THEN Empty ELSE mark
                        ELSE d.ram[p][c]
      BY <1>8, <1>11, <2>1, Zenon
    <2>3. Exempt(p, c, spoilt) \/ d.ram[p][c] = IF c \in obody THEN oldMark ELSE Empty
      BY Zenon DEF Good, Place, x, last, b, obody, old
    <2>4. CASE c \in body
      <3>1. c \notin ends /\ c \in x .. e - 1
        BY <1>3, <2>1, <2>4, Zenon
      <3>2. c \notin e .. oe - 1
        BY <1>3, <3>1
      <3>3. c \notin gaps
        <4>1. ~(c = 0 /\ l \in {2, 6})
          BY <1>1, <2>1
        <4> QED
          BY <1>9, <2>1, <3>1, <4>1, Zenon
      <3> QED
        BY <2>2, <2>4, <3>2, <3>3, Zenon
    <2>5. CASE c \notin body /\ (c \in gaps \/ c \in e .. oe - 1)
      BY <2>2, <2>5, Zenon
    <2>6. CASE c \notin body /\ c \notin gaps /\ c \notin e .. oe - 1
      <3>1. c \notin obody
        <4> SUFFICES ASSUME c \in obody PROVE FALSE
          OBVIOUS
        <4>1. c \in x .. oe - 1
          BY <1>4, <2>1, Zenon
        <4>2. c \in x .. e - 1
          BY <1>3, <1>4, <2>6, <4>1
        <4>3. c \in ends
          BY <1>3, <2>1, <2>6, <4>2, Zenon
        <4> QED
          BY <1>5, <1>10, <2>1, <2>6, <4>3
      <3> QED
        BY <2>2, <2>3, <2>6, <3>1, Zenon
    <2> QED
      BY <2>4, <2>5, <2>6, Zenon
  <1>13. Good(n, l, mark, text, spoilt)
    BY <1>12, Zenon DEF Good, Place, x, last, b, body, new
  <1>14. ASSUME NEW p \in Pages, NEW c \in Columns,
                ~(p \in PagesOf(l) /\ c \in x .. last), ~Exempt(p, c, spoilt)
         PROVE  n.ram[p][c] = d.ram[p][c]
    <2> SUFFICES ASSUME p \in PagesOf(l), c \in body \/ c \in gaps \/ c \in e .. oe - 1
                 PROVE  FALSE
      BY <1>8, Zenon
    <2>1. c \in Int /\ c \notin x .. last
      BY <1>14 DEF Columns
    <2>2. c \notin x .. e - 1 /\ c \notin e .. oe - 1
      BY <1>1, <1>3, <1>4, <2>1
    <2>3. c \notin body /\ c \notin ends
      BY <1>3, <2>1, <2>2, Zenon
    <2>4. c = 0 /\ l \in {2, 6}
      BY <1>9, <2>2, <2>3, Zenon
    <2> QED
      BY <1>6, <1>14, <2>4, Zenon DEF Exempt, GearHit
  <1>15. Spares(d, n, l, spoilt)
    BY <1>14, Zenon DEF Spares, Place, x, last
  <1> QED
    BY <1>13, <1>15, Zenon DEF n, x, b

----------------------------------------------------------------------------
\* The pages of the labels.
LEMMA PageTable ==
  /\ PagesOf(2) = {0} /\ PagesOf(4) = {0} /\ PagesOf(3) = {1, 2} /\ PagesOf(5) = {1, 2}
  /\ PagesOf(6) = {3} /\ PagesOf(8) = {3} /\ PagesOf(7) = {4, 5} /\ PagesOf(9) = {4, 5}
  /\ PagesOf(10) = {6} /\ PagesOf(12) = {6} /\ PagesOf(11) = {7} /\ PagesOf(13) = {7}
  BY DEF PagesOf, Page, IsLarge, IsHeader, SlotOf

LeftLabels == {2, 3, 6, 7, 10, 11}

\* On a page there is one label to the left and one to the right, and the gear is left of both.
LEMMA Neighbours ==
  ASSUME NEW l \in Labels, NEW p \in PagesOf(l)
  PROVE  /\ p <= 5 => Place(l) = IF l \in LeftLabels THEN 28 .. 79 ELSE 80 .. 127
         /\ ~(p <= 5) => Place(l) = IF l \in LeftLabels THEN 0 .. 63 ELSE 64 .. 127
  <1>1. \/ p <= 5 /\ l \in {2, 3, 6, 7} /\ l \in LeftLabels
        \/ p <= 5 /\ l \in {4, 5, 8, 9} /\ l \notin LeftLabels
        \/ ~(p <= 5) /\ l \in {10, 11} /\ l \in LeftLabels
        \/ ~(p <= 5) /\ l \in {12, 13} /\ l \notin LeftLabels
    BY PageTable DEF Labels, LeftLabels
  <1>2. /\ l \in {2, 3, 6, 7} => Place(l) = 28 .. 79
        /\ l \in {4, 5, 8, 9} => Place(l) = 80 .. 127
        /\ l \in {10, 11} => Place(l) = 0 .. 63
        /\ l \in {12, 13} => Place(l) = 64 .. 127
    BY ColumnsOfLabels, Zenon DEF Place
  <1> QED
    BY <1>1, <1>2

\* No two labels share a column of a page.
LEMMA PlacesApart ==
  ASSUME NEW l \in Labels, NEW m \in Labels, l # m,
         NEW p \in PagesOf(l), p \in PagesOf(m), NEW c \in Place(l)
  PROVE  c \notin Place(m)
  <1>1. p \in 0 .. 7
    BY PagesOfLabels DEF Pages
  <1>2. l \in LeftLabels <=> m \notin LeftLabels
    BY PageTable DEF Labels, LeftLabels
  <1>3. CASE p <= 5
    <2>1. /\ Place(l) = IF l \in LeftLabels THEN 28 .. 79 ELSE 80 .. 127
          /\ Place(m) = IF m \in LeftLabels THEN 28 .. 79 ELSE 80 .. 127
      BY <1>3, Neighbours
    <2> QED
      BY <1>2, <2>1
  <1>4. CASE ~(p <= 5)
    <2>1. /\ Place(l) = IF l \in LeftLabels THEN 0 .. 63 ELSE 64 .. 127
          /\ Place(m) = IF m \in LeftLabels THEN 0 .. 63 ELSE 64 .. 127
      BY <1>4, Neighbours
    <2> QED
      BY <1>2, <2>1
  <1> QED
    BY <1>3, <1>4

LEMMA PlaceColumns == \A l \in Labels : Place(l) \subseteq Columns
  <1> SUFFICES ASSUME NEW l \in Labels PROVE Column(l) .. Last(l) \subseteq 0 .. 127
    BY DEF Place, Columns
  <1> DEFINE x == Column(l)
             y == Last(l)
  <1>1. x \in {0, 28, 64, 80} /\ y \in {63, 79, 127}
    BY PlaceRanges
  <1> HIDE DEF x, y
  <1>2. x .. y \subseteq 0 .. 127
    BY <1>1
  <1> QED
    BY <1>2 DEF x, y

\* The gear's corner shows gear g, or nothing.
GearGood(d, g, spoilt) ==
  \A p \in 0 .. 5, c \in 0 .. 27 :
    \/ Exempt(p, c, spoilt)
    \/ d.ram[p][c] = IF g # Blank /\ p \in GearPages /\ c \in GearColumns THEN GearMark(g) ELSE Empty

\* Only what is exempt anyway changes.
OnlyExempt(d, n) == \A p \in Pages, c \in Columns : n.ram[p][c] = d.ram[p][c] \/ Exempt(p, c, TRUE)

\* What writes to one place keeps the others.
LEMMA OthersKept ==
  ASSUME NEW d, NEW n, NEW l \in Labels, NEW spoilt, Spares(d, n, l, spoilt)
  PROVE  /\ \A m \in Labels : \A mark, text :
              m # l /\ Good(d, m, mark, text, spoilt) => Good(n, m, mark, text, spoilt)
         /\ \A g : GearGood(d, g, spoilt) => GearGood(n, g, spoilt)
  <1>1. ASSUME NEW m \in Labels, NEW mark, NEW text, m # l, Good(d, m, mark, text, spoilt)
        PROVE  Good(n, m, mark, text, spoilt)
    <2> SUFFICES ASSUME NEW p \in PagesOf(m), NEW c \in Place(m), ~Exempt(p, c, spoilt)
                 PROVE  n.ram[p][c] = d.ram[p][c]
      BY <1>1, Zenon DEF Good
    <2>1. p \in Pages /\ c \in Columns
      BY PagesOfLabels, PlaceColumns, Zenon
    <2>2. ~(p \in PagesOf(l) /\ c \in Place(l))
      BY <1>1, PlacesApart, Zenon
    <2> QED
      BY <2>1, <2>2, Zenon DEF Spares
  <1>2. ASSUME NEW g, GearGood(d, g, spoilt)
        PROVE  GearGood(n, g, spoilt)
    <2> SUFFICES ASSUME NEW p \in 0 .. 5, NEW c \in 0 .. 27, ~Exempt(p, c, spoilt)
                 PROVE  n.ram[p][c] = d.ram[p][c]
      BY <1>2, Zenon DEF GearGood
    <2>1. p \in Pages /\ c \in Columns /\ p <= 5
      BY DEF Pages, Columns
    <2>2. ~(p \in PagesOf(l) /\ c \in Place(l))
      <3> SUFFICES ASSUME p \in PagesOf(l) PROVE c \notin Place(l)
        OBVIOUS
      <3>1. Place(l) = IF l \in LeftLabels THEN 28 .. 79 ELSE 80 .. 127
        BY <2>1, Neighbours, Zenon
      <3> QED
        BY <3>1
    <2> QED
      BY <2>1, <2>2, Zenon DEF Spares
  <1> QED
    BY <1>1, <1>2, Zenon

\* What writes only to exempt columns keeps all of them.
LEMMA AllKept ==
  ASSUME NEW d, NEW n, OnlyExempt(d, n)
  PROVE  /\ \A m \in Labels : \A mark, text : Good(d, m, mark, text, TRUE) => Good(n, m, mark, text, TRUE)
         /\ \A g : GearGood(d, g, TRUE) => GearGood(n, g, TRUE)
  <1>1. ASSUME NEW m \in Labels, NEW mark, NEW text, Good(d, m, mark, text, TRUE)
        PROVE  Good(n, m, mark, text, TRUE)
    <2> SUFFICES ASSUME NEW p \in PagesOf(m), NEW c \in Place(m), ~Exempt(p, c, TRUE)
                 PROVE  n.ram[p][c] = d.ram[p][c]
      BY <1>1, Zenon DEF Good
    <2>1. p \in Pages /\ c \in Columns
      BY PagesOfLabels, PlaceColumns, Zenon
    <2> QED
      BY <2>1, Zenon DEF OnlyExempt
  <1>2. ASSUME NEW g, GearGood(d, g, TRUE)
        PROVE  GearGood(n, g, TRUE)
    <2> SUFFICES ASSUME NEW p \in 0 .. 5, NEW c \in 0 .. 27, ~Exempt(p, c, TRUE)
                 PROVE  n.ram[p][c] = d.ram[p][c]
      BY <1>2, Zenon DEF GearGood
    <2>1. p \in Pages /\ c \in Columns
      BY DEF Pages, Columns
    <2> QED
      BY <2>1, Zenon DEF OnlyExempt
  <1> QED
    BY <1>1, <1>2, Zenon

\* The gear, and the column of page 5 that it clears.
LEMMA GearWritten ==
  ASSUME NEW d, LcdOK(d), NEW g, NEW spoilt, g # Blank, NEW old, GearGood(d, old, spoilt)
  PROVE  LET n == WriteGear(d, GearMark(g))
         IN  /\ LcdOK(n) /\ n.width = d.width
             /\ GearGood(n, g, spoilt)
             /\ \A m \in Labels : \A mark, text :
                  Good(d, m, mark, text, spoilt) => Good(n, m, mark, text, spoilt)
  <1> DEFINE n == WriteGear(d, GearMark(g))
             Strip(p) == LET was == d.ram[p]
                         IN  [c \in Columns |-> IF c \notin GearColumns THEN was[c]
                                                ELSE IF p \in GearPages THEN GearMark(g) ELSE Empty]
             ram  == [p \in Pages |-> IF p \in GearPages \union {5} THEN Strip(p) ELSE d.ram[p]]
             page == [d.page EXCEPT ![0] = 4]
  <1>1. n = [d EXCEPT !.ram = ram, !.page = page]
    BY Zenon DEF WriteGear
  <1>2. /\ d = [ram |-> d.ram, page |-> d.page, width |-> d.width]
        /\ d.page \in [Controllers -> Pages]
    BY DEF LcdOK
  <1> HIDE DEF n, ram, page
  <1>3. n = [ram |-> ram, page |-> page, width |-> d.width]
    BY <1>1, <1>2
  <1>4. LcdOK(n) /\ n.width = d.width /\ n.ram = ram
    <2>1. page \in [Controllers -> Pages]
      <3>1. \A q \in [Controllers -> Pages], k \in Pages : [q EXCEPT ![0] = k] \in [Controllers -> Pages]
        OBVIOUS
      <3>2. 4 \in Pages
        BY DEF Pages
      <3> QED
        BY <1>2, <3>1, <3>2, Zenon DEF page
    <2>2. d.width = [l \in Labels |-> d.width[l]]
      BY DEF LcdOK
    <2> QED
      BY <1>3, <2>1, <2>2 DEF LcdOK
  <1>5. ASSUME NEW p \in Pages, NEW c \in Columns
        PROVE  n.ram[p][c] = IF p \in 0 .. 5 /\ c \in GearColumns
                             THEN IF p \in GearPages THEN GearMark(g) ELSE Empty
                             ELSE d.ram[p][c]
    <2>1. p \in GearPages \union {5} <=> p \in 0 .. 5
      BY DEF GearPages
    <2>2. ram[p] = IF p \in 0 .. 5 THEN Strip(p) ELSE d.ram[p]
      BY <2>1 DEF ram
    <2>3. Strip(p)[c] = IF c \notin GearColumns THEN d.ram[p][c]
                        ELSE IF p \in GearPages THEN GearMark(g) ELSE Empty
      OBVIOUS
    <2> HIDE DEF Strip
    <2> QED
      BY <1>4, <2>2, <2>3
  <1>6. GearGood(n, g, spoilt)
    <2> SUFFICES ASSUME NEW p \in 0 .. 5, NEW c \in 0 .. 27, ~Exempt(p, c, spoilt)
                 PROVE  n.ram[p][c] = IF g # Blank /\ p \in GearPages /\ c \in GearColumns
                                      THEN GearMark(g) ELSE Empty
      BY Zenon DEF GearGood
    <2>1. p \in Pages /\ c \in Columns
      BY DEF Pages, Columns
    <2>2. d.ram[p][c] = IF old # Blank /\ p \in GearPages /\ c \in GearColumns THEN GearMark(old) ELSE Empty
      BY Zenon DEF GearGood
    <2> QED
      BY <1>5, <2>1, <2>2, Zenon
  <1>7. ASSUME NEW m \in Labels, NEW mark, NEW text, Good(d, m, mark, text, spoilt)
        PROVE  Good(n, m, mark, text, spoilt)
    <2> SUFFICES ASSUME NEW p \in PagesOf(m), NEW c \in Place(m)
                 PROVE  n.ram[p][c] = d.ram[p][c]
      BY <1>7, Zenon DEF Good
    <2>1. p \in Pages /\ c \in Columns
      BY PagesOfLabels, PlaceColumns, Zenon
    <2>2. ~(p \in 0 .. 5 /\ c \in GearColumns)
      <3> SUFFICES ASSUME p <= 5 PROVE c \notin GearColumns
        OBVIOUS
      <3>1. Place(m) = IF m \in LeftLabels THEN 28 .. 79 ELSE 80 .. 127
        BY Neighbours, Zenon
      <3> QED
        BY <3>1 DEF GearColumns
    <2> QED
      BY <1>5, <2>1, <2>2, Zenon
  <1> QED
    BY <1>4, <1>6, <1>7, Zenon DEF n

----------------------------------------------------------------------------
\* A text in the small font in the line of the second row's headers.
LEMMA LineWritten ==
  ASSUME NEW d, NEW l, NEW mark, NEW x, NEW y, y = 3, NEW text
  PROVE  OnlyExempt(d, Write(d, l, mark, x, y, text, FALSE))
  <1> DEFINE n == Write(d, l, mark, x, y, text, FALSE)
  <1>1. WrittenAt(d, n, l, mark, x, y, text, FALSE)
    BY WriteWrites, Zenon
  <1> HIDE DEF n
  <1> SUFFICES ASSUME NEW p \in Pages, NEW c \in Columns, ~Exempt(p, c, TRUE)
               PROVE  n.ram[p][c] = d.ram[p][c]
    BY Zenon DEF OnlyExempt, n
  <1>2. p # y
    BY DEF Exempt
  <1>3. p \notin PagesAt(d, ControllerOf(c), y, FALSE)
    <2>1. ~(y > 7)
      OBVIOUS
    <2> QED
      BY <1>2, <2>1, Zenon DEF PagesAt
  <1> QED
    BY <1>1, <1>3, Zenon DEF WrittenAt

\* A displaced value: its columns are from 97 on, and those of the clean-up too, but for
\* the first one, which wraps where the overrunning header has left the controller.
LEMMA DisplacedWritten ==
  ASSUME NEW d, NEW l, NEW mark, NEW text, NEW large,
         Shaped(LetterA, text, large), 64 \notin EndsOf(LetterA, text, large),
         d.page[1] = 3 \/ (d.width[l] \in Int /\ LetterA + d.width[l] <= 128)
  PROVE  OnlyExempt(d, Write(d, l, mark, LetterA, LetterP, text, large))
  <1> DEFINE x    == LetterA
             n    == Write(d, l, mark, x, LetterP, text, large)
             body == Layout(x, text, large).body
             gaps == Layout(x, text, large).gaps
             e    == Layout(x, text, large).end
             ends == EndsOf(x, text, large)
             last == x + d.width[l]
             tail == Cleared(e, last)
  <1>1. WrittenAt(d, n, l, mark, x, LetterP, text, large)
    BY WriteWrites, Zenon
  <1>2. /\ e \in x .. 128
        /\ \A c \in Int : c \in body \/ c \in ends <=> c \in x .. e - 1
        /\ \A c \in ends : c \notin body /\ c \in x + 1 .. 127
        /\ \A c : c \in gaps <=> \E i \in ends : c = IF i = 64 THEN 0 ELSE i
        /\ 64 \notin ends
    BY Zenon DEF Shaped
  <1>3. d.page[1] = 3 \/ (last \in Int /\ last <= 128)
    BY DEF LetterA
  <1>4. x = 97
    BY DEF LetterA
  <1>5. tail = {IF c < 128 THEN c ELSE Wrapped(1, c) : c \in e .. last - 1}
    BY Zenon DEF Cleared
  <1> HIDE DEF n, x, body, gaps, e, ends, last, tail
  <1> SUFFICES ASSUME NEW p \in Pages, NEW c \in Columns, ~Exempt(p, c, TRUE)
               PROVE  n.ram[p][c] = d.ram[p][c]
    BY Zenon DEF OnlyExempt, n, x
  <1>6. p # 3 /\ c \in 0 .. 96
    BY DEF Exempt, LetterA, Columns
  <1>7. n.ram[p][c] = IF c \in body \union gaps \union tail /\ p \in PagesAt(d, ControllerOf(c), LetterP, large)
                      THEN IF c \in gaps \union tail THEN Empty ELSE mark
                      ELSE d.ram[p][c]
    BY <1>1, Zenon DEF WrittenAt, body, gaps, tail, e, last
  <1>8. PagesAt(d, ControllerOf(c), LetterP, large) = {d.page[ControllerOf(c)]}
    <2>1. LetterP > 7
      BY DEF LetterP
    <2> QED
      BY <2>1, Zenon DEF PagesAt
  <1> SUFFICES ASSUME c \in body \/ c \in gaps \/ c \in tail, p = d.page[ControllerOf(c)]
               PROVE  FALSE
    BY <1>7, <1>8
  <1>9. c \notin body
    <2>1. c \in Int /\ c \notin x .. e - 1
      BY <1>4, <1>6
    <2> QED
      BY <1>2, <2>1, Zenon
  <1>10. c \notin gaps
    <2> SUFFICES ASSUME NEW i \in ends, c = IF i = 64 THEN 0 ELSE i PROVE FALSE
      BY <1>2
    <2>1. i # 64 /\ i \in x + 1 .. 127
      BY <1>2
    <2> QED
      BY <1>4, <1>6, <2>1
  <1>11. PICK i \in e .. last - 1 : c = IF i < 128 THEN i ELSE Wrapped(1, i)
    BY <1>5, <1>9, <1>10
  <1>12. ~(i < 128) /\ i \in Int
    <2>1. i \in Int /\ i >= 97
      BY <1>2, <1>4
    <2> QED
      BY <1>6, <1>11, <2>1
  <1>13. d.page[1] = 3
    BY <1>3, <1>11, <1>12
  <1>14. c = 64 + (i % 64)
    BY <1>11, <1>12 DEF Wrapped
  <1>15. c \in 64 .. 127
    <2>1. i % 64 \in 0 .. 63
      BY <1>12
    <2> QED
      BY <1>14, <2>1
  <1>16. ControllerOf(c) = 1
    BY <1>15 DEF ControllerOf
  <1> QED
    BY <1>6, <1>13, <1>16

----------------------------------------------------------------------------
\* Label l has been drawn, and the rest of the display is as it was.
Drew(d, n, l, spoilt) ==
  /\ LcdOK(n)
  /\ \A m \in Labels : m # l => n.width[m] = d.width[m]
  /\ \A m \in Labels : \A mark, text :
       m # l /\ Good(d, m, mark, text, spoilt) => Good(n, m, mark, text, spoilt)
  /\ \A g : GearGood(d, g, spoilt) => GearGood(n, g, spoilt)

\* A label that is drawn at its place.
LEMMA DrewInPlace ==
  ASSUME NEW d, LcdOK(d), NEW l \in Labels, NEW mark, NEW text, Fit(l, text),
         NEW oldMark, NEW oldText, Saved(d, l, oldText),
         NEW spoilt, Good(d, l, oldMark, oldText, spoilt)
  PROVE  LET n == Write(d, l, mark, Column(l), Page(l), text, IsLarge(l))
         IN  Drew(d, n, l, spoilt) /\ Good(n, l, mark, text, spoilt) /\ Saved(n, l, text)
  <1> DEFINE n == Write(d, l, mark, Column(l), Page(l), text, IsLarge(l))
  <1>1. Good(n, l, mark, text, spoilt) /\ Spares(d, n, l, spoilt)
    BY WriteInPlace, Zenon
  <1>2. /\ LcdOK(n)
        /\ n.width[l] = Layout(Column(l), text, IsLarge(l)).end - Column(l)
        /\ \A m \in Labels : m # l => n.width[m] = d.width[m]
    <2>1. /\ Page(l) \in Nat /\ IsLarge(l) \in BOOLEAN
          /\ Page(l) <= 7 => Page(l) + (IF IsLarge(l) THEN 1 ELSE 0) \in Pages
      BY PagesOfLabels
    <2>2. LeavesAt(d, n, l, Column(l), Page(l), text, IsLarge(l))
      BY <2>1, WriteLcd, Zenon
    <2> HIDE DEF n
    <2> QED
      BY <2>2, Zenon DEF LeavesAt
  <1> HIDE DEF n
  <1>3. Saved(n, l, text)
    BY <1>2, Zenon DEF Saved
  <1>4. Drew(d, n, l, spoilt)
    BY <1>1, <1>2, OthersKept, Zenon DEF Drew
  <1> QED
    BY <1>1, <1>3, <1>4, Zenon DEF n

\* A label that is drawn where it damages only what is exempt.
LEMMA DrewElsewhere ==
  ASSUME NEW d, LcdOK(d), NEW l \in Labels, NEW mark, NEW x, NEW y \in Nat, NEW text, NEW large \in BOOLEAN,
         y <= 7 => y + (IF large THEN 1 ELSE 0) \in Pages,
         OnlyExempt(d, Write(d, l, mark, x, y, text, large))
  PROVE  LET n == Write(d, l, mark, x, y, text, large)
         IN  /\ Drew(d, n, l, TRUE)
             /\ \A m, t : Good(d, l, m, t, TRUE) => Good(n, l, m, t, TRUE)
  <1> DEFINE n == Write(d, l, mark, x, y, text, large)
  <1>1. LcdOK(n) /\ \A m \in Labels : m # l => n.width[m] = d.width[m]
    <2>1. LeavesAt(d, n, l, x, y, text, large)
      BY WriteLcd, Zenon
    <2> HIDE DEF n
    <2> QED
      BY <2>1, Zenon DEF LeavesAt
  <1> HIDE DEF n
  <1>2. OnlyExempt(d, n)
    BY DEF n
  <1>3. /\ Drew(d, n, l, TRUE)
        /\ \A m, t : Good(d, l, m, t, TRUE) => Good(n, l, m, t, TRUE)
    BY <1>1, <1>2, AllKept, Zenon DEF Drew
  <1> QED
    BY <1>3, Zenon DEF n

----------------------------------------------------------------------------
\* What the display shows of slot s.
HeaderGood(d, s, heading, spoilt) ==
  /\ Good(d, 2 * s, Mark(2 * s, heading), HeaderText(heading), spoilt)
  /\ (s \in {3, 4} /\ spoilt) \/ Saved(d, 2 * s, HeaderText(heading))

\* A displaced value's next clean-up stays in the last columns.
AtTheEnd(d, l) == d.width[l] \in Int /\ LetterA + d.width[l] <= 128

ValueGood(d, s, content, text, placed, spoilt) ==
  /\ Good(d, 2 * s + 1, Mark(2 * s + 1, content), text, spoilt)
  /\ Fit(2 * s + 1, text)
  /\ placed => Saved(d, 2 * s + 1, text)
  /\ ~placed => spoilt /\ AtTheEnd(d, 2 * s + 1)

\* The header that slot s draws next, and whether it may.
Heads(s, h, heading, spoilt) ==
  /\ ~GET_REDRAW(h.meta) => heading = h.text
  /\ (s \in {3, 4} /\ spoilt) \/ (Fit(2 * s, HeaderText(h.text)) /\ h.text # TYPE_FUEL_NEED)

\* A label that is not flagged.
LEMMA DrewNothing == \A d, l, spoilt : LcdOK(d) => Drew(d, d, l, spoilt)
  BY Zenon DEF Drew

\* The headers of the second row.
LEMMA SecondHeaders ==
  \A s \in {3, 4} :
    2 * s \in Labels /\ Page(2 * s) = 3 /\ Column(2 * s) \in {28, 80} /\ IsLarge(2 * s) = FALSE
  BY DEF Labels, Page, SlotOf, IsHeader, IsLarge, Column

\* LCDupdate on the header of a slot.
LEMMA HeaderStep ==
  ASSUME NEW d, LcdOK(d), NEW s \in Slots, NEW h, NEW heading, NEW spoilt \in BOOLEAN,
         HeaderGood(d, s, heading, spoilt), Heads(s, h, heading, spoilt)
  PROVE  LET n == HeaderDrawn(d, 2 * s, h)
         IN  /\ Drew(d, n, 2 * s, spoilt)
             /\ HeaderGood(n, s, h.text, spoilt)
             /\ GET_REDRAW(h.meta) /\ s \in {3, 4} /\ h.text = TYPE_FUEL_NEED => n.page[1] = 3
  <1> DEFINE l == 2 * s
             n == HeaderDrawn(d, l, h)
  <1>1. l \in Labels /\ IsLarge(l) = FALSE
    <2>1. l \in Labels /\ ~IsLarge(l) /\ IsLarge(l) \in BOOLEAN
      BY Places14, PagesOfLabels, Zenon
    <2> QED
      BY <2>1
  <1>2. /\ Good(d, l, Mark(l, heading), HeaderText(heading), spoilt)
        /\ (s \in {3, 4} /\ spoilt) \/ Saved(d, l, HeaderText(heading))
    BY Zenon DEF HeaderGood
  <1>3. /\ ~GET_REDRAW(h.meta) => heading = h.text
        /\ (s \in {3, 4} /\ spoilt) \/ (Fit(l, HeaderText(h.text)) /\ h.text # TYPE_FUEL_NEED)
    BY Zenon DEF Heads
  <1>4. (s \in {3, 4} /\ spoilt) => Page(l) = 3 /\ Column(l) \in {28, 80}
    BY SecondHeaders
  <1> HIDE DEF l
  <1>5. CASE ~GET_REDRAW(h.meta)
    <2>1. n = d /\ heading = h.text
      BY <1>3, <1>5, Zenon DEF HeaderDrawn
    <2> QED
      BY <1>5, <2>1, DrewNothing, Zenon DEF l
  <1>6. CASE GET_REDRAW(h.meta) /\ ~(s \in {3, 4} /\ spoilt)
    <2>1. n = Write(d, l, Mark(l, h.text), Column(l), Page(l), HeaderText(h.text), IsLarge(l))
      BY <1>1, <1>3, <1>6, Zenon DEF HeaderDrawn, DrawnText
    <2>2. Fit(l, HeaderText(h.text)) /\ Saved(d, l, HeaderText(heading)) /\ h.text # TYPE_FUEL_NEED
      BY <1>2, <1>3, <1>6
    <2> HIDE DEF n
    <2>3. /\ Drew(d, n, l, spoilt)
          /\ Good(n, l, Mark(l, h.text), HeaderText(h.text), spoilt)
          /\ Saved(n, l, HeaderText(h.text))
      BY <1>1, <1>2, <2>1, <2>2, DrewInPlace, Zenon
    <2>4. HeaderGood(n, s, h.text, spoilt)
      BY <2>3, Zenon DEF HeaderGood, l
    <2> QED
      BY <2>2, <2>3, <2>4, Zenon DEF n, l
  <1>7. CASE GET_REDRAW(h.meta) /\ s \in {3, 4} /\ spoilt
    <2> DEFINE text == DrawnText(h.text)
               x    == Column(l)
               y    == Page(l)
    <2>1. n = Write(d, l, Mark(l, h.text), x, y, text, FALSE)
      BY <1>7, Zenon DEF HeaderDrawn
    <2>2. y = 3 /\ y \in Nat /\ y <= 7 /\ ~(y > 7) /\ x \in {28, 80} /\ spoilt = TRUE
      BY <1>4, <1>7
    <2> HIDE DEF n, x, y, text
    <2>3. OnlyExempt(d, n)
      BY <2>1, <2>2, LineWritten, Zenon
    <2>4. y <= 7 => y + (IF FALSE THEN 1 ELSE 0) \in Pages
      BY <2>2 DEF Pages
    <2>5. Drew(d, n, l, spoilt) /\ \A m, t : Good(d, l, m, t, TRUE) => Good(n, l, m, t, TRUE)
      <3> DEFINE w == Write(d, l, Mark(l, h.text), x, y, text, FALSE)
      <3>1. FALSE \in BOOLEAN
        OBVIOUS
      <3>2. OnlyExempt(d, w)
        BY <2>1, <2>3, Zenon
      <3>3. Drew(d, w, l, TRUE) /\ \A m, t : Good(d, l, m, t, TRUE) => Good(w, l, m, t, TRUE)
        BY <1>1, <2>2, <2>4, <3>1, <3>2, DrewElsewhere, ZenonT(40)
      <3> HIDE DEF w
      <3>4. n = w
        BY <2>1 DEF w
      <3> QED
        BY <2>2, <3>3, <3>4, Zenon
    <2>6. Good(n, l, Mark(l, h.text), HeaderText(h.text), spoilt)
      <3> SUFFICES ASSUME NEW p \in PagesOf(l), NEW c \in Place(l)
                   PROVE  Exempt(p, c, spoilt)
        BY Zenon DEF Good
      <3>1. p = 3
        BY <1>1, <2>2, Zenon DEF PagesOf, y
      <3> QED
        BY <2>2, <3>1, Zenon DEF Exempt
    <2>7. h.text = TYPE_FUEL_NEED => n.page[1] = 3
      <3> SUFFICES ASSUME h.text = TYPE_FUEL_NEED PROVE n.page[1] = 3
        OBVIOUS
      <3>1. text = Overrunning
        BY Zenon DEF DrawnText, text
      <3>2. 1 \in Layout(x, Overrunning, FALSE).writers
        BY <2>2, OverrunsRight, Zenon
      <3>3. LeavesAt(d, n, l, x, y, text, FALSE)
        <4>1. FALSE \in BOOLEAN
          OBVIOUS
        <4> QED
          BY <1>1, <2>1, <2>2, <2>4, <4>1, WriteLcd, Zenon
      <3>4. n.page[1] = y
        BY <2>2, <3>1, <3>2, <3>3, Zenon DEF LeavesAt
      <3> QED
        BY <2>2, <3>4
    <2> QED
      BY <1>7, <2>5, <2>6, <2>7, Zenon DEF HeaderGood, n, l
  <1> QED
    BY <1>5, <1>6, <1>7, Zenon DEF l

----------------------------------------------------------------------------
\* The value that slot s draws next, and what the display must have come to.
Values(d, s, v, spoilt) ==
  /\ v \in ValueLabel
  /\ s < 5 => v.text = NoText
  /\ ~v.placed => /\ s \in {3, 4} /\ spoilt
                  /\ d.page[1] = 3 \/ AtTheEnd(d, 2 * s + 1)
                  /\ GET_REDRAW(v.meta) \/ AtTheEnd(d, 2 * s + 1)

ShowsNow(v, content)     == IF GET_REDRAW(v.meta) /\ v.placed THEN Content(v) ELSE content
TextNow(s, v, cells, text) ==
  IF GET_REDRAW(v.meta) /\ v.placed THEN Text(2 * s + 1, Content(v), cells) ELSE text

\* LCDupdate on the value of a slot.
LEMMA ValueStep ==
  ASSUME NEW d, LcdOK(d), NEW s \in Slots, NEW v, NEW cells, NEW content, NEW text, NEW spoilt \in BOOLEAN,
         Good(d, 2 * s + 1, Mark(2 * s + 1, content), text, spoilt), Fit(2 * s + 1, text),
         v.placed => Saved(d, 2 * s + 1, text),
         Values(d, s, v, spoilt)
  PROVE  LET n == ValueDrawn(d, 2 * s + 1, v, cells)
         IN  /\ Drew(d, n, 2 * s + 1, spoilt)
             /\ ValueGood(n, s, ShowsNow(v, content), TextNow(s, v, cells, text), v.placed, spoilt)
  <1> DEFINE l == 2 * s + 1
             n == ValueDrawn(d, l, v, cells)
             b == IsLarge(l)
             new == Text(l, Content(v), cells)
             mark == Mark(l, Content(v))
  <1>1. l \in Labels /\ b \in BOOLEAN /\ l = 2 * s + 1
    <2>1. l \in Labels
      BY Places14, Zenon
    <2> QED
      BY <2>1, PagesOfLabels, Zenon
  <1>2. /\ Good(d, l, Mark(l, content), text, spoilt)
        /\ Fit(l, text)
        /\ v.placed => Saved(d, l, text)
    OBVIOUS
  <1>3. /\ v \in ValueLabel
        /\ s < 5 => v.text = NoText
        /\ ~v.placed => /\ s \in {3, 4} /\ spoilt
                        /\ d.page[1] = 3 \/ AtTheEnd(d, l)
                        /\ GET_REDRAW(v.meta) \/ AtTheEnd(d, l)
    BY Zenon DEF Values
  <1> HIDE DEF l, b, new, mark
  <1>5. CASE ~GET_REDRAW(v.meta)
    <2>1. n = d /\ ShowsNow(v, content) = content /\ TextNow(s, v, cells, text) = text
      BY <1>5, Zenon DEF ValueDrawn, ShowsNow, TextNow
    <2>2. ValueGood(d, s, content, text, v.placed, spoilt)
      BY <1>2, <1>3, <1>5, Zenon DEF ValueGood, l
    <2> QED
      BY <2>1, <2>2, DrewNothing, Zenon DEF l
  <1>6. CASE GET_REDRAW(v.meta) /\ v.placed
    <2>1. /\ n = Write(d, l, mark, Column(l), Page(l), new, b)
          /\ ShowsNow(v, content) = Content(v) /\ TextNow(s, v, cells, text) = new
      <3>1. n = Write(d, l, mark, Column(l), Page(l), new, b)
        BY <1>6, Zenon DEF ValueDrawn, mark, new, b
      <3>2. ShowsNow(v, content) = Content(v) /\ TextNow(s, v, cells, text) = new
        BY <1>6, Zenon DEF ShowsNow, TextNow, new, l
      <3> QED
        BY <3>1, <3>2
    <2>2. Fit(l, new)
      BY <1>3, FitValue, Zenon DEF l, new
    <2> HIDE DEF n
    <2>3. Drew(d, n, l, spoilt) /\ Good(n, l, mark, new, spoilt) /\ Saved(n, l, new)
      <3>1. n = Write(d, l, mark, Column(l), Page(l), new, IsLarge(l))
        BY <2>1, Zenon DEF b
      <3>2. Saved(d, l, text)
        BY <1>2, <1>6
      <3> QED
        BY <1>1, <1>2, <2>2, <3>1, <3>2, DrewInPlace, Zenon
    <2>4. ValueGood(n, s, Content(v), new, v.placed, spoilt)
      BY <1>6, <2>2, <2>3, Zenon DEF ValueGood, l, mark
    <2> QED
      BY <2>1, <2>3, <2>4, Zenon DEF n, l
  <1>7. CASE GET_REDRAW(v.meta) /\ ~v.placed
    <2>1. /\ n = Write(d, l, mark, LetterA, LetterP, new, b)
          /\ ShowsNow(v, content) = content /\ TextNow(s, v, cells, text) = text
      <3>1. n = Write(d, l, mark, LetterA, LetterP, new, b)
        BY <1>7, Zenon DEF ValueDrawn, mark, new, b
      <3>2. ShowsNow(v, content) = content /\ TextNow(s, v, cells, text) = text
        BY <1>7, Zenon DEF ShowsNow, TextNow
      <3> QED
        BY <3>1, <3>2
    <2>2. /\ s \in {3, 4} /\ spoilt = TRUE
          /\ d.page[1] = 3 \/ (d.width[l] \in Int /\ LetterA + d.width[l] <= 128)
      BY <1>3, <1>7 DEF AtTheEnd
    <2>3. v.text = NoText
      <3>1. s < 5
        BY <2>2
      <3> QED
        BY <1>3, <3>1
    <2>4. /\ new \in Seq(Inked)
          /\ Layout(LetterA, new, b).end \in LetterA .. 128
          /\ Shaped(LetterA, new, b)
          /\ 64 \notin EndsOf(LetterA, new, b)
      BY <1>3, <2>2, <2>3, DisplacedEnd, ZenonT(40) DEF l, new, b
    <2> HIDE DEF n
    <2>5. OnlyExempt(d, n)
      BY <2>1, <2>2, <2>4, DisplacedWritten, Zenon
    <2>6. LetterP \in Nat /\ (LetterP <= 7 => LetterP + (IF b THEN 1 ELSE 0) \in Pages)
      BY DEF LetterP
    <2>7. Drew(d, n, l, TRUE) /\ \A m, t : Good(d, l, m, t, TRUE) => Good(n, l, m, t, TRUE)
      BY <1>1, <2>1, <2>5, <2>6, DrewElsewhere, Zenon
    <2>8. Drew(d, n, l, spoilt) /\ Good(n, l, Mark(l, content), text, spoilt)
      BY <1>2, <2>2, <2>7, Zenon
    <2>9. AtTheEnd(n, l)
      <3>1. LeavesAt(d, n, l, LetterA, LetterP, new, b)
        BY <1>1, <2>1, <2>6, WriteLcd, Zenon
      <3>2. n.width[l] = Layout(LetterA, new, b).end - LetterA
        BY <3>1, Zenon DEF LeavesAt
      <3>3. \A e \in LetterA .. 128 : e - LetterA \in Int /\ LetterA + (e - LetterA) <= 128
        BY DEF LetterA
      <3> QED
        BY <2>4, <3>2, <3>3, Zenon DEF AtTheEnd
    <2>10. ValueGood(n, s, content, text, v.placed, spoilt)
      BY <1>2, <1>7, <2>2, <2>8, <2>9, Zenon DEF ValueGood, l
    <2> QED
      BY <2>1, <2>8, <2>10, Zenon DEF n, l
  <1> QED
    BY <1>5, <1>6, <1>7, Zenon DEF l

----------------------------------------------------------------------------
SlotGood(d, s, heading, content, text, placed, spoilt) ==
  HeaderGood(d, s, heading, spoilt) /\ ValueGood(d, s, content, text, placed, spoilt)

\* A label of one slot does not touch another slot.
LEMMA SlotsApart ==
  ASSUME NEW d, NEW n, NEW l \in Labels, NEW spoilt, Drew(d, n, l, spoilt), NEW t \in Slots
  PROVE  /\ \A heading : l # 2 * t /\ HeaderGood(d, t, heading, spoilt) => HeaderGood(n, t, heading, spoilt)
         /\ \A content, text, placed :
              l # 2 * t + 1 /\ ValueGood(d, t, content, text, placed, spoilt)
                => ValueGood(n, t, content, text, placed, spoilt)
  <1> DEFINE a == 2 * t
             b == 2 * t + 1
  <1>1. a \in Labels /\ b \in Labels
    BY Places14, Zenon
  <1>2. ASSUME NEW heading, l # a, HeaderGood(d, t, heading, spoilt)
        PROVE  HeaderGood(n, t, heading, spoilt)
    <2>1. /\ Good(d, a, Mark(a, heading), HeaderText(heading), spoilt)
          /\ (t \in {3, 4} /\ spoilt) \/ Saved(d, a, HeaderText(heading))
      BY <1>2, Zenon DEF HeaderGood
    <2> HIDE DEF a
    <2>2. Good(n, a, Mark(a, heading), HeaderText(heading), spoilt) /\ n.width[a] = d.width[a]
      BY <1>1, <1>2, <2>1, Zenon DEF Drew
    <2> QED
      BY <2>1, <2>2, Zenon DEF HeaderGood, Saved, a
  <1>3. ASSUME NEW content, NEW text, NEW placed, l # b, ValueGood(d, t, content, text, placed, spoilt)
        PROVE  ValueGood(n, t, content, text, placed, spoilt)
    <2>1. /\ Good(d, b, Mark(b, content), text, spoilt)
          /\ Fit(b, text)
          /\ placed => Saved(d, b, text)
          /\ ~placed => spoilt /\ AtTheEnd(d, b)
      BY <1>3, Zenon DEF ValueGood
    <2> HIDE DEF b
    <2>2. Good(n, b, Mark(b, content), text, spoilt) /\ n.width[b] = d.width[b]
      BY <1>1, <1>3, <2>1, Zenon DEF Drew
    <2> QED
      BY <2>1, <2>2, Zenon DEF ValueGood, Saved, AtTheEnd, b
  <1> QED
    BY <1>2, <1>3, Zenon

----------------------------------------------------------------------------
\* The labels of slot s as an update leaves them, beside what it shows before.
Ready(s, h, v, heading, placed, spoilt) ==
  /\ Heads(s, h, heading, spoilt)
  /\ v \in ValueLabel
  /\ s < 5 => v.text = NoText
  /\ v.placed => placed
  /\ ~v.placed => s \in {3, 4} /\ spoilt
  /\ ~v.placed /\ placed => h.text = TYPE_FUEL_NEED /\ GET_REDRAW(h.meta) /\ GET_REDRAW(v.meta)

SlotStepped(d, n, s, h, v, cells, content, text, spoilt) ==
  /\ LcdOK(n)
  /\ SlotGood(n, s, h.text, ShowsNow(v, content), TextNow(s, v, cells, text), v.placed, spoilt)
  /\ \A t \in Slots : \A heading2, content2, text2, placed2 :
       t # s /\ SlotGood(d, t, heading2, content2, text2, placed2, spoilt)
         => SlotGood(n, t, heading2, content2, text2, placed2, spoilt)
  /\ \A g : GearGood(d, g, spoilt) => GearGood(n, g, spoilt)

\* LCDupdate on both labels of a slot.
LEMMA SlotStep ==
  ASSUME NEW d, LcdOK(d), NEW s \in Slots, NEW h, NEW v, NEW cells,
         NEW heading, NEW content, NEW text, NEW placed,
         NEW spoilt \in BOOLEAN,
         SlotGood(d, s, heading, content, text, placed, spoilt), Ready(s, h, v, heading, placed, spoilt)
  PROVE  SlotStepped(d, ValueDrawn(HeaderDrawn(d, 2 * s, h), 2 * s + 1, v, cells),
                     s, h, v, cells, content, text, spoilt)
  <1> DEFINE a == 2 * s
             b == 2 * s + 1
             m == HeaderDrawn(d, a, h)
             n == ValueDrawn(m, b, v, cells)
  <1>0. /\ a \in Labels /\ b \in Labels /\ a # b
        /\ \A t \in Slots : t # s => a # 2 * t /\ a # 2 * t + 1 /\ b # 2 * t /\ b # 2 * t + 1
    <2>1. a \in Labels /\ b \in Labels
      BY Places14, Zenon
    <2>2. a # b /\ \A t \in Slots : t # s => a # 2 * t /\ a # 2 * t + 1 /\ b # 2 * t /\ b # 2 * t + 1
      BY DEF Slots
    <2> QED
      BY <2>1, <2>2
  <1>1. HeaderGood(d, s, heading, spoilt) /\ ValueGood(d, s, content, text, placed, spoilt)
    BY Zenon DEF SlotGood
  <1>2. /\ Heads(s, h, heading, spoilt)
        /\ v \in ValueLabel
        /\ s < 5 => v.text = NoText
        /\ v.placed => placed
        /\ ~v.placed => s \in {3, 4} /\ spoilt
        /\ ~v.placed /\ placed => h.text = TYPE_FUEL_NEED /\ GET_REDRAW(h.meta) /\ GET_REDRAW(v.meta)
    BY Zenon DEF Ready
  <1>3. /\ Drew(d, m, a, spoilt)
        /\ HeaderGood(m, s, h.text, spoilt)
        /\ GET_REDRAW(h.meta) /\ s \in {3, 4} /\ h.text = TYPE_FUEL_NEED => m.page[1] = 3
    BY <1>1, <1>2, HeaderStep, Zenon
  <1> HIDE DEF m
  <1>4. ValueGood(m, s, content, text, placed, spoilt)
    <2>1. a # 2 * s + 1
      BY <1>0
    <2> HIDE DEF a
    <2> QED
      BY <1>0, <1>1, <1>3, <2>1, SlotsApart, Zenon
  <1>5. /\ Good(m, b, Mark(b, content), text, spoilt)
        /\ Fit(b, text)
        /\ placed => Saved(m, b, text)
        /\ ~placed => spoilt /\ AtTheEnd(m, b)
    BY <1>4, Zenon DEF ValueGood
  <1>6. Values(m, s, v, spoilt)
    BY <1>2, <1>3, <1>5, Zenon DEF Values
  <1>7. /\ Drew(m, n, b, spoilt)
        /\ ValueGood(n, s, ShowsNow(v, content), TextNow(s, v, cells, text), v.placed, spoilt)
    <2>1. LcdOK(m) /\ (v.placed => Saved(m, b, text))
      BY <1>2, <1>3, <1>5, Zenon DEF Drew
    <2> QED
      BY <1>5, <1>6, <2>1, ValueStep, Zenon
  <1> HIDE DEF n
  <1>8. HeaderGood(n, s, h.text, spoilt)
    <2>1. b # 2 * s
      BY <1>0
    <2> HIDE DEF b
    <2> QED
      BY <1>0, <1>3, <1>7, <2>1, SlotsApart, Zenon
  <1>9. ASSUME NEW t \in Slots, NEW heading2, NEW content2, NEW text2, NEW placed2,
               t # s, SlotGood(d, t, heading2, content2, text2, placed2, spoilt)
        PROVE  SlotGood(n, t, heading2, content2, text2, placed2, spoilt)
    <2>0. a # 2 * t /\ a # 2 * t + 1 /\ b # 2 * t /\ b # 2 * t + 1
      BY <1>0, <1>9, Zenon
    <2> HIDE DEF a, b
    <2>1. HeaderGood(d, t, heading2, spoilt) /\ ValueGood(d, t, content2, text2, placed2, spoilt)
      BY <1>9, Zenon DEF SlotGood
    <2>2. HeaderGood(m, t, heading2, spoilt) /\ ValueGood(m, t, content2, text2, placed2, spoilt)
      BY <1>0, <1>3, <2>0, <2>1, SlotsApart, Zenon
    <2>3. HeaderGood(n, t, heading2, spoilt) /\ ValueGood(n, t, content2, text2, placed2, spoilt)
      BY <1>0, <1>7, <2>0, <2>2, SlotsApart, Zenon
    <2> QED
      BY <2>3, Zenon DEF SlotGood
  <1>10. LcdOK(n) /\ \A g : GearGood(d, g, spoilt) => GearGood(n, g, spoilt)
    BY <1>3, <1>7, Zenon DEF Drew
  <1>11. SlotGood(n, s, h.text, ShowsNow(v, content), TextNow(s, v, cells, text), v.placed, spoilt)
    BY <1>7, <1>8, Zenon DEF SlotGood
  <1>12. SlotStepped(d, n, s, h, v, cells, content, text, spoilt)
    BY <1>9, <1>10, <1>11, Zenon DEF SlotStepped
  <1> QED
    BY <1>12, Zenon DEF n, m, a, b

----------------------------------------------------------------------------
(***************************************************************************)
(* An update: the gear, and the slots one after the other.                 *)
(***************************************************************************)
OldSlot(d, s, spoilt) ==
  SlotGood(d, s, screen.header[s], screen.value[s], drawn[s], value[s].placed, spoilt)

NewSlot(d, s, types, redraw, spoilt) ==
  LET h == HeaderNow(s, types, redraw)
      v == ValueNow(s, types, redraw)
  IN  SlotGood(d, s, h.text, ShowsNow(v, screen.value[s]),
               TextNow(s, v, DigitsNow(s, v), drawn[s]), v.placed, spoilt)

ReadySlots(types, redraw, spoilt) ==
  \A s \in Slots :
    Ready(s, HeaderNow(s, types, redraw), ValueNow(s, types, redraw), screen.header[s], value[s].placed, spoilt)

\* The first k slots are drawn.
Stage(d, k, types, redraw, g, spoilt) ==
  /\ LcdOK(d)
  /\ GearGood(d, g, spoilt)
  /\ \A s \in Slots : s <= k => NewSlot(d, s, types, redraw, spoilt)
  /\ \A s \in Slots : ~(s <= k) => OldSlot(d, s, spoilt)

\* One slot more has been drawn.
LEMMA StageStep ==
  ASSUME NEW types, NEW redraw, NEW g, NEW spoilt \in BOOLEAN, ReadySlots(types, redraw, spoilt),
         NEW k \in 0 .. 5, NEW d, Stage(d, k, types, redraw, g, spoilt), NEW j, j = k + 1
  PROVE  Stage(SlotDrawn(d, j, types, redraw), j, types, redraw, g, spoilt)
  <1> DEFINE h     == HeaderNow(j, types, redraw)
             v     == ValueNow(j, types, redraw)
             cells == DigitsNow(j, v)
             n     == SlotDrawn(d, j, types, redraw)
  <1>1. /\ j \in Slots /\ ~(j <= k)
        /\ \A s \in Slots : /\ s <= j <=> s <= k \/ s = j
                            /\ ~(s <= j) => s # j /\ ~(s <= k)
                            /\ s <= k => s # j
    BY DEF Slots
  <1>2. /\ LcdOK(d) /\ GearGood(d, g, spoilt)
        /\ \A s \in Slots : s <= k => NewSlot(d, s, types, redraw, spoilt)
        /\ \A s \in Slots : ~(s <= k) => OldSlot(d, s, spoilt)
    BY Zenon DEF Stage
  <1>3. SlotGood(d, j, screen.header[j], screen.value[j], drawn[j], value[j].placed, spoilt)
    BY <1>1, <1>2, Zenon DEF OldSlot
  <1>4. Ready(j, h, v, screen.header[j], value[j].placed, spoilt)
    BY <1>1, Zenon DEF ReadySlots
  <1>5. n = ValueDrawn(HeaderDrawn(d, 2 * j, h), 2 * j + 1, v, cells)
    BY Zenon DEF SlotDrawn
  <1> HIDE DEF h, v, cells, n
  <1>6. SlotStepped(d, n, j, h, v, cells, screen.value[j], drawn[j], spoilt)
    BY <1>1, <1>2, <1>3, <1>4, <1>5, SlotStep, Zenon
  <1>7. NewSlot(n, j, types, redraw, spoilt)
    BY <1>6, Zenon DEF SlotStepped, NewSlot, h, v, cells
  <1>8. ASSUME NEW s \in Slots, s <= k PROVE NewSlot(n, s, types, redraw, spoilt)
    <2>1. s # j /\ NewSlot(d, s, types, redraw, spoilt)
      BY <1>1, <1>2, <1>8
    <2> QED
      BY <1>6, <2>1, Zenon DEF SlotStepped, NewSlot
  <1>9. ASSUME NEW s \in Slots, ~(s <= j) PROVE OldSlot(n, s, spoilt)
    <2>1. s # j /\ OldSlot(d, s, spoilt)
      BY <1>1, <1>2, <1>9
    <2> QED
      BY <1>6, <2>1, Zenon DEF SlotStepped, OldSlot
  <1>10. LcdOK(n) /\ GearGood(n, g, spoilt)
    BY <1>2, <1>6, Zenon DEF SlotStepped
  <1>11. \A s \in Slots : s <= j => NewSlot(n, s, types, redraw, spoilt)
    BY <1>1, <1>7, <1>8, Zenon
  <1> QED
    BY <1>9, <1>10, <1>11, Zenon DEF Stage, n

GearShown(types, redraw) ==
  LET g == GearNow(types, redraw) IN IF GET_REDRAW(g.meta) THEN g.number ELSE screen.gear

\* LCDupdate as a whole.
LEMMA UpdateDraws ==
  ASSUME NEW types, NEW redraw, NEW spoilt \in BOOLEAN, ReadySlots(types, redraw, spoilt),
         LcdOK(lcd), GearGood(lcd, screen.gear, spoilt), \A s \in Slots : OldSlot(lcd, s, spoilt),
         GearNow(types, redraw).number # Blank
  PROVE  Stage(Updated(types, redraw), 6, types, redraw, GearShown(types, redraw), spoilt)
  <1> DEFINE g  == GearNow(types, redraw)
             now == GearShown(types, redraw)
             d0 == GearDrawn(g)
             d1 == SlotDrawn(d0, 1, types, redraw)
             d2 == SlotDrawn(d1, 2, types, redraw)
             d3 == SlotDrawn(d2, 3, types, redraw)
             d4 == SlotDrawn(d3, 4, types, redraw)
             d5 == SlotDrawn(d4, 5, types, redraw)
             d6 == SlotDrawn(d5, 6, types, redraw)
             OK(d, k) == Stage(d, k, types, redraw, now, spoilt)
  <1>0. Updated(types, redraw) = d6
    BY Zenon DEF Updated
  <1>1. LcdOK(d0) /\ GearGood(d0, now, spoilt) /\ \A s \in Slots : OldSlot(d0, s, spoilt)
    <2>1. CASE GET_REDRAW(g.meta)
      <3>1. d0 = WriteGear(lcd, GearMark(g.number)) /\ now = g.number
        BY <2>1, Zenon DEF GearDrawn, GearShown
      <3>2. g.number # Blank
        OBVIOUS
      <3> HIDE DEF d0, now, g
      <3>3. /\ LcdOK(d0) /\ d0.width = lcd.width
            /\ GearGood(d0, now, spoilt)
            /\ \A m \in Labels : \A mark, text :
                 Good(lcd, m, mark, text, spoilt) => Good(d0, m, mark, text, spoilt)
        BY <3>1, <3>2, GearWritten, Zenon
      <3>4. ASSUME NEW s \in Slots PROVE OldSlot(d0, s, spoilt)
        <4>1. OldSlot(lcd, s, spoilt)
          OBVIOUS
        <4>2. 2 * s \in Labels /\ 2 * s + 1 \in Labels
          BY Places14, Zenon
        <4> QED
          BY <3>3, <4>1, <4>2, Zenon DEF OldSlot, SlotGood, HeaderGood, ValueGood, Saved, AtTheEnd
      <3> QED
        BY <3>3, <3>4, Zenon
    <2>2. CASE ~GET_REDRAW(g.meta)
      <3>1. d0 = lcd /\ now = screen.gear
        BY <2>2, Zenon DEF GearDrawn, GearShown
      <3> QED
        BY <3>1, Zenon
    <2> QED
      BY <2>1, <2>2
  <1>2. OK(d0, 0)
    <2>1. \A s \in Slots : ~(s <= 0)
      BY DEF Slots
    <2> HIDE DEF d0, now
    <2> QED
      BY <1>1, <2>1, Zenon DEF Stage
  <1> HIDE DEF d0, now
  <1>3. /\ 0 \in 0 .. 5 /\ 1 \in 0 .. 5 /\ 2 \in 0 .. 5 /\ 3 \in 0 .. 5 /\ 4 \in 0 .. 5 /\ 5 \in 0 .. 5
        /\ 1 = 0 + 1 /\ 2 = 1 + 1 /\ 3 = 2 + 1 /\ 4 = 3 + 1 /\ 5 = 4 + 1 /\ 6 = 5 + 1
    OBVIOUS
  <1>4. OK(d1, 1)
    BY <1>2, <1>3, StageStep, Zenon
  <1> HIDE DEF d1
  <1>5. OK(d2, 2)
    BY <1>3, <1>4, StageStep, Zenon
  <1> HIDE DEF d2
  <1>6. OK(d3, 3)
    BY <1>3, <1>5, StageStep, Zenon
  <1> HIDE DEF d3
  <1>7. OK(d4, 4)
    BY <1>3, <1>6, StageStep, Zenon
  <1> HIDE DEF d4
  <1>8. OK(d5, 5)
    BY <1>3, <1>7, StageStep, Zenon
  <1> HIDE DEF d5
  <1>9. OK(d6, 6)
    BY <1>3, <1>8, StageStep, Zenon
  <1> QED
    BY <1>0, <1>9, Zenon DEF now

----------------------------------------------------------------------------
(***************************************************************************)
(* The invariant, and the passes that keep it.                             *)
(***************************************************************************)
Spoilt == \E s \in Slots : ~value[s].placed

\* The second row's values are displaced with the first press, whatever follows.
Displacement ==
  /\ lcdtypes[3] # TYPE_POS => ~value[3].placed
  /\ \A s \in Slots : lcdtypes[s] = TYPE_FUEL_NEED => ~value[s].placed

Picture ==
  /\ LcdOK(lcd)
  /\ GearGood(lcd, screen.gear, Spoilt)
  /\ \A s \in Slots : OldSlot(lcd, s, Spoilt)

DInv == IInv /\ Displacement /\ Picture

\* While a value is where it was, nothing is exempt that was not before.
LEMMA SpoiltMore ==
  ASSUME NEW d, NEW spoilt \in BOOLEAN, NEW more \in BOOLEAN, spoilt => more
  PROVE  /\ \A s \in Slots : OldSlot(d, s, spoilt) => OldSlot(d, s, more)
         /\ \A g : GearGood(d, g, spoilt) => GearGood(d, g, more)
  <1>1. \A p, c : Exempt(p, c, spoilt) => Exempt(p, c, more)
    BY Zenon DEF Exempt
  <1>2. \A g : GearGood(d, g, spoilt) => GearGood(d, g, more)
    BY <1>1, Zenon DEF GearGood
  <1>3. \A l, mark, text : Good(d, l, mark, text, spoilt) => Good(d, l, mark, text, more)
    BY <1>1, Zenon DEF Good
  <1>4. ASSUME NEW s \in Slots, OldSlot(d, s, spoilt)
        PROVE  OldSlot(d, s, more)
    <2>1. /\ HeaderGood(d, s, screen.header[s], spoilt)
          /\ ValueGood(d, s, screen.value[s], drawn[s], value[s].placed, spoilt)
      BY <1>4, Zenon DEF OldSlot, SlotGood
    <2>2. HeaderGood(d, s, screen.header[s], more)
      BY <1>3, <2>1, Zenon DEF HeaderGood
    <2>3. ValueGood(d, s, screen.value[s], drawn[s], value[s].placed, more)
      BY <1>3, <2>1, Zenon DEF ValueGood
    <2> QED
      BY <2>2, <2>3, Zenon DEF OldSlot, SlotGood
  <1> QED
    BY <1>2, <1>4, Zenon

\* What an update leaves of Panel's variables, in the terms of the labels it has drawn.
LEMMA LabelsAfter ==
  ASSUME IInv, NEW change, MainLoop(change), change # {} \/ updatePending
  PROVE  LET r      == lcdtypes'
             redraw == change # {}
         IN  /\ IInv' /\ r \in [Places -> Entries] /\ RowsOK(r)
             /\ screen'.gear = GearShown(r, redraw) /\ GearNow(r, redraw).number # Blank
             /\ \A s \in Slots :
                  LET h == HeaderNow(s, r, redraw)
                      v == ValueNow(s, r, redraw)
                  IN  /\ h.text = r[s]
                      /\ ~GET_REDRAW(h.meta) => screen.header[s] = h.text
                      /\ v \in ValueLabel
                      /\ ~IsTime(r[s]) => v.text = NoText
                      /\ v.placed <=> value[s].placed /\ r[s] # TYPE_FUEL_NEED
                      /\ screen'.header[s] = h.text
                      /\ screen'.value[s] = ShowsNow(v, screen.value[s])
                      /\ value'[s].placed = v.placed
  <1> DEFINE r      == lcdtypes'
             redraw == change # {}
             h(s)   == HeaderNow(s, r, redraw)
             v(s)   == ValueNow(s, r, redraw)
             g      == GearNow(r, redraw)
  <1>1. /\ r \in [Places -> Entries] /\ RowsOK(r)
        /\ \A s \in Slots : r[s] = lcdtypes[s] \/ <<lcdtypes[s], r[s]>> \in Follows(s)
    BY RotateKeepsRows
  <1>2. IInv'
    BY MainLoopKeeps
  <1>3. Update(r, redraw)
    BY DEF MainLoop
  <1>4. ASSUME NEW s \in Slots
        PROVE  h(s).text = r[s] /\ (IF GET_REDRAW(h(s).meta) THEN h(s).text ELSE screen.header[s]) = r[s]
    BY <1>1, HeaderUpdated
  <1>5. ASSUME NEW s \in Slots
        PROVE  /\ v(s) \in ValueLabel
               /\ v(s).placed <=> value[s].placed /\ r[s] # TYPE_FUEL_NEED
               /\ ~IsTime(r[s]) => v(s).text = NoText
    BY <1>1, ValueUpdated
  <1>6. g \in GearLabel /\ g.number # Blank
    <2>1. g \in GearLabel
      BY <1>1, GearUpdated
    <2> HIDE DEF g
    <2> QED
      BY <2>1, NotAWord DEF GearLabel
  <1>7. screen' = ScreenNow(r, redraw) /\ value' = [s \in Slots |-> Unmarked(Drawn(v(s)))]
    BY <1>3, Zenon DEF Update
  <1>8. screen'.gear = GearShown(r, redraw)
    BY <1>7 DEF ScreenNow, GearShown
  <1> HIDE DEF r, redraw, g
  <1>9. ASSUME NEW s \in Slots
        PROVE  /\ screen'.header[s] = IF GET_REDRAW(h(s).meta) THEN h(s).text ELSE screen.header[s]
               /\ screen'.value[s] = ShowsNow(v(s), screen.value[s])
    BY <1>7 DEF ScreenNow, ShowsNow
  <1>10. ASSUME NEW s \in Slots
         PROVE  value'[s].placed = v(s).placed
    <2>1. value'[s] = Unmarked(Drawn(v(s)))
      BY <1>7
    <2>2. v(s) \in ValueLabel
      BY <1>5
    <2> HIDE DEF v
    <2> QED
      BY <2>1, <2>2, DrawnValue, UnmarkedLabels
  <1>11. ASSUME NEW s \in Slots
         PROVE  /\ ~GET_REDRAW(h(s).meta) => screen.header[s] = h(s).text
                /\ screen'.header[s] = h(s).text
    BY <1>4, <1>9
  <1> HIDE DEF h, v
  <1> QED
    BY <1>1, <1>2, <1>4, <1>5, <1>6, <1>8, <1>9, <1>10, <1>11, Zenon DEF r, redraw, g, h, v

----------------------------------------------------------------------------
\* "fuel need" comes into a slot with a press, and then both labels are drawn.
LEMMA DisplacesAndDraws ==
  ASSUME IInv, Displacement, NEW change, MainLoop(change), change # {} \/ updatePending,
         NEW s \in Slots, value[s].placed, lcdtypes'[s] = TYPE_FUEL_NEED
  PROVE  /\ GET_REDRAW(HeaderNow(s, lcdtypes', change # {}).meta)
         /\ GET_REDRAW(ValueNow(s, lcdtypes', change # {}).meta)
  <1> DEFINE u == lcdtypes'[s]
  <1>1. change # {}
    <2>1. lcdtypes[s] # TYPE_FUEL_NEED
      BY DEF Displacement
    <2> QED
      BY <2>1 DEF MainLoop, Rotate
  <1>2. header[s] \in HeaderLabel /\ value[s] \in ValueLabel
    BY DEF IInv, TypeOK
  <1>3. u \in Entries /\ data[u] \in Word
    <2>1. u \in Entries
      BY DEF Entries, IntTypes
    <2> QED
      BY <2>1 DEF IInv, TypeOK
  <1>4. header[s].number = 0
    BY DEF IInv, Untouched, UpToDate
  <1>5. GET_REDRAW(HeaderNow(s, lcdtypes', change # {}).meta)
    <2> DEFINE h == Marked(header[s])
    <2>1. HeaderNow(s, lcdtypes', change # {}) = ProcessHeader(h, u)
      BY <1>1, Zenon DEF HeaderNow
    <2>2. h \in HeaderLabel /\ GET_REDRAW(h.meta)
      BY <1>2, MarkedHeader
    <2> HIDE DEF h, u
    <2>3. ProcessHeader(h, u) = h \/ GET_REDRAW(ProcessHeader(h, u).meta)
      BY <1>3, <2>2, HeaderProcessed
    <2> QED
      BY <2>1, <2>2, <2>3, Zenon DEF u
  <1>6. GET_REDRAW(ValueNow(s, lcdtypes', change # {}).meta)
    <2> DEFINE m == Marked(value[s])
               d == IF Overruns(header[s], u) THEN Displaced(m) ELSE m
               n == ProcessValue(d, header[s], u, data[u])
    <2>1. ValueNow(s, lcdtypes', change # {}) = n
      BY <1>1, Zenon DEF ValueNow
    <2>2. m \in ValueLabel /\ GET_REDRAW(m.meta)
      BY <1>2, MarkedValue
    <2>3. d \in ValueLabel /\ GET_REDRAW(d.meta)
      <3>1. Displaced(m) \in ValueLabel /\ Displaced(m).meta = m.meta
        <4> HIDE DEF m
        <4>1. Displaced(m) \in ValueLabel
          BY <2>2, DisplacedValue
        <4>2. Displaced(m).meta = m.meta
          BY <2>2 DEF Displaced, ValueLabel
        <4> QED
          BY <4>1, <4>2
      <3> HIDE DEF m
      <3> QED
        BY <2>2, <3>1
    <2> HIDE DEF d, m, u
    <2>4. /\ data[u] = 0 => n = d
          /\ data[u] # 0 => GET_REDRAW(n.meta)
      BY <1>3, <1>4, <2>3, ValueProcessed
    <2> HIDE DEF n
    <2> QED
      BY <2>1, <2>3, <2>4, Zenon
  <1> QED
    BY <1>5, <1>6

\* The headers fit as long as no value is displaced, and those of the first and third
\* row for good.
LEMMA HeadersFit ==
  ASSUME NEW types \in [Places -> Entries], RowsOK(types), NEW s \in Slots, NEW spoilt,
         spoilt \/ types[3] = TYPE_POS
  PROVE  (s \in {3, 4} /\ spoilt) \/ (Fit(2 * s, HeaderText(types[s])) /\ types[s] # TYPE_FUEL_NEED)
  <1>1. types[s] = TYPE_FUEL_NEED => s \in {3, 4}
    BY SlotTypes
  <1>2. CASE s \in {1, 2}
    <2>1. types[s] \in NumberOfRow
      BY <1>2 DEF RowsOK, TopRow, NumberOfRow
    <2>2. ~(s \in {3, 4})
      BY <1>2
    <2> QED
      BY <1>1, <1>2, <2>1, <2>2, FitHeader, Zenon
  <1>3. CASE s \in {3, 4}
    <2> SUFFICES ASSUME ~spoilt PROVE Fit(2 * s, HeaderText(types[s])) /\ types[s] # TYPE_FUEL_NEED
      BY <1>3
    <2>1. types[3] = TYPE_POS /\ types[4] = TYPE_LAP
      BY RowTypesDiffer DEF RowsOK, SecondRow
    <2>2. TYPE_POS # TYPE_FUEL_NEED /\ TYPE_LAP # TYPE_FUEL_NEED
      BY RowTypesDiffer
    <2>3. (s = 3 /\ 2 * s = 6) \/ (s = 4 /\ 2 * s = 8)
      BY <1>3
    <2> QED
      BY <2>1, <2>2, <2>3, FitHeader
  <1>4. CASE s \in {5, 6}
    <2>1. types[5] = TYPE_LAPTIME /\ types[6] = TYPE_DELTA
      BY DEF RowsOK
    <2>2. (s = 5 /\ 2 * s = 10) \/ (s = 6 /\ 2 * s = 12)
      BY <1>4
    <2>3. types[s] # TYPE_FUEL_NEED
      BY <1>1, <1>4
    <2> QED
      BY <2>1, <2>2, <2>3, FitHeader
  <1> QED
    BY <1>2, <1>3, <1>4 DEF Slots

\* An update keeps track of the displaced values.
LEMMA DisplacementKept ==
  ASSUME IInv, Displacement, NEW change, MainLoop(change), change # {} \/ updatePending
  PROVE  /\ Displacement'
         /\ Spoilt => Spoilt'
         /\ ~Spoilt' => lcdtypes'[3] = TYPE_POS
  <1>1. \A s \in Slots : value'[s].placed <=> value[s].placed /\ lcdtypes'[s] # TYPE_FUEL_NEED
    BY LabelsAfter
  <1>2. lcdtypes'[3] = lcdtypes[3] \/ <<lcdtypes[3], lcdtypes'[3]>> \in Follows(3)
    BY RotateKeepsRows DEF Slots
  <1>3. lcdtypes'[3] # TYPE_POS => ~value'[3].placed
    <2> SUFFICES ASSUME value'[3].placed PROVE lcdtypes'[3] = TYPE_POS
      OBVIOUS
    <2>1. value[3].placed /\ lcdtypes'[3] # TYPE_FUEL_NEED
      BY <1>1 DEF Slots
    <2>2. lcdtypes[3] = TYPE_POS
      BY <2>1 DEF Displacement
    <2> QED
      BY <1>2, <2>1, <2>2, RowTypesDiffer DEF Follows
  <1>4. \A s \in Slots : lcdtypes'[s] = TYPE_FUEL_NEED => ~value'[s].placed
    BY <1>1
  <1>5. Spoilt => Spoilt'
    BY <1>1, Zenon DEF Spoilt
  <1>6. ~Spoilt' => lcdtypes'[3] = TYPE_POS
    BY <1>3 DEF Spoilt, Slots
  <1> QED
    BY <1>3, <1>4, <1>5, <1>6 DEF Displacement

\* What LCDProcessMessage leaves in the labels is what LCDupdate can draw.
LEMMA LabelsReady ==
  ASSUME IInv, Displacement, NEW change, MainLoop(change), change # {} \/ updatePending
  PROVE  ReadySlots(lcdtypes', change # {}, Spoilt')
  <1> DEFINE r == lcdtypes'
  <1> SUFFICES ASSUME NEW s \in Slots
               PROVE  Ready(s, HeaderNow(s, r, change # {}), ValueNow(s, r, change # {}),
                            screen.header[s], value[s].placed, Spoilt')
    BY Zenon DEF ReadySlots
  <1> DEFINE h == HeaderNow(s, r, change # {})
             v == ValueNow(s, r, change # {})
  <1>1. /\ IInv' /\ r \in [Places -> Entries] /\ RowsOK(r)
        /\ h.text = r[s]
        /\ ~GET_REDRAW(h.meta) => screen.header[s] = h.text
        /\ v \in ValueLabel
        /\ ~IsTime(r[s]) => v.text = NoText
        /\ v.placed <=> value[s].placed /\ r[s] # TYPE_FUEL_NEED
        /\ value'[s].placed = v.placed
    BY LabelsAfter
  <1>2. Spoilt' \/ r[3] = TYPE_POS
    BY DisplacementKept
  <1>3. value[s].placed /\ r[s] = TYPE_FUEL_NEED => GET_REDRAW(h.meta) /\ GET_REDRAW(v.meta)
    BY DisplacesAndDraws, Zenon
  <1> HIDE DEF h, v
  <1>4. Heads(s, h, screen.header[s], Spoilt')
    <2>1. (s \in {3, 4} /\ Spoilt') \/ (Fit(2 * s, HeaderText(r[s])) /\ r[s] # TYPE_FUEL_NEED)
      BY <1>1, <1>2, HeadersFit, Zenon
    <2> QED
      BY <1>1, <2>1, Zenon DEF Heads
  <1>5. s < 5 => v.text = NoText
    <2>1. s < 5 => s \notin {5, 6}
      BY DEF Slots
    <2>2. IsTime(r[s]) <=> s \in {5, 6}
      BY <1>1, SlotTypes, Zenon
    <2> QED
      BY <1>1, <2>1, <2>2, Zenon
  <1>6. ~v.placed => s \in {3, 4} /\ Spoilt'
    <2> SUFFICES ASSUME ~v.placed PROVE s \in {3, 4} /\ Spoilt'
      OBVIOUS
    <2>1. ~value'[s].placed
      BY <1>1
    <2>2. Spoilt'
      BY <2>1, Zenon DEF Spoilt
    <2>3. s \in {3, 4}
      BY <1>1, <2>1 DEF IInv, OnlySecondRowMoves
    <2> QED
      BY <2>2, <2>3
  <1>7. Ready(s, h, v, screen.header[s], value[s].placed, Spoilt')
    BY <1>1, <1>3, <1>4, <1>5, <1>6, Zenon DEF Ready
  <1> QED
    BY <1>7, Zenon DEF h, v, r

----------------------------------------------------------------------------
\* A pass of the main loop that updates the display.
LEMMA PictureAfter ==
  ASSUME DInv, NEW change, Pass(change), change # {} \/ updatePending
  PROVE  Picture'
  <1> DEFINE r      == lcdtypes'
             redraw == change # {}
             more   == Spoilt'
             shown  == GearShown(r, redraw)
  <1>0. /\ IInv /\ Displacement /\ MainLoop(change)
        /\ LcdOK(lcd) /\ GearGood(lcd, screen.gear, Spoilt) /\ \A s \in Slots : OldSlot(lcd, s, Spoilt)
    BY Zenon DEF DInv, Picture, Pass
  <1>1. /\ lcd' = Updated(r, redraw)
        /\ drawn' = [s \in Slots |-> DrawnNow(s, ValueNow(s, r, redraw))]
    BY Zenon DEF Pass
  <1>2. ReadySlots(r, redraw, more)
    BY <1>0, LabelsReady, Zenon
  <1>3. GearGood(lcd, screen.gear, more) /\ \A s \in Slots : OldSlot(lcd, s, more)
    <2>1. Spoilt \in BOOLEAN /\ more \in BOOLEAN /\ (Spoilt => more)
      BY <1>0, DisplacementKept, Zenon DEF Spoilt
    <2> HIDE DEF more
    <2> QED
      BY <1>0, <2>1, SpoiltMore, Zenon
  <1>4. /\ screen'.gear = shown /\ GearNow(r, redraw).number # Blank
        /\ \A s \in Slots :
             LET h == HeaderNow(s, r, redraw)
                 v == ValueNow(s, r, redraw)
             IN  /\ screen'.header[s] = h.text
                 /\ screen'.value[s] = ShowsNow(v, screen.value[s])
                 /\ value'[s].placed = v.placed
    BY <1>0, LabelsAfter
  <1>5. Stage(lcd', 6, r, redraw, shown, more)
    <2>1. more \in BOOLEAN
      BY DEF Spoilt
    <2>2. Stage(Updated(r, redraw), 6, r, redraw, shown, more)
      <3> HIDE DEF r, redraw, more
      <3> QED
        BY <1>0, <1>2, <1>3, <1>4, <2>1, UpdateDraws, Zenon
    <2> QED
      BY <1>1, <2>2, Zenon
  <1>6. /\ LcdOK(lcd') /\ GearGood(lcd', screen'.gear, more)
        /\ \A s \in Slots : NewSlot(lcd', s, r, redraw, more)
    <2>1. \A s \in Slots : s <= 6
      BY DEF Slots
    <2> HIDE DEF r, redraw, more, shown
    <2> QED
      BY <1>4, <1>5, <2>1, Zenon DEF Stage
  <1>7. ASSUME NEW s \in Slots
        PROVE  SlotGood(lcd', s, screen'.header[s], screen'.value[s], drawn'[s], value'[s].placed, more)
    <2> DEFINE h == HeaderNow(s, r, redraw)
               v == ValueNow(s, r, redraw)
    <2>1. SlotGood(lcd', s, h.text, ShowsNow(v, screen.value[s]),
                   TextNow(s, v, DigitsNow(s, v), drawn[s]), v.placed, more)
      BY <1>6, Zenon DEF NewSlot
    <2>2. drawn'[s] = TextNow(s, v, DigitsNow(s, v), drawn[s])
      <3>1. drawn'[s] = DrawnNow(s, v)
        BY <1>1
      <3> QED
        BY <3>1, Zenon DEF DrawnNow, TextNow
    <2>3. /\ screen'.header[s] = h.text
          /\ screen'.value[s] = ShowsNow(v, screen.value[s])
          /\ value'[s].placed = v.placed
      BY <1>4, Zenon
    <2> HIDE DEF h, v, more
    <2> QED
      BY <2>1, <2>2, <2>3, Zenon
  <1> QED
    BY <1>6, <1>7, Zenon DEF Picture, OldSlot

\* Before the first update no label has drawn anything.
LEMMA EmptyFits == \A s \in Slots : Fit(2 * s + 1, <<>>)
  <1> SUFFICES ASSUME NEW s \in Slots PROVE Fit(2 * s + 1, <<>>)
    OBVIOUS
  <1> DEFINE l == 2 * s + 1
             x == Column(l)
             y == Last(l)
  <1>1. l \in Labels /\ l \notin {2, 6}
    BY DEF Labels, Slots
  <1>2. x \in Nat /\ x <= y + 1
    <2>1. x \in {0, 28, 64, 80} /\ y \in {63, 79, 127} /\ x <= y
      BY <1>1, PlaceRanges, Zenon
    <2> HIDE DEF x, y
    <2> QED
      BY <2>1
  <1> HIDE DEF l, x, y
  <1>3. <<>> \in Seq(Inked) /\ <<>> \in Seq(Widths) /\ Len(<<>>) + 1 = 1 /\ Glyphs(<<>>) = {}
    BY DEF Glyphs
  <1>4. Layout(x, <<>>, IsLarge(l)).end = x
    <2>1. IsStarts(Starts(x, <<>>, IsLarge(l)), x, <<>>, IsLarge(l))
      BY <1>2, <1>3, StartsInOrder, Zenon
    <2>2. Starts(x, <<>>, IsLarge(l))[1] = x
      BY <2>1, Zenon DEF IsStarts
    <2>3. Layout(x, <<>>, IsLarge(l)).end = Starts(x, <<>>, IsLarge(l))[Len(<<>>) + 1]
      BY LayoutEnd, Zenon
    <2> QED
      BY <1>3, <2>2, <2>3, Zenon
  <1>5. EndsOf(x, <<>>, IsLarge(l)) = {}
    BY <1>3 DEF EndsOf
  <1>6. Layout(x, <<>>, IsLarge(l)).end <= y + 1
    BY <1>2, <1>4, Zenon
  <1>7. 64 \notin EndsOf(x, <<>>, IsLarge(l))
    BY <1>5
  <1>8. Fit(l, <<>>)
    BY <1>1, <1>3, <1>6, <1>7, Zenon DEF Fit, x, y
  <1> QED
    BY <1>8 DEF l

\* LCDinit and ks0108_clear.
LEMMA CleanedPicture == DisplayInit => DInv
  <1> SUFFICES ASSUME DisplayInit PROVE DInv
    OBVIOUS
  <1>0. Init
    BY DEF DisplayInit
  <1>1. /\ lcd = Cleaned /\ drawn = [s \in Slots |-> <<>>]
        /\ \A s \in Slots : value[s].placed /\ screen.header[s] = TYPE_NULL
        /\ screen.gear = Blank /\ lcdtypes = InitialTypes
    BY DEF DisplayInit, Init
  <1>2. IInv
    BY <1>0, InitUntouched
  <1>3. ~Spoilt
    BY <1>1, Zenon DEF Spoilt
  <1>4. Displacement
    <2>1. RowsOK(lcdtypes) /\ lcdtypes \in [Places -> Entries]
      BY <1>2 DEF IInv, TypeOK
    <2>2. lcdtypes[3] = TYPE_POS
      BY <1>1 DEF InitialTypes, Places
    <2>3. ASSUME NEW s \in Slots PROVE lcdtypes[s] # TYPE_FUEL_NEED
      BY <2>1, <2>2, HeadersFit
    <2> QED
      BY <2>2, <2>3 DEF Displacement
  <1>5. LcdOK(lcd) /\ \A l \in Labels : lcd.width[l] = 0
    BY <1>1 DEF LcdOK, Cleaned, Labels, Pages
  <1>6. \A p \in Pages, c \in Columns : lcd.ram[p][c] = Empty
    BY <1>1 DEF Cleaned
  <1>7. GearGood(lcd, screen.gear, Spoilt)
    <2>1. \A p \in 0 .. 5, c \in 0 .. 27 : p \in Pages /\ c \in Columns
      BY DEF Pages, Columns
    <2> QED
      BY <1>1, <1>6, <2>1, Zenon DEF GearGood
  <1>8. ASSUME NEW l \in Labels, NEW mark
        PROVE  Good(lcd, l, mark, <<>>, Spoilt)
    <2>1. Layout(Column(l), <<>>, IsLarge(l)).body = {}
      BY DEF Layout, Glyphs
    <2>2. \A p \in PagesOf(l), c \in Place(l) : p \in Pages /\ c \in Columns
      BY PagesOfLabels, PlaceColumns, Zenon
    <2> QED
      BY <1>6, <2>1, <2>2, Zenon DEF Good
  <1>9. ASSUME NEW l \in Labels, Fit(l, <<>>)
        PROVE  Saved(lcd, l, <<>>)
    <2> DEFINE x == Column(l)
    <2>1. x \in {0, 28, 64, 80}
      BY PlaceRanges
    <2> HIDE DEF x
    <2>2. x \in Nat /\ <<>> \in Seq(Widths) /\ Len(<<>>) = 0
      BY <2>1
    <2>3. IsStarts(Starts(x, <<>>, IsLarge(l)), x, <<>>, IsLarge(l))
      BY <2>2, StartsInOrder, Zenon
    <2>4. Layout(x, <<>>, IsLarge(l)).end = x
      <3>1. Starts(x, <<>>, IsLarge(l))[1] = x
        BY <2>3, Zenon DEF IsStarts
      <3>2. Layout(x, <<>>, IsLarge(l)).end = Starts(x, <<>>, IsLarge(l))[Len(<<>>) + 1]
        BY LayoutEnd, Zenon
      <3>3. Len(<<>>) + 1 = 1
        OBVIOUS
      <3> QED
        BY <3>1, <3>2, <3>3, Zenon
    <2>5. x - x = 0
      BY <2>2
    <2> QED
      BY <1>5, <1>9, <2>4, <2>5, Zenon DEF Saved, x
  <1>10. HeaderText(TYPE_NULL) = <<>>
    BY HeaderTexts
  <1>11. ASSUME NEW s \in Slots
         PROVE  OldSlot(lcd, s, Spoilt)
    <2>1. 2 * s \in Labels /\ 2 * s + 1 \in Labels
      BY Places14, Zenon
    <2>2. Fit(2 * s, <<>>)
      BY <1>10, FitHeader, Zenon
    <2>3. Fit(2 * s + 1, <<>>)
      BY EmptyFits, Zenon
    <2>4. drawn[s] = <<>> /\ screen.header[s] = TYPE_NULL /\ value[s].placed
      BY <1>1
    <2>5. HeaderGood(lcd, s, screen.header[s], Spoilt)
      BY <1>8, <1>9, <1>10, <2>1, <2>2, <2>4, Zenon DEF HeaderGood
    <2>6. ValueGood(lcd, s, screen.value[s], drawn[s], value[s].placed, Spoilt)
      BY <1>8, <1>9, <2>1, <2>3, <2>4, Zenon DEF ValueGood
    <2> QED
      BY <2>5, <2>6, Zenon DEF OldSlot, SlotGood
  <1> QED
    BY <1>2, <1>4, <1>5, <1>7, <1>11, Zenon DEF DInv, Picture

----------------------------------------------------------------------------
\* A step that draws nothing leaves the picture.
LEMMA PictureKept ==
  ASSUME Displacement, Picture, UNCHANGED <<lcd, digits, drawn>>,
         lcdtypes' = lcdtypes, value' = value, screen' = screen
  PROVE  Displacement' /\ Picture'
  <1>1. lcd' = lcd /\ drawn' = drawn
    OBVIOUS
  <1>2. Displacement'
    BY Zenon DEF Displacement
  <1>3. Spoilt' = Spoilt
    BY DEF Spoilt
  <1>4. \A s \in Slots : OldSlot(lcd, s, Spoilt)'
    <2> SUFFICES ASSUME NEW s \in Slots PROVE OldSlot(lcd, s, Spoilt)'
      OBVIOUS
    <2>1. SlotGood(lcd, s, screen.header[s], screen.value[s], drawn[s], value[s].placed, Spoilt)
      BY Zenon DEF Picture, OldSlot
    <2>2. SlotGood(lcd', s, screen'.header[s], screen'.value[s], drawn'[s], value'[s].placed, Spoilt')
      BY <1>1, <1>3, <2>1, Zenon
    <2> QED
      BY <2>2, Zenon DEF OldSlot
  <1>5. LcdOK(lcd') /\ GearGood(lcd', screen'.gear, Spoilt')
    BY <1>1, <1>3, Zenon DEF Picture
  <1> QED
    BY <1>2, <1>4, <1>5, Zenon DEF Picture

\* Every step of the display is a step of the panel, or none.
LEMMA PanelSteps == ASSUME [DisplayNext]_displayVars PROVE [Next]_vars
  <1>1. CASE HostWrites
    <2>1. PICK w \in Writes : Fits(w[1], w[2]) /\ ControlRequest(w[1], w[2])
      BY <1>1, Zenon DEF HostWrites
    <2>2. w[1] \in HostEntries /\ w[2] \in Words
      BY WritesAssumption
    <2> QED
      BY <2>1, <2>2, Zenon DEF Next
  <1>2. CASE \E change \in Changes : Pass(change)
    BY <1>2, Zenon DEF Pass, Next
  <1>3. CASE UNCHANGED displayVars
    BY <1>3, Zenon DEF displayVars, panelVars
  <1> QED
    BY <1>1, <1>2, <1>3, Zenon DEF DisplayNext

\* The invariant is inductive.
LEMMA DInvKept == ASSUME DInv, [DisplayNext]_displayVars PROVE DInv'
  <1>0. IInv /\ Displacement /\ Picture
    BY Zenon DEF DInv
  <1>1. CASE HostWrites
    <2>1. PICK w \in Writes : Fits(w[1], w[2]) /\ ControlRequest(w[1], w[2])
      BY <1>1, Zenon DEF HostWrites
    <2>2. w[1] \in HostEntries /\ w[2] \in Words
      BY WritesAssumption
    <2>3. IInv'
      BY <1>0, <2>1, <2>2, ControlRequestKeeps, Zenon
    <2>4. lcdtypes' = lcdtypes /\ value' = value /\ screen' = screen /\ UNCHANGED <<lcd, digits, drawn>>
      BY <1>1, <2>1 DEF ControlRequest, labelVars, HostWrites
    <2> QED
      BY <1>0, <2>3, <2>4, PictureKept, Zenon DEF DInv
  <1>2. ASSUME NEW change \in Changes, Pass(change)
        PROVE  DInv'
    <2>0. MainLoop(change)
      BY <1>2, Zenon DEF Pass
    <2>1. IInv'
      BY <1>0, <2>0, MainLoopKeeps, Zenon
    <2>2. CASE change # {} \/ updatePending
      BY <1>0, <1>2, <2>0, <2>1, <2>2, DisplacementKept, PictureAfter, Zenon DEF DInv
    <2>3. CASE ~(change # {} \/ updatePending)
      <3>1. UNCHANGED vars
        BY <1>0, <2>0, <2>3, IdlePass
      <3>2. UNCHANGED <<lcd, digits, drawn>>
        BY <1>2, <2>3, Zenon DEF Pass
      <3>3. lcdtypes' = lcdtypes /\ value' = value /\ screen' = screen
        BY <3>1 DEF vars, labelVars
      <3> QED
        BY <1>0, <2>1, <3>2, <3>3, PictureKept, Zenon DEF DInv
    <2> QED
      BY <2>2, <2>3
  <1>3. CASE UNCHANGED displayVars
    <2>1. UNCHANGED vars /\ UNCHANGED <<lcd, digits, drawn>>
      BY <1>3 DEF displayVars, panelVars
    <2>2. lcdtypes' = lcdtypes /\ value' = value /\ screen' = screen
      BY <2>1 DEF vars, labelVars
    <2>3. IInv'
      BY <1>0, <2>1 DEF vars, labelVars, IInv, TypeOK, Untouched, UpToDate, FromHost,
                       ReadingsMatch, OutputsMatch, OnlySecondRowMoves
    <2> QED
      BY <1>0, <2>1, <2>2, <2>3, PictureKept, Zenon DEF DInv
  <1> QED
    BY <1>1, <1>2, <1>3, Zenon DEF DisplayNext

\* What the display shows is what its labels have drawn, outside of what is exempt, at
\* every moment and for everything the host writes (wheel-display.c:83-92, 348-406;
\* lcd.c:17-313; ks0108.c).
THEOREM DisplayInvariance == DisplaySpec => []DInv
  BY CleanedPicture, DInvKept, PTL DEF DisplaySpec

\* The display does with the labels what the panel does: Panel's invariants hold of it,
\* and Dashboard describes it (wheel-display.c:83-92, 348-406).
THEOREM DisplayIsPanel == DisplaySpec => Init /\ [][Next]_vars
  <1>1. DisplayInit => Init
    BY DEF DisplayInit
  <1> QED
    BY <1>1, PanelSteps, PTL DEF DisplaySpec
----------------------------------------------------------------------------
LEMMA LabelsOnPages == \A p : LabelsOn(p) = {l \in Labels : p \in PagesOf(l)}
  BY Zenon DEF LabelsOn, PagesOf

\* Outside the gear's corner every column of a page is in a label's place.
LEMMA Covered ==
  ASSUME NEW p \in Pages, NEW c \in Columns, ~(p <= 5 /\ c <= 27)
  PROVE  \E l \in Labels : p \in PagesOf(l) /\ c \in Place(l)
  <1>1. CASE p <= 5
    <2>1. /\ p = 0 => p \in PagesOf(2) /\ p \in PagesOf(4)
          /\ p \in {1, 2} => p \in PagesOf(3) /\ p \in PagesOf(5)
          /\ p = 3 => p \in PagesOf(6) /\ p \in PagesOf(8)
          /\ p \in {4, 5} => p \in PagesOf(7) /\ p \in PagesOf(9)
      BY PageTable
    <2>2. \E l, m \in Labels : p \in PagesOf(l) /\ p \in PagesOf(m) /\ l \in LeftLabels /\ m \notin LeftLabels
      BY <1>1, <2>1 DEF Pages, Labels, LeftLabels
    <2>3. PICK l \in Labels, m \in Labels :
            p \in PagesOf(l) /\ p \in PagesOf(m) /\ l \in LeftLabels /\ m \notin LeftLabels
      BY <2>2, Zenon
    <2>4. Place(l) = 28 .. 79 /\ Place(m) = 80 .. 127
      BY <1>1, <2>3, Neighbours, ZenonT(40)
    <2>5. c \in 28 .. 79 \/ c \in 80 .. 127
      BY <1>1 DEF Columns
    <2> QED
      BY <2>3, <2>4, <2>5, ZenonT(40)
  <1>2. CASE ~(p <= 5)
    <2>1. /\ p = 6 => p \in PagesOf(10) /\ p \in PagesOf(12)
          /\ p = 7 => p \in PagesOf(11) /\ p \in PagesOf(13)
      BY PageTable
    <2>2. \E l, m \in Labels : p \in PagesOf(l) /\ p \in PagesOf(m) /\ l \in LeftLabels /\ m \notin LeftLabels
      BY <1>2, <2>1 DEF Pages, Labels, LeftLabels
    <2>3. PICK l \in Labels, m \in Labels :
            p \in PagesOf(l) /\ p \in PagesOf(m) /\ l \in LeftLabels /\ m \notin LeftLabels
      BY <2>2, Zenon
    <2>4. Place(l) = 0 .. 63 /\ Place(m) = 64 .. 127
      BY <1>2, <2>3, Neighbours, ZenonT(40)
    <2>5. c \in 0 .. 63 \/ c \in 64 .. 127
      BY DEF Columns
    <2> QED
      BY <2>3, <2>4, <2>5, ZenonT(40)
  <1> QED
    BY <1>1, <1>2

----------------------------------------------------------------------------
\* What the picture says of one label: on its place there is its text, and the text is within it.
LabelGood(l) ==
  /\ \A p \in PagesOf(l) : \A c \in Place(l) :
       \/ Exempt(p, c, Spoilt)
       \/ lcd.ram[p][c] = IF c \in Body(l) THEN Mark(l, Shown(l)) ELSE Empty
  /\ Body(l) \subseteq Place(l) \/ (Spoilt /\ PagesOf(l) = {3})

\* A text that fits is within its place.
LEMMA FitsIn == ASSUME NEW l \in Labels, NEW text, Fit(l, text)
                PROVE  Layout(Column(l), text, IsLarge(l)).body \subseteq Place(l)
  <1> DEFINE x    == Column(l)
             b    == IsLarge(l)
             last == Last(l)
             e    == Layout(x, text, b).end
             body == Layout(x, text, b).body
             ends == EndsOf(x, text, b)
  <1>1. Shaped(x, text, b) /\ e <= last + 1
    BY FitIsShaped, Zenon DEF Settled
  <1>2. e \in x .. 128 /\ \A c \in Int : c \in body \/ c \in ends <=> c \in x .. e - 1
    BY <1>1, Zenon DEF Shaped
  <1>3. x \in {0, 28, 64, 80} /\ last \in {63, 79, 127}
    BY PlaceRanges, ZenonT(40)
  <1>4. ASSUME NEW c \in body PROVE c \in Int
    <2>1. PICK i \in Glyphs(text) : c \in GlyphBody(Starts(x, text, b)[i], text[i])
      BY Zenon DEF Layout
    <2> QED
      BY <2>1 DEF GlyphBody
  <1> HIDE DEF x, b, last, e, body, ends
  <1>5. ASSUME NEW c \in body PROVE c \in x .. last
    BY <1>1, <1>2, <1>3, <1>4
  <1> QED
    BY <1>5, Zenon DEF Place, x, last, body, b

LEMMA LabelOfSlot ==
  ASSUME NEW l \in Labels
  PROVE  /\ SlotOf(l) \in Slots
         /\ IsHeader(l) => l = 2 * SlotOf(l) /\ IsLarge(l) = FALSE
         /\ ~IsHeader(l) => l = 2 * SlotOf(l) + 1
  BY DEF Labels, SlotOf, IsHeader, IsLarge, Slots

LEMMA SecondRowPage == \A s \in {3, 4} : PagesOf(2 * s) = {3}
  BY PageTable

\* The picture, label by label.
LEMMA LabelsGood == ASSUME Picture, NEW l \in Labels PROVE LabelGood(l)
  <1> DEFINE s == SlotOf(l)
  <1>0. /\ s \in Slots
        /\ IsHeader(l) => l = 2 * s /\ IsLarge(l) = FALSE
        /\ ~IsHeader(l) => l = 2 * s + 1
    BY LabelOfSlot
  <1>1. /\ HeaderGood(lcd, s, screen.header[s], Spoilt)
        /\ ValueGood(lcd, s, screen.value[s], drawn[s], value[s].placed, Spoilt)
    BY <1>0, Zenon DEF Picture, OldSlot, SlotGood
  <1>2. CASE IsHeader(l)
    <2> DEFINE h == screen.header[s]
    <2>1. Body(l) = Layout(Column(l), HeaderText(h), IsLarge(l)).body /\ Shown(l) = h
      BY <1>0, <1>2, Zenon DEF Body, Shown
    <2>2. Good(lcd, l, Mark(l, h), HeaderText(h), Spoilt)
      <3>1. l = 2 * s
        BY <1>0, <1>2
      <3> HIDE DEF s
      <3> QED
        BY <1>1, <3>1, Zenon DEF HeaderGood
    <2>3. Fit(l, HeaderText(h)) \/ (Spoilt /\ PagesOf(l) = {3})
      <3>1. l = 2 * s
        BY <1>0, <1>2
      <3> HIDE DEF s
      <3> QED
        BY <1>1, <3>1, SecondRowPage, Zenon DEF HeaderGood, Saved
    <2> HIDE DEF h, s
    <2> QED
      BY <2>1, <2>2, <2>3, FitsIn, Zenon DEF LabelGood, Good
  <1>3. CASE ~IsHeader(l)
    <2>1. Body(l) = Layout(Column(l), drawn[s], IsLarge(l)).body /\ Shown(l) = screen.value[s]
      BY <1>3, Zenon DEF Body, Shown
    <2>2. Good(lcd, l, Mark(l, screen.value[s]), drawn[s], Spoilt) /\ Fit(l, drawn[s])
      <3>1. l = 2 * s + 1
        BY <1>0, <1>3
      <3> HIDE DEF s
      <3> QED
        BY <1>1, <3>1, Zenon DEF ValueGood
    <2> HIDE DEF s
    <2> QED
      BY <2>1, <2>2, FitsIn, ZenonT(40) DEF LabelGood, Good
  <1> QED
    BY <1>2, <1>3

LEMMA MarksAreInk == \A l, content : Mark(l, content) # Empty
  BY DEF Mark, Empty

\* A column of page p is due with a mark if the text of a label there or the gear covers it.
LEMMA DueIs ==
  \A p, c, m :
    <<c, m>> \in Due(p) <=>
      \/ \E l \in Labels : p \in PagesOf(l) /\ c \in Body(l) /\ m = Mark(l, Shown(l))
      \/ p \in GearPages /\ screen.gear # Blank /\ c \in GearColumns /\ m = GearMark(screen.gear)
  <1> SUFFICES ASSUME NEW p, NEW c, NEW m
               PROVE  <<c, m>> \in Due(p) <=>
                        \/ \E l \in Labels : p \in PagesOf(l) /\ c \in Body(l) /\ m = Mark(l, Shown(l))
                        \/ p \in GearPages /\ screen.gear # Blank /\ c \in GearColumns /\ m = GearMark(screen.gear)
    OBVIOUS
  <1> DEFINE T == UNION {Body(l) \X {Mark(l, Shown(l))} : l \in LabelsOn(p)}
             G == IF p \in GearPages /\ screen.gear # Blank
                  THEN GearColumns \X {GearMark(screen.gear)} ELSE {}
  <1>1. <<c, m>> \in T <=> \E l \in LabelsOn(p) : <<c, m>> \in Body(l) \X {Mark(l, Shown(l))}
    BY Zenon
  <1>2. \A S, k : <<c, m>> \in S \X {k} <=> c \in S /\ m = k
    OBVIOUS
  <1>3. <<c, m>> \in T <=> \E l \in Labels : p \in PagesOf(l) /\ c \in Body(l) /\ m = Mark(l, Shown(l))
    BY <1>1, <1>2, LabelsOnPages
  <1>4. <<c, m>> \in G <=> p \in GearPages /\ screen.gear # Blank /\ c \in GearColumns /\ m = GearMark(screen.gear)
    <2> HIDE DEF T
    <2> QED
      BY <1>2
  <1>5. Due(p) = T \union G
    BY Zenon DEF Due
  <1> HIDE DEF T, G
  <1> QED
    BY <1>3, <1>4, <1>5, Zenon

\* What a page does show.
LEMMA LitIs == \A p, c, m : <<c, m>> \in Lit(p) <=> c \in Columns /\ m = lcd.ram[p][c] /\ m # Empty
  <1> SUFFICES ASSUME NEW p, NEW c, NEW m
               PROVE  <<c, m>> \in Lit(p) <=> c \in Columns /\ m = lcd.ram[p][c] /\ m # Empty
    OBVIOUS
  <1>1. <<c, m>> \in Lit(p) <=> \E d \in Columns : lcd.ram[p][d] # Empty /\ <<c, m>> = <<d, lcd.ram[p][d]>>
    BY Zenon DEF Lit
  <1> QED
    BY <1>1

----------------------------------------------------------------------------
LEMMA Pairs == \A p : \A e \in Due(p) \union Lit(p) : e = <<e[1], e[2]>>
  <1>1. \A p : \A e \in Lit(p) : e = <<e[1], e[2]>>
    BY DEF Lit
  <1>2. ASSUME NEW p, NEW e \in Due(p)
        PROVE  e = <<e[1], e[2]>>
    <2>1. \A S, T : \A f \in S \X T : f = <<f[1], f[2]>>
      OBVIOUS
    <2>2. \/ \E l \in LabelsOn(p) : e \in Body(l) \X {Mark(l, Shown(l))}
          \/ e \in GearColumns \X {GearMark(screen.gear)}
      BY <1>2, Zenon DEF Due
    <2> QED
      BY <2>1, <2>2, Zenon
  <1> QED
    BY <1>1, <1>2, Zenon

\* Where the display shows something else, that is accounted for.
LEMMA BlemishesAreExempt ==
  ASSUME Picture, NEW p \in Pages, NEW c \in Blemishes(p)
  PROVE  Exempt(p, c, Spoilt)
  <1> SUFFICES ASSUME ~Exempt(p, c, Spoilt) PROVE FALSE
    OBVIOUS
  <1>1. PICK m : <<c, m>> \in (Due(p) \ Lit(p)) \union (Lit(p) \ Due(p))
    <2>1. PICK e \in (Due(p) \ Lit(p)) \union (Lit(p) \ Due(p)) : c = e[1]
      BY Zenon DEF Blemishes
    <2>2. e = <<e[1], e[2]>>
      BY Pairs, Zenon
    <2> QED
      BY <2>1, <2>2, Zenon
  <1>2. GearGood(lcd, screen.gear, Spoilt)
    BY Zenon DEF Picture
  <1>3. CASE <<c, m>> \in Due(p) /\ <<c, m>> \notin Lit(p)
    <2>1. CASE \E l \in Labels : p \in PagesOf(l) /\ c \in Body(l) /\ m = Mark(l, Shown(l))
      <3>1. PICK l \in Labels : p \in PagesOf(l) /\ c \in Body(l) /\ m = Mark(l, Shown(l))
        BY <2>1, Zenon
      <3>2. LabelGood(l)
        BY LabelsGood, Zenon
      <3>3. c \in Place(l)
        <4> SUFFICES ASSUME Spoilt /\ PagesOf(l) = {3} PROVE FALSE
          BY <3>1, <3>2, Zenon DEF LabelGood
        <4>1. p = 3
          BY <3>1
        <4> QED
          BY <4>1, Zenon DEF Exempt
      <3>4. lcd.ram[p][c] = m
        BY <3>1, <3>2, <3>3, Zenon DEF LabelGood
      <3>5. c \in Columns
        BY <3>3, PlaceColumns, Zenon
      <3> QED
        BY <1>3, <3>1, <3>4, <3>5, LitIs, MarksAreInk, Zenon
    <2>2. CASE p \in GearPages /\ screen.gear # Blank /\ c \in GearColumns /\ m = GearMark(screen.gear)
      <3>1. p \in 0 .. 5 /\ c \in 0 .. 27 /\ c \in Columns
        BY <2>2 DEF GearPages, GearColumns, Columns
      <3>2. lcd.ram[p][c] = m
        BY <1>2, <2>2, <3>1, Zenon DEF GearGood
      <3>3. m # Empty
        BY <2>2, MarksAreInk, Zenon DEF GearMark
      <3>4. c \in Columns
        BY <3>1
      <3> QED
        BY <1>3, <3>2, <3>3, <3>4, LitIs, Zenon
    <2>3. \/ \E l \in Labels : p \in PagesOf(l) /\ c \in Body(l) /\ m = Mark(l, Shown(l))
          \/ p \in GearPages /\ screen.gear # Blank /\ c \in GearColumns /\ m = GearMark(screen.gear)
      BY <1>3, DueIs
    <2> QED
      BY <2>1, <2>2, <2>3
  <1>4. CASE <<c, m>> \in Lit(p) /\ <<c, m>> \notin Due(p)
    <2>1. c \in Columns /\ m = lcd.ram[p][c] /\ m # Empty
      BY <1>4, LitIs, Zenon
    <2>2. CASE p <= 5 /\ c <= 27
      <3>1. p \in 0 .. 5 /\ c \in 0 .. 27
        BY <2>1, <2>2 DEF Pages, Columns
      <3>2. p \in GearPages /\ screen.gear # Blank /\ c \in GearColumns /\ m = GearMark(screen.gear)
        BY <1>2, <2>1, <3>1, Zenon DEF GearGood
      <3> QED
        BY <1>4, <3>2, DueIs, Zenon
    <2>3. CASE ~(p <= 5 /\ c <= 27)
      <3>1. PICK l \in Labels : p \in PagesOf(l) /\ c \in Place(l)
        BY <2>1, <2>3, Covered, Zenon
      <3>2. LabelGood(l)
        BY LabelsGood, Zenon
      <3>3. c \in Body(l) /\ m = Mark(l, Shown(l))
        BY <2>1, <3>1, <3>2, Zenon DEF LabelGood
      <3> QED
        BY <1>4, <3>1, <3>3, DueIs, Zenon
    <2> QED
      BY <2>2, <2>3
  <1> QED
    BY <1>1, <1>3, <1>4, Zenon

\* Until the second button is pressed the display shows what its labels have drawn and
\* nothing else, whatever words the host writes and in whatever order labels are redrawn:
\* no text runs into another or leaves something of a longer one behind, but for the
\* gear's first column in the lines of the two rows' headers (lcd.c:154-313,
\* ks0108.c:129-155).
THEOREM TextsStayApart == DisplaySpec => []CleanUntilDisplaced
  <1>1. DInv => CleanUntilDisplaced
    <2> SUFFICES ASSUME DInv, \A s \in Slots : value[s].placed, NEW p \in Pages, NEW c \in Blemishes(p)
                 PROVE  GearHit(p, c)
      BY Zenon DEF CleanUntilDisplaced
    <2>1. ~Spoilt
      BY Zenon DEF Spoilt
    <2>2. Exempt(p, c, Spoilt)
      BY BlemishesAreExempt, Zenon DEF DInv
    <2> QED
      BY <2>1, <2>2, Zenon DEF Exempt
  <1> QED
    BY <1>1, DisplayInvariance, PTL

\* Whatever a displaced value is drawn over, the gear, the left values and the headers of
\* the first and third row stay readable: the damage is in the line of the second row's
\* headers and in the last columns (lcd.c:163-190, 275-277).
THEOREM DamageStaysConfined == DisplaySpec => []DamageConfined
  <1>1. DInv => DamageConfined
    <2> SUFFICES ASSUME DInv, NEW p \in Pages, NEW c \in Blemishes(p)
                 PROVE  GearHit(p, c) \/ p = 3 \/ c >= LetterA
      BY Zenon DEF DamageConfined
    <2>1. Exempt(p, c, Spoilt)
      BY BlemishesAreExempt, Zenon DEF DInv
    <2> QED
      BY <2>1, Zenon DEF Exempt
  <1> QED
    BY <1>1, DisplayInvariance, PTL
=============================================================================
