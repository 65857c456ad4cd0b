---------------------------- MODULE PanelProofs ----------------------------
(***************************************************************************)
(* Proofs about Panel, for every set of words, entries and button changes. *)
(* IInv is shown to be inductive; the type invariant, the safety           *)
(* invariants and the implementation of Dashboard follow from it.          *)
(***************************************************************************)
EXTENDS Panel, TLAPS

----------------------------------------------------------------------------
(***************************************************************************)
(* Types as sets of bits.                                                  *)
(***************************************************************************)

\* The types of the rotating rows are seven different numbers.
LEMMA RowTypesDiffer ==
  /\ TYPE_SPEED \notin {TYPE_FUEL, TYPE_FUEL_NEED, TYPE_LAP, TYPE_LAPS_REM, TYPE_POS, TYPE_RPM, TYPE_NULL}
  /\ TYPE_FUEL \notin {TYPE_FUEL_NEED, TYPE_LAP, TYPE_LAPS_REM, TYPE_POS, TYPE_RPM, TYPE_NULL}
  /\ TYPE_FUEL_NEED \notin {TYPE_LAP, TYPE_LAPS_REM, TYPE_POS, TYPE_RPM, TYPE_NULL}
  /\ TYPE_LAP \notin {TYPE_LAPS_REM, TYPE_POS, TYPE_RPM, TYPE_NULL}
  /\ TYPE_LAPS_REM \notin {TYPE_POS, TYPE_RPM, TYPE_NULL}
  /\ TYPE_POS \notin {TYPE_RPM, TYPE_NULL}
  /\ TYPE_RPM # TYPE_NULL
  BY DEF TYPE_SPEED, TYPE_FUEL, TYPE_FUEL_NEED, TYPE_LAP, TYPE_LAPS_REM, TYPE_POS,
         TYPE_RPM, TYPE_NULL

\* Only the two time types have bit 4, and they differ.
LEMMA TimeTypesDiffer ==
  /\ \A t \in IntTypes : ~IsTime(t)
  /\ \A t \in TimeTypes : IsTime(t)
  /\ TYPE_LAPTIME # TYPE_DELTA
  /\ TYPE_NULL \notin TimeTypes
  BY DEF Entries, IntTypes, TimeTypes, IsTime, TYPE_SPEED, TYPE_FUEL, TYPE_FUEL_NEED, TYPE_LAP, TYPE_LAPS_REM, TYPE_POS,
         TYPE_RPM, TYPE_NULL, TYPE_LAPTIME, TYPE_DELTA

\* What ORing one type of a row over another gives: the top row fills the three
\* low bits, and what an overrun leaves contains every type of a row.
LEMMA Unions ==
  /\ \A t \in IntTypes : TYPE_RPM \union t = TYPE_RPM /\ t \union TYPE_RPM = TYPE_RPM
  /\ \A t \in Entries : TYPE_NULL \union t = t /\ t \union t = t
  /\ TYPE_POS \union TYPE_SPEED = TYPE_RPM
  /\ TYPE_LAP \union TYPE_LAPS_REM = TYPE_LAPS_REM
  /\ \A t \in IntTypes : Overrun \union t = Overrun
  /\ Overrun \notin IntTypes /\ Overrun # TYPE_NULL
  BY DEF Overrun, Entries, IntTypes, TimeTypes, TYPE_SPEED, TYPE_FUEL, TYPE_FUEL_NEED, TYPE_LAP,
         TYPE_LAPS_REM, TYPE_POS, TYPE_RPM, TYPE_NULL, TYPE_LAPTIME, TYPE_DELTA, TYPE_GEAR

\* Every type is a five-bit number.
LEMMA TypesAreBits == \A t \in Entries : t \subseteq TypeBits
  BY DEF Entries, IntTypes, TimeTypes, TypeBits, TYPE_SPEED, TYPE_FUEL, TYPE_FUEL_NEED, TYPE_LAP, TYPE_LAPS_REM, TYPE_POS,
         TYPE_RPM, TYPE_NULL, TYPE_LAPTIME, TYPE_DELTA, TYPE_GEAR, TYPE_SHIFTLEDS,
         TYPE_BACKLIGHT


\* The macros of lcd.h on a meta byte: the redraw flag and the type do not
\* touch each other, and SET_TYPE ORs.
LEMMA MetaMacros ==
  ASSUME NEW m \in Meta, NEW t \in Entries
  PROVE  /\ SET_TYPE(m, t) \in Meta
         /\ SET_REDRAW(m) \in Meta
         /\ RESET_REDRAW(m) \in Meta
         /\ GET_REDRAW(SET_REDRAW(m))
         /\ ~GET_REDRAW(RESET_REDRAW(m))
         /\ GET_REDRAW(SET_TYPE(m, t)) <=> GET_REDRAW(m)
         /\ GET_TYPE(SET_REDRAW(m)) = GET_TYPE(m)
         /\ GET_TYPE(RESET_REDRAW(m)) = GET_TYPE(m)
         /\ GET_TYPE(SET_TYPE(m, t)) = GET_TYPE(m) \union t
  <1>1. t \subseteq TypeBits
    BY TypesAreBits
  <1>2. /\ TypeBits \subseteq 0 .. 7
        /\ REDRAW \in 0 .. 7
        /\ REDRAW \notin TypeBits
    BY DEF TypeBits, REDRAW
  <1> HIDE DEF TypeBits, REDRAW
  <1>3. SET_TYPE(m, t) \in Meta
    BY <1>1, <1>2 DEF SET_TYPE, Meta
  <1>4. SET_REDRAW(m) \in Meta
    BY <1>2 DEF SET_REDRAW, Meta
  <1>5. RESET_REDRAW(m) \in Meta
    BY DEF RESET_REDRAW, Meta
  <1>6. /\ GET_REDRAW(SET_REDRAW(m))
        /\ ~GET_REDRAW(RESET_REDRAW(m))
    BY DEF GET_REDRAW, SET_REDRAW, RESET_REDRAW
  <1>7. GET_REDRAW(SET_TYPE(m, t)) <=> GET_REDRAW(m)
    BY <1>1, <1>2 DEF GET_REDRAW, SET_TYPE
  <1>8. GET_TYPE(SET_REDRAW(m)) = GET_TYPE(m)
    BY <1>2 DEF GET_TYPE, SET_REDRAW
  <1>9. GET_TYPE(RESET_REDRAW(m)) = GET_TYPE(m)
    BY <1>2 DEF GET_TYPE, RESET_REDRAW
  <1>10. GET_TYPE(SET_TYPE(m, t)) = GET_TYPE(m) \union t
    BY <1>1 DEF GET_TYPE, SET_TYPE
  <1> QED
    BY <1>3, <1>4, <1>5, <1>6, <1>7, <1>8, <1>9, <1>10

\* The meta byte of a header that has been overrun.
LEMMA OverrunMeta ==
  /\ LetterL \in Meta /\ TYPE_FUEL_NEED \in Entries
  /\ GET_TYPE(LetterL) \union TYPE_FUEL_NEED = Overrun
  BY DEF LetterL, Meta, GET_TYPE, TypeBits, Overrun, Entries, IntTypes, TYPE_FUEL_NEED

\* The dashboard speaks of the same types, places and buttons.
LEMMA SameMessage ==
  /\ D!TYPE_NULL = TYPE_NULL
  /\ D!TYPE_SPEED = TYPE_SPEED
  /\ D!TYPE_FUEL = TYPE_FUEL
  /\ D!TYPE_FUEL_NEED = TYPE_FUEL_NEED
  /\ D!TYPE_LAP = TYPE_LAP
  /\ D!TYPE_LAPS_REM = TYPE_LAPS_REM
  /\ D!TYPE_POS = TYPE_POS
  /\ D!TYPE_RPM = TYPE_RPM
  /\ D!TYPE_SHIFTLEDS = TYPE_SHIFTLEDS
  /\ D!TYPE_BACKLIGHT = TYPE_BACKLIGHT
  /\ D!TYPE_LAPTIME = TYPE_LAPTIME
  /\ D!TYPE_DELTA = TYPE_DELTA
  /\ D!TYPE_GEAR = TYPE_GEAR
  /\ D!Places = Places
  /\ D!Slots = Slots
  /\ D!TopButton = TopButton
  /\ D!SecondButton = SecondButton
  BY DEF D!TYPE_NULL, TYPE_NULL, D!TYPE_SPEED, TYPE_SPEED, D!TYPE_FUEL, TYPE_FUEL,
         D!TYPE_FUEL_NEED, TYPE_FUEL_NEED, D!TYPE_LAP, TYPE_LAP, D!TYPE_LAPS_REM,
         TYPE_LAPS_REM, D!TYPE_POS, TYPE_POS, D!TYPE_RPM, TYPE_RPM, D!TYPE_SHIFTLEDS,
         TYPE_SHIFTLEDS, D!TYPE_BACKLIGHT, TYPE_BACKLIGHT, D!TYPE_LAPTIME,
         TYPE_LAPTIME, D!TYPE_DELTA, TYPE_DELTA, D!TYPE_GEAR, TYPE_GEAR, D!Places,
         Places, D!Slots, Slots, D!TopButton, TopButton, D!SecondButton,
         SecondButton

\* And of the same entries and initial rows.
LEMMA SameTypes == D!Entries = Entries /\ D!InitialTypes = InitialTypes
  <1>1. D!IntTypes = IntTypes /\ D!TimeTypes = TimeTypes
    BY SameMessage DEF D!IntTypes, D!TimeTypes, IntTypes, TimeTypes
  <1>2. D!Entries = Entries
    BY SameMessage, <1>1 DEF D!Entries, Entries
  <1>3. D!InitialTypes = InitialTypes
    BY SameMessage DEF D!InitialTypes, InitialTypes
  <1> QED
    BY <1>2, <1>3

----------------------------------------------------------------------------
(***************************************************************************)
(* Rotating the rows.                                                      *)
(***************************************************************************)

\* The types a slot can be set to, and the type it goes to from each.
Follows(s) ==
  CASE s = 1 -> {<<TYPE_RPM, TYPE_POS>>, <<TYPE_POS, TYPE_SPEED>>, <<TYPE_SPEED, TYPE_RPM>>}
    [] s = 2 -> {<<TYPE_SPEED, TYPE_RPM>>, <<TYPE_RPM, TYPE_POS>>, <<TYPE_POS, TYPE_SPEED>>}
    [] s = 3 -> {<<TYPE_POS, TYPE_FUEL_NEED>>, <<TYPE_FUEL_NEED, TYPE_FUEL>>,
                 <<TYPE_FUEL, TYPE_LAP>>, <<TYPE_LAP, TYPE_LAPS_REM>>,
                 <<TYPE_LAPS_REM, TYPE_FUEL_NEED>>}
    [] s = 4 -> {<<TYPE_LAP, TYPE_LAPS_REM>>, <<TYPE_LAPS_REM, TYPE_FUEL_NEED>>,
                 <<TYPE_FUEL_NEED, TYPE_FUEL>>, <<TYPE_FUEL, TYPE_LAP>>}
    [] OTHER -> {}

\* The top button keeps the top row on its tour and touches nothing else.
LEMMA RotateTopRow ==
  ASSUME NEW types \in [Places -> Entries], RowsOK(types)
  PROVE  LET r == RotateTop(types)
         IN  /\ r \in [Places -> Entries]
             /\ RowsOK(r)
             /\ <<types[1], r[1]>> \in Follows(1)
             /\ <<types[2], r[2]>> \in Follows(2)
             /\ r[1] = D!NextTop(types[1]) /\ r[2] = types[1]
             /\ \A p \in Places \ {1, 2} : r[p] = types[p]
  <1> DEFINE r == RotateTop(types)
  <1> USE RowTypesDiffer, SameMessage DEF Places, RowsOK, TopRow, Entries, IntTypes, RotateTop
  <1>1. CASE types[1] = TYPE_RPM /\ types[2] = TYPE_SPEED
    <2>1. r = [types EXCEPT ![1] = TYPE_POS, ![2] = TYPE_RPM]
      BY <1>1
    <2> QED
      BY <1>1, <2>1 DEF Follows, D!NextTop, D!NextSecond
  <1>2. CASE types[1] = TYPE_POS /\ types[2] = TYPE_RPM
    <2>1. r = [types EXCEPT ![1] = TYPE_SPEED, ![2] = TYPE_POS]
      BY <1>2
    <2> QED
      BY <1>2, <2>1 DEF Follows, D!NextTop, D!NextSecond
  <1>3. CASE types[1] = TYPE_SPEED /\ types[2] = TYPE_POS
    <2>1. r = [types EXCEPT ![1] = TYPE_RPM, ![2] = TYPE_SPEED]
      BY <1>3
    <2> QED
      BY <1>3, <2>1 DEF Follows, D!NextTop, D!NextSecond
  <1> QED
    BY <1>1, <1>2, <1>3

\* The second button keeps the second row on its tour and touches nothing else.
LEMMA RotateSecondRow ==
  ASSUME NEW types \in [Places -> Entries], RowsOK(types)
  PROVE  LET r == RotateSecond(types)
         IN  /\ r \in [Places -> Entries]
             /\ RowsOK(r)
             /\ <<types[3], r[3]>> \in Follows(3)
             /\ <<types[4], r[4]>> \in Follows(4)
             /\ r[3] = D!NextSecond(types[3])
             /\ r[4] = IF types[3] = TYPE_POS THEN TYPE_LAPS_REM ELSE types[3]
             /\ \A p \in Places \ {3, 4} : r[p] = types[p]
  <1> DEFINE r == RotateSecond(types)
  <1> USE RowTypesDiffer, SameMessage DEF Places, RowsOK, SecondRow, Entries, IntTypes, RotateSecond
  <1>1. CASE types[3] = TYPE_FUEL_NEED /\ types[4] = TYPE_LAPS_REM
    <2>1. r = [types EXCEPT ![3] = TYPE_FUEL, ![4] = TYPE_FUEL_NEED]
      BY <1>1
    <2> QED
      BY <1>1, <2>1 DEF Follows, D!NextTop, D!NextSecond
  <1>2. CASE types[3] = TYPE_FUEL /\ types[4] = TYPE_FUEL_NEED
    <2>1. r = [types EXCEPT ![3] = TYPE_LAP, ![4] = TYPE_FUEL]
      BY <1>2
    <2> QED
      BY <1>2, <2>1 DEF Follows, D!NextTop, D!NextSecond
  <1>3. CASE types[3] = TYPE_LAP /\ types[4] = TYPE_FUEL
    <2>1. r = [types EXCEPT ![3] = TYPE_LAPS_REM, ![4] = TYPE_LAP]
      BY <1>3
    <2> QED
      BY <1>3, <2>1 DEF Follows, D!NextTop, D!NextSecond
  <1>4. CASE types[3] \in {TYPE_POS, TYPE_LAPS_REM} /\ types[4] = TYPE_LAP
    <2>1. r = [types EXCEPT ![3] = TYPE_FUEL_NEED, ![4] = TYPE_LAPS_REM]
      BY <1>4
    <2> QED
      BY <1>4, <2>1 DEF Follows, D!NextTop, D!NextSecond
  <1> QED
    BY <1>1, <1>2, <1>3, <1>4

\* Whatever buttons changed, the rows stay on their tours and every slot keeps
\* its type or goes on to the type that follows.
LEMMA RotateRows ==
  ASSUME NEW types \in [Places -> Entries], RowsOK(types), NEW change
  PROVE  LET r == Rotate(types, change)
         IN  /\ r \in [Places -> Entries]
             /\ RowsOK(r)
             /\ \A s \in Slots : r[s] = types[s] \/ <<types[s], r[s]>> \in Follows(s)
  <1> DEFINE top == IF TopButton \in change THEN RotateTop(types) ELSE types
             r == Rotate(types, change)
  <1>1. /\ top \in [Places -> Entries]
        /\ RowsOK(top)
        /\ \A s \in {1, 2} : top[s] = types[s] \/ <<types[s], top[s]>> \in Follows(s)
        /\ \A p \in Places \ {1, 2} : top[p] = types[p]
    BY RotateTopRow
  <1> HIDE DEF top
  <1>2. r = IF SecondButton \in change THEN RotateSecond(top) ELSE top
    BY DEF Rotate, top
  <1>3. /\ r \in [Places -> Entries]
        /\ RowsOK(r)
        /\ \A s \in {3, 4} : r[s] = top[s] \/ <<top[s], r[s]>> \in Follows(s)
        /\ \A p \in Places \ {3, 4} : r[p] = top[p]
    BY <1>1, <1>2, RotateSecondRow
  <1> HIDE DEF r
  <1>4. \A s \in Slots : r[s] = types[s] \/ <<types[s], r[s]>> \in Follows(s)
    BY <1>1, <1>3 DEF Slots, Places
  <1> QED
    BY <1>3, <1>4 DEF r

\* The types of the slots: integers in the rotating rows, times below them.
LEMMA SlotTypes ==
  ASSUME NEW types \in [Places -> Entries], RowsOK(types), NEW s \in Slots
  PROVE  /\ s \in 1 .. 4 => types[s] \in IntTypes
         /\ s \in {5, 6} => types[s] \in TimeTypes
         /\ types[s] # TYPE_NULL
         /\ types[s] = TYPE_FUEL_NEED => s \in {3, 4}
         /\ IsTime(types[s]) <=> s \in {5, 6}
  <1>1. s \in {1, 2} => types[s] \in IntTypes
    BY DEF RowsOK, TopRow, IntTypes
  <1>2. s \in {3, 4} => types[s] \in IntTypes
    BY DEF RowsOK, SecondRow, IntTypes
  <1>3. s \in {5, 6} => types[s] \in TimeTypes
    BY DEF RowsOK, TimeTypes
  <1>4. TYPE_NULL \notin IntTypes
    BY RowTypesDiffer DEF IntTypes
  <1>5. s \in {1, 2} => types[s] # TYPE_FUEL_NEED
    BY RowTypesDiffer DEF RowsOK, TopRow
  <1>6. TYPE_FUEL_NEED \notin TimeTypes
    BY TimeTypesDiffer DEF IntTypes
  <1> QED
    BY <1>1, <1>2, <1>3, <1>4, <1>5, <1>6, TimeTypesDiffer DEF Slots

\* No header holds exactly the bits of "fuel need", so that text is always copied.
LEMMA NeverFuelNeed ==
  ASSUME NEW s \in Slots, NEW t \in Entries, s \in {5, 6} => t \in TimeTypes
  PROVE  TYPE_FUEL_NEED \notin MetaTypes(s, t)
  <1>1. TYPE_FUEL_NEED \notin TimeTypes
    BY TimeTypesDiffer DEF IntTypes
  <1>2. TYPE_FUEL_NEED # Overrun
    BY Unions DEF IntTypes
  <1> QED
    BY <1>1, <1>2, RowTypesDiffer DEF MetaTypes, Slots

\* ORing the next type of a slot over the bits its header holds gives bits that
\* are allowed for that type, and bits that already read as the next type are
\* those of TYPE_RPM or of a type that does not change.
LEMMA MetaStep ==
  ASSUME NEW s \in Slots, NEW t \in Entries, NEW u \in Entries,
         s \in 1 .. 4 => t \in IntTypes /\ u \in IntTypes,
         s \in {5, 6} => u \in TimeTypes,
         u = TYPE_FUEL_NEED => s \in {3, 4},
         u = t \/ <<t, u>> \in Follows(s),
         NEW m \in MetaTypes(s, t)
  PROVE  /\ u # TYPE_FUEL_NEED => m \union u \in MetaTypes(s, u)
         /\ u = TYPE_FUEL_NEED => Overrun \in MetaTypes(s, u)
         /\ m = u /\ u # TYPE_RPM => u = t
  <1> USE RowTypesDiffer
  <1>1. CASE s \in {5, 6}
    <2>1. t = u /\ m = t
      BY <1>1 DEF MetaTypes, Follows
    <2>2. u # TYPE_FUEL_NEED
      BY <1>1, TimeTypesDiffer DEF IntTypes
    <2> QED
      BY <1>1, <2>1, <2>2, Unions DEF MetaTypes
  <1>2. CASE s \in {1, 2}
    <2>1. u # TYPE_FUEL_NEED
      BY <1>2
    <2>2. CASE m = TYPE_RPM
      <3>1. m \union u = TYPE_RPM
        BY <1>2, <2>2, Unions
      <3> QED
        BY <1>2, <2>1, <2>2, <3>1 DEF MetaTypes
    <2>3. CASE m # TYPE_RPM
      <3>1. m = t /\ <<s, t>> \in {<<1, TYPE_POS>>, <<2, TYPE_SPEED>>}
        BY <1>2, <2>3 DEF MetaTypes
      <3>2. u = t \/ m \union u = TYPE_RPM
        BY <1>2, <3>1, Unions DEF Follows
      <3>3. m \union u \in MetaTypes(s, u)
        BY <1>2, <3>1, <3>2, Unions DEF MetaTypes
      <3> QED
        BY <1>2, <2>1, <3>1, <3>3
    <2> QED
      BY <2>2, <2>3
  <1>3. CASE s \in {3, 4} /\ m = Overrun
    <2>1. m \union u = Overrun /\ m # u
      BY <1>3, Unions
    <2>2. s = 3 => u # TYPE_POS
      <3>1. s = 3 => t # TYPE_POS
        BY <1>3, Unions DEF MetaTypes, IntTypes
      <3> QED
        BY <3>1 DEF Follows
    <2> QED
      BY <1>3, <2>1, <2>2 DEF MetaTypes
  <1>4. CASE s \in {3, 4} /\ m # Overrun
    <2>1. m = t /\ <<s, t>> \in {<<3, TYPE_POS>>, <<4, TYPE_LAP>>, <<4, TYPE_LAPS_REM>>}
      BY <1>4 DEF MetaTypes
    <2>2. \/ u = t
          \/ u = TYPE_FUEL_NEED
          \/ t = TYPE_LAP /\ u = TYPE_LAPS_REM /\ s = 4
      BY <2>1 DEF Follows
    <2>3. u = TYPE_LAPS_REM /\ t = TYPE_LAP => m \union u = u
      BY <2>1, Unions
    <2>4. u = t => m \union u = u
      BY <2>1, Unions
    <2>5. Overrun \in MetaTypes(s, TYPE_FUEL_NEED)
      BY <1>4 DEF MetaTypes
    <2> QED
      BY <1>4, <2>1, <2>2, <2>3, <2>4, <2>5 DEF MetaTypes
  <1> QED
    BY <1>1, <1>2, <1>3, <1>4 DEF Slots

\* From an empty type, the first update gives a header the bits of its slot's
\* initial type, or of the one that follows it.
LEMMA MetaFirst ==
  ASSUME NEW s \in Slots, NEW u \in Entries,
         u = InitialTypes[s] \/ <<InitialTypes[s], u>> \in Follows(s)
  PROVE  /\ u # TYPE_FUEL_NEED => TYPE_NULL \union u \in MetaTypes(s, u)
         /\ u = TYPE_FUEL_NEED => Overrun \in MetaTypes(s, u)
  <1>1. TYPE_NULL \union u = u
    BY Unions
  <1>2. \/ s = 1 /\ u \in {TYPE_RPM, TYPE_POS}
        \/ s = 2 /\ u \in {TYPE_SPEED, TYPE_RPM}
        \/ s = 3 /\ u \in {TYPE_POS, TYPE_FUEL_NEED}
        \/ s = 4 /\ u \in {TYPE_LAP, TYPE_LAPS_REM}
        \/ s \in {5, 6} /\ u \in TimeTypes
    BY RowTypesDiffer DEF Follows, Slots, Places, InitialTypes, TimeTypes
  <1>3. TYPE_FUEL_NEED \notin TimeTypes
    BY TimeTypesDiffer DEF IntTypes
  <1>4. CASE s \in {1, 2}
    BY <1>1, <1>2, <1>4, RowTypesDiffer DEF MetaTypes
  <1>5. CASE s \in {3, 4}
    <2>1. CASE s = 3
      BY <1>1, <1>2, <2>1, RowTypesDiffer DEF MetaTypes
    <2>2. CASE s = 4
      <3>1. u \in {TYPE_LAP, TYPE_LAPS_REM}
        BY <1>2, <2>2
      <3>2. MetaTypes(4, u) = {Overrun} \union ({u} \intersect {TYPE_LAP, TYPE_LAPS_REM})
        BY DEF MetaTypes
      <3> QED
        BY <1>1, <2>2, <3>1, <3>2, RowTypesDiffer
    <2> QED
      BY <1>5, <2>1, <2>2
  <1>6. CASE s \in {5, 6}
    BY <1>1, <1>2, <1>3, <1>6 DEF MetaTypes
  <1> QED
    BY <1>4, <1>5, <1>6 DEF Slots

----------------------------------------------------------------------------
(***************************************************************************)
(* One update of the labels and the screen.                                *)
(***************************************************************************)

\* The redraw flag is the only thing SET_REDRAW changes in a header.
LEMMA MarkedHeader ==
  ASSUME NEW h \in HeaderLabel
  PROVE  /\ Marked(h) \in HeaderLabel
         /\ Marked(h).text = h.text /\ Marked(h).number = h.number
         /\ GET_TYPE(Marked(h).meta) = GET_TYPE(h.meta)
         /\ GET_REDRAW(Marked(h).meta)
  <1>1. h.meta \in Meta
    BY DEF HeaderLabel
  <1>2. TYPE_NULL \in Entries
    BY DEF Entries
  <1>3. /\ Marked(h) = [h EXCEPT !.meta = SET_REDRAW(h.meta)]
        /\ SET_REDRAW(h.meta) \in Meta
        /\ GET_TYPE(SET_REDRAW(h.meta)) = GET_TYPE(h.meta)
        /\ GET_REDRAW(SET_REDRAW(h.meta))
    BY <1>1, <1>2, MetaMacros DEF Marked
  <1> QED
    BY <1>3 DEF HeaderLabel

\* LCDProcessMessage on a header: it either leaves it or copies the new type's
\* text, ORs its bits in and flags the label; "fuel need" overruns the bits.
LEMMA HeaderProcessed ==
  ASSUME NEW h \in HeaderLabel, NEW u \in Entries
  PROVE  LET n == ProcessHeader(h, u)
         IN  /\ n \in HeaderLabel
             /\ n.number = h.number
             /\ \/ ~Copies(h, u) /\ n = h
                \/ /\ Copies(h, u)
                   /\ n.text = u
                   /\ u # TYPE_FUEL_NEED => GET_TYPE(n.meta) = GET_TYPE(h.meta) \union u
                   /\ u = TYPE_FUEL_NEED => GET_TYPE(n.meta) = Overrun
                   /\ GET_REDRAW(n.meta)
  <1> DEFINE b == IF Overruns(h, u) THEN LetterL ELSE h.meta
             m == SET_REDRAW(SET_TYPE(b, u))
             n == ProcessHeader(h, u)
  <1>1. b \in Meta
    BY OverrunMeta DEF HeaderLabel
  <1>2. SET_TYPE(b, u) \in Meta
    BY <1>1, MetaMacros
  <1>3. m \in Meta /\ GET_REDRAW(m) /\ GET_TYPE(m) = GET_TYPE(b) \union u
    BY <1>1, <1>2, MetaMacros
  <1>4. CASE Copies(h, u)
    <2>1. /\ u # TYPE_FUEL_NEED => GET_TYPE(m) = GET_TYPE(h.meta) \union u
          /\ u = TYPE_FUEL_NEED => GET_TYPE(m) = Overrun
      BY <1>3, <1>4, OverrunMeta DEF Overruns
    <2> HIDE DEF b, m
    <2>2. n = [h EXCEPT !.text = u, !.meta = m]
      BY <1>4 DEF ProcessHeader, m, b
    <2>3. n \in HeaderLabel /\ n.text = u /\ n.meta = m /\ n.number = h.number
      BY <2>2, <1>3 DEF HeaderLabel
    <2> QED
      BY <1>4, <1>3, <2>1, <2>3
  <1>5. CASE ~Copies(h, u)
    BY <1>5 DEF ProcessHeader
  <1> QED
    BY <1>4, <1>5

\* After LCDProcessMessage a header names its slot's type and its bits are
\* allowed for it; what LCDupdate leaves on the screen is that name.
LEMMA HeaderUpdated ==
  ASSUME IInv, NEW s \in Slots, NEW r \in [Places -> Entries], RowsOK(r),
         r[s] = lcdtypes[s] \/ <<lcdtypes[s], r[s]>> \in Follows(s),
         NEW redraw
  PROVE  LET n == HeaderNow(s, r, redraw)
         IN  /\ n \in HeaderLabel
             /\ n.number = 0
             /\ n.text = r[s]
             /\ GET_TYPE(n.meta) \in MetaTypes(s, r[s])
             /\ (IF GET_REDRAW(n.meta) THEN n.text ELSE screen.header[s]) = r[s]
  <1> DEFINE t == lcdtypes[s]
             u == r[s]
             h == IF redraw THEN Marked(header[s]) ELSE header[s]
             n == HeaderNow(s, r, redraw)
  <1> SUFFICES /\ n \in HeaderLabel /\ n.number = 0 /\ n.text = u
               /\ GET_TYPE(n.meta) \in MetaTypes(s, u)
               /\ GET_REDRAW(n.meta) \/ screen.header[s] = u
    OBVIOUS
  <1>1. /\ header[s] \in HeaderLabel
        /\ header[s].number = 0
        /\ lcdtypes \in [Places -> Entries] /\ RowsOK(lcdtypes)
        /\ s \in Places
    BY DEF IInv, TypeOK, Untouched, UpToDate, Slots, Places
  <1>2. /\ t \in Entries /\ u \in Entries
        /\ s \in 1 .. 4 => t \in IntTypes /\ u \in IntTypes
        /\ s \in {5, 6} => u \in TimeTypes
        /\ u = TYPE_FUEL_NEED => s \in {3, 4}
        /\ u # TYPE_NULL
    BY <1>1, SlotTypes
  <1>3. /\ h \in HeaderLabel
        /\ h.text = header[s].text /\ h.number = 0
        /\ GET_TYPE(h.meta) = GET_TYPE(header[s].meta)
        /\ GET_REDRAW(header[s].meta) \/ h = header[s] \/ GET_REDRAW(h.meta)
    BY <1>1, MarkedHeader
  <1>4. n = ProcessHeader(h, u)
    BY DEF HeaderNow
  <1> HIDE DEF h, n
  <1>5. /\ n \in HeaderLabel /\ n.number = 0
        /\ \/ GET_TYPE(h.meta) = u /\ u # TYPE_RPM /\ n = h
           \/ /\ n.text = u
              /\ u # TYPE_FUEL_NEED => GET_TYPE(n.meta) = GET_TYPE(h.meta) \union u
              /\ u = TYPE_FUEL_NEED => GET_TYPE(n.meta) = Overrun
              /\ GET_REDRAW(n.meta)
    BY <1>2, <1>3, <1>4, HeaderProcessed DEF Copies
  <1>6. CASE Untouched
    <2>1. GET_TYPE(h.meta) = TYPE_NULL
      <3>1. header[s].meta = {REDRAW}
        BY <1>6 DEF Untouched
      <3> QED
        BY <1>3, <3>1 DEF GET_TYPE, TypeBits, REDRAW, TYPE_NULL
    <2>2. /\ u # TYPE_FUEL_NEED => TYPE_NULL \union u \in MetaTypes(s, u)
          /\ u = TYPE_FUEL_NEED => Overrun \in MetaTypes(s, u)
      BY <1>2, <1>6, MetaFirst DEF Untouched
    <2> QED
      BY <1>2, <1>5, <2>1, <2>2
  <1>7. CASE UpToDate
    <2>1. /\ ~GET_REDRAW(header[s].meta) /\ screen.header[s] = header[s].text
          /\ header[s].text = t /\ GET_TYPE(h.meta) \in MetaTypes(s, t)
      BY <1>3, <1>7 DEF UpToDate
    <2>2. /\ u # TYPE_FUEL_NEED => GET_TYPE(h.meta) \union u \in MetaTypes(s, u)
          /\ u = TYPE_FUEL_NEED => Overrun \in MetaTypes(s, u)
          /\ GET_TYPE(h.meta) = u /\ u # TYPE_RPM => u = t
      BY <1>2, <2>1, MetaStep
    <2>3. n.text = u /\ GET_TYPE(n.meta) \in MetaTypes(s, u)
      BY <1>3, <1>5, <2>1, <2>2
    <2>4. GET_REDRAW(n.meta) \/ screen.header[s] = u
      BY <1>3, <1>5, <2>1, <2>2
    <2> QED
      BY <1>5, <2>3, <2>4
  <1> QED
    BY <1>6, <1>7 DEF IInv

\* "fuel need" overruns its header whenever a slot is set to it, and no other
\* type ever does.
LEMMA OverrunsOnFuelNeed ==
  ASSUME IInv, NEW s \in Slots, NEW u \in Entries
  PROVE  Overruns(header[s], u) <=> u = TYPE_FUEL_NEED
  <1>1. GET_TYPE(header[s].meta) # TYPE_FUEL_NEED
    <2>1. CASE Untouched
      <3>1. header[s].meta = {REDRAW}
        BY <2>1 DEF Untouched
      <3> QED
        BY <3>1 DEF GET_TYPE, TypeBits, REDRAW, TYPE_FUEL_NEED
    <2>2. CASE UpToDate
      <3>1. GET_TYPE(header[s].meta) \in MetaTypes(s, lcdtypes[s])
        BY <2>2 DEF UpToDate
      <3>2. lcdtypes \in [Places -> Entries] /\ RowsOK(lcdtypes) /\ s \in Places
        BY DEF IInv, TypeOK, Slots, Places
      <3>3. lcdtypes[s] \in Entries /\ (s \in {5, 6} => lcdtypes[s] \in TimeTypes)
        BY <3>2, SlotTypes
      <3> QED
        BY <3>1, <3>3, NeverFuelNeed
    <2> QED
      BY <2>1, <2>2 DEF IInv
  <1> QED
    BY <1>1 DEF Overruns, Copies

\* Nothing the host writes looks like an empty place or a label without text.
LEMMA NotAWord == Blank \notin Word /\ NoText \notin Word
  BY DEF Blank, NoText, Word, MaxWord

\* itoa writes between one and five digits, one for 0.
LEMMA DigitsOfWord == /\ \A n \in Word : Digits(n) \in 1 .. 5
                      /\ Digits(0) = 1
  <1>1. \A n \in Word : Digits(n) \in 1 .. 5
    BY DEF Digits, Word
  <1>2. Digits(0) = 1
    BY DEF Digits
  <1> QED
    BY <1>1, <1>2

\* A value label: marking it changes only the flag.
LEMMA MarkedValue ==
  ASSUME NEW v \in ValueLabel
  PROVE  /\ Marked(v) \in ValueLabel
         /\ Marked(v).text = v.text /\ Marked(v).number = v.number
         /\ Marked(v).ink = v.ink /\ Marked(v).placed = v.placed
         /\ GET_REDRAW(Marked(v).meta)
  <1>1. v.meta \in Meta
    BY DEF ValueLabel
  <1>2. TYPE_NULL \in Entries
    BY DEF Entries
  <1>3. /\ Marked(v) = [v EXCEPT !.meta = SET_REDRAW(v.meta)]
        /\ SET_REDRAW(v.meta) \in Meta
        /\ GET_REDRAW(SET_REDRAW(v.meta))
    BY <1>1, <1>2, MetaMacros DEF Marked
  <1> QED
    BY <1>3 DEF ValueLabel

\* An overrun takes a value its text and its place.
LEMMA DisplacedValue ==
  ASSUME NEW v \in ValueLabel
  PROVE  /\ Displaced(v) \in ValueLabel
         /\ Displaced(v).text = NoText /\ ~Displaced(v).placed
         /\ Displaced(v).ink = v.ink /\ Displaced(v).number = v.number
  BY DEF Displaced, ValueLabel

\* Drawing a value leaves digits in its text, which draw the same once more.
LEMMA DrawnValue ==
  ASSUME NEW v \in ValueLabel
  PROVE  /\ Drawn(v) \in ValueLabel
         /\ Drawn(v).text = v.text /\ Drawn(v).placed = v.placed
         /\ Content(Drawn(v)) = Content(v)
         /\ Drawn(v).number = v.number
         /\ \A i \in Drawn(v).ink : i \in v.ink \/ i < Digits(v.number)
  <1> DEFINE w == Written(v.ink, v.number)
  <1>1. /\ v.ink \subseteq Cells
        /\ Digits(v.number) \in 1 .. 5
    BY DigitsOfWord DEF ValueLabel
  <1>2. w \subseteq Cells
    BY <1>1 DEF Written, Behind
  <1>3. Behind(w, v.number) = Behind(v.ink, v.number)
    BY <1>1 DEF Written, Behind, Cells
  <1>6. \A i \in w : i \in v.ink \/ i < Digits(v.number)
    BY DEF Written, Behind
  <1> HIDE DEF w
  <1>4. CASE GET_REDRAW(v.meta) /\ v.text = NoText
    <2>1. Drawn(v) = [v EXCEPT !.ink = w]
      BY <1>4 DEF Drawn, w
    <2>2. /\ Drawn(v) \in ValueLabel /\ Drawn(v).ink = w
          /\ Drawn(v).text = v.text /\ Drawn(v).placed = v.placed
          /\ Drawn(v).number = v.number
      BY <1>2, <2>1 DEF ValueLabel
    <2> QED
      BY <1>3, <1>6, <2>2 DEF Content
  <1>5. CASE ~(GET_REDRAW(v.meta) /\ v.text = NoText)
    BY <1>5 DEF Drawn
  <1> QED
    BY <1>4, <1>5

\* LCDProcessMessage on a value whose header's number is 0: a word of zero
\* leaves it, any other word is put in its text or its number and flagged.
LEMMA ValueProcessed ==
  ASSUME NEW v \in ValueLabel, NEW h, h.number = 0, NEW u \in Entries, NEW val \in Word
  PROVE  LET n == ProcessValue(v, h, u, val)
         IN  /\ n \in ValueLabel
             /\ n.placed = v.placed
             /\ val = 0 => n = v
             /\ val # 0 => GET_REDRAW(n.meta)
             /\ val # 0 /\ IsTime(u) => n.text = val
             /\ val # 0 /\ ~IsTime(u) => n.number = val /\ n.text = v.text
             /\ n.ink = v.ink /\ n.number \in {v.number, val}
  <1> DEFINE m == SET_TYPE(SET_REDRAW(v.meta), u)
             n == ProcessValue(v, h, u, val)
  <1>1. v.meta \in Meta
    BY DEF ValueLabel
  <1>2. SET_REDRAW(v.meta) \in Meta /\ GET_REDRAW(SET_REDRAW(v.meta))
    BY <1>1, MetaMacros
  <1>3. m \in Meta /\ GET_REDRAW(m)
    BY <1>2, MetaMacros
  <1>4. CASE val = 0
    BY <1>4 DEF ProcessValue
  <1>5. CASE val # 0 /\ IsTime(u)
    <2>1. n = [v EXCEPT !.text = val, !.meta = m]
      BY <1>5 DEF ProcessValue
    <2> HIDE DEF m, n
    <2>2. /\ n \in ValueLabel /\ n.text = val /\ n.meta = m /\ n.placed = v.placed
          /\ n.ink = v.ink /\ n.number = v.number
      BY <2>1, <1>3 DEF ValueLabel
    <2> QED
      BY <1>3, <1>5, <2>2 DEF n
  <1>6. CASE val # 0 /\ ~IsTime(u)
    <2>1. n = [v EXCEPT !.number = val, !.meta = m]
      BY <1>6 DEF ProcessValue
    <2> HIDE DEF m, n
    <2>2. /\ n \in ValueLabel /\ n.number = val /\ n.meta = m /\ n.text = v.text
          /\ n.placed = v.placed /\ n.ink = v.ink
      BY <2>1, <1>3 DEF ValueLabel
    <2> QED
      BY <1>3, <1>6, <2>2 DEF n
  <1> QED
    BY <1>4, <1>5, <1>6

\* What a drawing of a word shows: behind a number the label's old digits that
\* neither its own nor their NUL cover.
LEMMA ContentOfWord ==
  ASSUME NEW n \in ValueLabel, NEW u, NEW word \in Word,
         IsTime(u) => n.text = word,
         ~IsTime(u) => n.number = word /\ n.text = NoText
  PROVE  /\ Content(n).time = IsTime(u) /\ Content(n).word = word
         /\ \A i \in Content(n).stale : ~IsTime(u) /\ i \in n.ink /\ i > Digits(word)
  <1>1. word # NoText
    BY NotAWord
  <1>2. CASE IsTime(u)
    <2>1. IsTime(u) = TRUE
      BY <1>2 DEF IsTime
    <2> QED
      BY <1>1, <1>2, <2>1 DEF Content
  <1>3. CASE ~IsTime(u)
    <2>1. IsTime(u) = FALSE
      BY <1>3 DEF IsTime
    <2> QED
      BY <1>3, <2>1 DEF Content, Behind
  <1> QED
    BY <1>2, <1>3

\* After an update a slot's value label has its place unless the slot is or was
\* set to "fuel need".  If it has, it is on the screen and shows the word of the
\* slot's type, or what it showed before if that is zero.
LEMMA ValueUpdated ==
  ASSUME IInv, NEW s \in Slots, NEW r \in [Places -> Entries], RowsOK(r), NEW redraw
  PROVE  LET n     == ValueNow(s, r, redraw)
             shown == IF GET_REDRAW(n.meta) /\ n.placed THEN Content(n) ELSE screen.value[s]
             word  == data[r[s]]
         IN  /\ n \in ValueLabel
             /\ n.placed <=> value[s].placed /\ r[s] # TYPE_FUEL_NEED
             /\ ~IsTime(r[s]) => n.text = NoText
             /\ n.ink = value[s].ink /\ n.number \in {value[s].number, word}
             /\ ~n.placed => shown = screen.value[s]
             /\ n.placed => /\ shown = Content(n)
                            /\ word # 0 => /\ shown.time = IsTime(r[s]) /\ shown.word = word
                                           /\ \A i \in shown.stale : /\ ~IsTime(r[s])
                                                                     /\ i \in value[s].ink
                                                                     /\ i > Digits(word)
                            /\ shown.word = D!NewReading(screen.value[s].word, word)
  <1> DEFINE n == ValueNow(s, r, redraw)
             u == r[s]
             word == data[r[s]]
             v == IF redraw THEN Marked(value[s]) ELSE value[s]
             w == IF Overruns(header[s], u) THEN Displaced(v) ELSE v
             old == screen.value[s]
  <1>1. /\ value[s] \in ValueLabel
        /\ header[s].number = 0
        /\ u \in Entries
        /\ word \in Word
        /\ ~IsTime(u) => value[s].text = NoText
    <2>1. TypeOK /\ RowsOK(lcdtypes) /\ s \in Places
      BY DEF IInv, Slots, Places
    <2>2. /\ value[s] \in ValueLabel
          /\ u \in Entries /\ word \in Word
      BY <2>1 DEF TypeOK
    <2>3. IsTime(u) <=> IsTime(lcdtypes[s])
      BY <2>1, SlotTypes DEF TypeOK
    <2>4. CASE Untouched
      BY <2>2, <2>4 DEF Untouched
    <2>5. CASE UpToDate
      BY <2>2, <2>3, <2>5 DEF UpToDate
    <2> QED
      BY <2>4, <2>5 DEF IInv
  <1>2. value[s].placed =>
          /\ old.word # Blank => ~GET_REDRAW(value[s].meta) /\ old = Content(value[s])
          /\ old.word = Blank => /\ GET_REDRAW(value[s].meta)
                                 /\ value[s].number = 0 /\ value[s].text = NoText
    <2>1. CASE Untouched
      BY <2>1 DEF Untouched, GET_REDRAW
    <2>2. CASE UpToDate
      <3>1. Content(value[s]).word \in Word
        BY <1>1 DEF Content, ValueLabel
      <3> QED
        BY <2>2, <3>1, NotAWord DEF UpToDate
    <2> QED
      BY <2>1, <2>2 DEF IInv
  <1>3. /\ v \in ValueLabel /\ v.text = value[s].text /\ v.number = value[s].number
        /\ v.ink = value[s].ink /\ v.placed = value[s].placed
        /\ GET_REDRAW(v.meta) \/ v = value[s]
        /\ GET_REDRAW(value[s].meta) => GET_REDRAW(v.meta)
    BY <1>1, MarkedValue
  <1>4. n = ProcessValue(w, header[s], u, word)
    BY DEF ValueNow
  <1>5. /\ w \in ValueLabel
        /\ w.placed <=> value[s].placed /\ u # TYPE_FUEL_NEED
        /\ w.placed => w = v
        /\ w.text \in {v.text, NoText}
        /\ w.ink = v.ink /\ w.number = v.number
    BY <1>1, <1>3, OverrunsOnFuelNeed, DisplacedValue
  <1> DEFINE shown == IF GET_REDRAW(n.meta) /\ n.placed THEN Content(n) ELSE old
  <1> SUFFICES /\ n \in ValueLabel
               /\ n.placed <=> value[s].placed /\ u # TYPE_FUEL_NEED
               /\ ~IsTime(u) => n.text = NoText
               /\ n.ink = value[s].ink /\ n.number \in {value[s].number, word}
               /\ n.placed => /\ shown = Content(n)
                              /\ word # 0 => /\ shown.time = IsTime(u) /\ shown.word = word
                                             /\ \A i \in shown.stale : /\ ~IsTime(u)
                                                                       /\ i \in value[s].ink
                                                                       /\ i > Digits(word)
                              /\ shown.word = D!NewReading(old.word, word)
    OBVIOUS
  <1> HIDE DEF n, v, w, word, u, old
  <1>6. /\ n \in ValueLabel
        /\ n.placed = w.placed
        /\ word = 0 => n = w
        /\ word # 0 => GET_REDRAW(n.meta)
        /\ word # 0 /\ IsTime(u) => n.text = word
        /\ word # 0 /\ ~IsTime(u) => n.number = word /\ n.text = w.text
        /\ n.ink = w.ink /\ n.number \in {w.number, word}
    BY <1>1, <1>4, <1>5, ValueProcessed
  <1>7. ~IsTime(u) => n.text = NoText
    BY <1>1, <1>3, <1>5, <1>6
  <1>8. ASSUME n.placed, word = 0
        PROVE  shown = Content(n) /\ shown.word = D!NewReading(old.word, word)
    <2>1. n = v /\ value[s].placed
      BY <1>5, <1>6, <1>8
    <2>2. Content(v) = Content(value[s])
      BY <1>3 DEF Content
    <2>3. CASE old.word = Blank
      BY <1>2, <1>3, <1>8, <2>1, <2>3 DEF Content, D!NewReading, D!Unread, Blank
    <2>4. CASE old.word # Blank
      BY <1>2, <1>3, <1>8, <2>1, <2>2, <2>4 DEF D!NewReading, D!Unread, Blank
    <2> QED
      BY <2>3, <2>4
  <1>9. ASSUME n.placed, word # 0
        PROVE  /\ shown = Content(n)
               /\ shown.time = IsTime(u) /\ shown.word = word
               /\ \A i \in shown.stale : /\ ~IsTime(u) /\ i \in value[s].ink
                                         /\ i > Digits(word)
               /\ shown.word = D!NewReading(old.word, word)
    <2>1. shown = Content(n)
      BY <1>6, <1>9
    <2>2. /\ Content(n).time = IsTime(u) /\ Content(n).word = word
          /\ \A i \in Content(n).stale : ~IsTime(u) /\ i \in n.ink /\ i > Digits(word)
      BY <1>1, <1>6, <1>7, <1>9, ContentOfWord
    <2>3. n.ink = value[s].ink
      BY <1>3, <1>5, <1>6
    <2> QED
      BY <1>9, <2>1, <2>2, <2>3 DEF D!NewReading
  <1> QED
    BY <1>3, <1>5, <1>6, <1>7, <1>8, <1>9

\* After an update the gear label is on the screen, and it shows the word the
\* host wrote when there is a glyph for it.
LEMMA GearUpdated ==
  ASSUME IInv, NEW r \in [Places -> Entries], RowsOK(r), NEW redraw
  PROVE  LET n     == GearNow(r, redraw)
             shown == IF GET_REDRAW(n.meta) THEN n.number ELSE screen.gear
         IN  /\ n \in GearLabel
             /\ shown = n.number
             /\ shown = D!NewGear(screen.gear, data[TYPE_GEAR])
  <1> DEFINE g    == IF redraw THEN Marked(gear) ELSE gear
             word == data[TYPE_GEAR]
             n    == GearNow(r, redraw)
             m    == SET_REDRAW(SET_TYPE(g.meta, TYPE_NULL))
  <1>1. /\ gear \in GearLabel /\ word \in Word
        /\ screen.gear = Blank => GET_REDRAW(gear.meta) /\ gear.number = 8
        /\ screen.gear # Blank => screen.gear = gear.number
    <2>1. gear \in GearLabel /\ word \in Word
      BY DEF IInv, TypeOK, Entries
    <2>2. gear.number # Blank
      BY <2>1, NotAWord DEF GearLabel
    <2> QED
      BY <2>1, <2>2 DEF IInv, Untouched, UpToDate, GET_REDRAW
  <1>2. TYPE_NULL \in Entries
    BY DEF Entries
  <1>3. /\ g \in GearLabel /\ g.number = gear.number
        /\ GET_REDRAW(g.meta) \/ g = gear
        /\ GET_REDRAW(gear.meta) => GET_REDRAW(g.meta)
    <2>1. gear.meta \in Meta
      BY <1>1 DEF GearLabel
    <2>2. SET_REDRAW(gear.meta) \in Meta /\ GET_REDRAW(SET_REDRAW(gear.meta))
      BY <1>2, <2>1, MetaMacros
    <2> QED
      BY <1>1, <2>2 DEF Marked, GearLabel
  <1>4. n = IF g.number # word /\ word < 9 THEN [g EXCEPT !.number = word, !.meta = m] ELSE g
    BY DEF GearNow, ProcessGear, RowsOK
  <1>5. m \in Meta /\ GET_REDRAW(m)
    <2>1. g.meta \in Meta
      BY <1>3 DEF GearLabel
    <2>2. SET_TYPE(g.meta, TYPE_NULL) \in Meta
      BY <1>2, <2>1, MetaMacros
    <2> QED
      BY <1>2, <2>2, MetaMacros
  <1> SUFFICES LET shown == IF GET_REDRAW(n.meta) THEN n.number ELSE screen.gear
               IN  /\ n \in GearLabel
                   /\ shown = n.number
                   /\ shown = D!NewGear(screen.gear, word)
    OBVIOUS
  <1> HIDE DEF g, m, n, word
  <1>6. CASE g.number # word /\ word < 9
    <2>1. n \in GearLabel /\ n.number = word /\ n.meta = m
      BY <1>1, <1>3, <1>4, <1>5, <1>6 DEF GearLabel
    <2> QED
      BY <1>5, <1>6, <2>1 DEF D!NewGear
  <1>7. CASE g.number = word
    BY <1>1, <1>3, <1>4, <1>7 DEF D!NewGear, D!Unread, Blank, Word
  <1>8. CASE ~(word < 9)
    BY <1>1, <1>3, <1>4, <1>8 DEF D!NewGear, D!Unread, Blank
  <1> QED
    BY <1>6, <1>7, <1>8

\* Clearing the redraw flag changes nothing else of a label.
LEMMA UnmarkedLabels ==
  /\ \A h \in HeaderLabel : /\ Unmarked(h) \in HeaderLabel /\ ~GET_REDRAW(Unmarked(h).meta)
                            /\ Unmarked(h).text = h.text /\ Unmarked(h).number = h.number
                            /\ GET_TYPE(Unmarked(h).meta) = GET_TYPE(h.meta)
  /\ \A v \in ValueLabel : /\ Unmarked(v) \in ValueLabel /\ ~GET_REDRAW(Unmarked(v).meta)
                           /\ Unmarked(v).text = v.text /\ Unmarked(v).placed = v.placed
                           /\ Unmarked(v).ink = v.ink /\ Unmarked(v).number = v.number
                           /\ Content(Unmarked(v)) = Content(v)
  /\ \A g \in GearLabel : /\ Unmarked(g) \in GearLabel /\ ~GET_REDRAW(Unmarked(g).meta)
                          /\ Unmarked(g).number = g.number
  <1>1. \A m \in Meta : /\ RESET_REDRAW(m) \in Meta
                                   /\ ~GET_REDRAW(RESET_REDRAW(m))
                                   /\ GET_TYPE(RESET_REDRAW(m)) = GET_TYPE(m)
    <2>1. TYPE_NULL \in Entries
      BY DEF Entries
    <2> QED
      BY <2>1, MetaMacros
  <1>2. \A h \in HeaderLabel : /\ Unmarked(h) = [h EXCEPT !.meta = RESET_REDRAW(h.meta)]
                               /\ h.meta \in Meta
    BY DEF Unmarked, HeaderLabel
  <1>3. \A v \in ValueLabel : /\ Unmarked(v) = [v EXCEPT !.meta = RESET_REDRAW(v.meta)]
                              /\ v.meta \in Meta
    BY DEF Unmarked, ValueLabel
  <1>4. \A g \in GearLabel : /\ Unmarked(g) = [g EXCEPT !.meta = RESET_REDRAW(g.meta)]
                             /\ g.meta \in Meta
    BY DEF Unmarked, GearLabel
  <1>5. \A h \in HeaderLabel : /\ Unmarked(h) \in HeaderLabel
                               /\ Unmarked(h).meta = RESET_REDRAW(h.meta)
                               /\ Unmarked(h).text = h.text /\ Unmarked(h).number = h.number
    BY <1>1, <1>2 DEF HeaderLabel
  <1>6. \A v \in ValueLabel : /\ Unmarked(v) \in ValueLabel
                              /\ Unmarked(v).meta = RESET_REDRAW(v.meta)
                              /\ Unmarked(v).text = v.text /\ Unmarked(v).number = v.number
                              /\ Unmarked(v).ink = v.ink /\ Unmarked(v).placed = v.placed
    BY <1>1, <1>3 DEF ValueLabel
  <1>7. \A g \in GearLabel : /\ Unmarked(g) \in GearLabel
                             /\ Unmarked(g).meta = RESET_REDRAW(g.meta)
                             /\ Unmarked(g).number = g.number
    BY <1>1, <1>4 DEF GearLabel
  <1>8. \A v \in ValueLabel : Content(Unmarked(v)) = Content(v)
    BY <1>6 DEF Content
  <1> QED
    BY <1>1, <1>2, <1>3, <1>4, <1>5, <1>6, <1>7, <1>8

\* The LED port takes the low seven bits of a word, which are a word.
LEMMA SevenBits == ASSUME NEW w \in Word PROVE w % 128 \in Word
  <1>1. w \in Int
    BY DEF Word
  <1>2. w % 128 \in Int /\ 0 =< w % 128 /\ w % 128 < 128
    BY <1>1
  <1>3. MaxWord \in Int /\ 128 =< MaxWord
    BY DEF MaxWord
  <1> QED
    BY <1>2, <1>3 DEF Word

\* The words drawn are words.
LEMMA ContentIsDrawing == \A v \in ValueLabel : Content(v) \in Drawing
  BY DEF Content, ValueLabel, Drawing, Behind

\* The update branch of the main loop, for rows that have stayed or gone one
\* step: afterwards the screen is up to date.
LEMMA UpdateStep ==
  ASSUME IInv, NEW redraw, Update(lcdtypes', redraw), UNCHANGED data, updatePending' = FALSE,
         lcdtypes' \in [Places -> Entries], RowsOK(lcdtypes'),
         \A s \in Slots : \/ lcdtypes'[s] = lcdtypes[s]
                          \/ <<lcdtypes[s], lcdtypes'[s]>> \in Follows(s)
  PROVE  /\ IInv'
         /\ screen'.gear = D!NewGear(screen.gear, data[TYPE_GEAR])
         /\ \A s \in Slots :
              /\ screen'.header[s] = lcdtypes'[s]
              /\ value'[s].placed <=> value[s].placed /\ lcdtypes'[s] # TYPE_FUEL_NEED
              /\ screen'.value[s].word =
                   IF value'[s].placed
                   THEN D!NewReading(screen.value[s].word, data[lcdtypes'[s]])
                   ELSE screen.value[s].word
  <1> DEFINE r    == lcdtypes'
             g    == GearNow(r, redraw)
             h(s) == HeaderNow(s, r, redraw)
             v(s) == ValueNow(s, r, redraw)
             shownGear     == IF GET_REDRAW(g.meta) THEN g.number ELSE screen.gear
             shownHeader(s) == IF GET_REDRAW(h(s).meta) THEN h(s).text ELSE screen.header[s]
             shownValue(s) == IF GET_REDRAW(v(s).meta) /\ v(s).placed
                              THEN Content(v(s)) ELSE screen.value[s]
  <1>1. /\ g \in GearLabel /\ shownGear = g.number
        /\ shownGear = D!NewGear(screen.gear, data[TYPE_GEAR])
    BY GearUpdated
  <1>2. \A s \in Slots : /\ h(s) \in HeaderLabel /\ h(s).number = 0 /\ h(s).text = r[s]
                         /\ GET_TYPE(h(s).meta) \in MetaTypes(s, r[s])
                         /\ shownHeader(s) = r[s]
    BY HeaderUpdated
  <1>3. \A s \in Slots :
           /\ v(s) \in ValueLabel
           /\ v(s).placed <=> value[s].placed /\ r[s] # TYPE_FUEL_NEED
           /\ ~IsTime(r[s]) => v(s).text = NoText
           /\ v(s).ink = value[s].ink /\ v(s).number \in {value[s].number, data[r[s]]}
           /\ ~v(s).placed => shownValue(s) = screen.value[s]
           /\ v(s).placed => /\ shownValue(s) = Content(v(s))
                             /\ data[r[s]] # 0 =>
                                  /\ shownValue(s).time = IsTime(r[s])
                                  /\ shownValue(s).word = data[r[s]]
                                  /\ \A i \in shownValue(s).stale :
                                       /\ ~IsTime(r[s])
                                       /\ i \in value[s].ink
                                       /\ i > Digits(data[r[s]])
                             /\ shownValue(s).word =
                                  D!NewReading(screen.value[s].word, data[r[s]])
    BY ValueUpdated
  <1>4. /\ gear' = Unmarked(g)
        /\ header' = [s \in Slots |-> Unmarked(h(s))]
        /\ value' = [s \in Slots |-> Unmarked(Drawn(v(s)))]
        /\ screen' = [gear |-> shownGear, header |-> [s \in Slots |-> shownHeader(s)],
                      value |-> [s \in Slots |-> shownValue(s)]]
        /\ leds' = data[TYPE_SHIFTLEDS] % 128
        /\ backlight' = data[TYPE_BACKLIGHT]
    BY DEF Update, ScreenNow
  <1>5. TypeOK /\ \A e \in Entries : data[e] \in Word
    BY DEF IInv, TypeOK
  <1>6. \A s \in Slots : /\ value'[s] \in ValueLabel /\ ~GET_REDRAW(value'[s].meta)
                         /\ value'[s].text = v(s).text
                         /\ value'[s].placed = v(s).placed
                         /\ Content(value'[s]) = Content(v(s))
                         /\ value'[s].number = v(s).number
                         /\ \A i \in value'[s].ink : \/ i \in v(s).ink
                                                     \/ i < Digits(v(s).number)
    BY <1>3, <1>4, DrawnValue, UnmarkedLabels
  <1> HIDE DEF g, h, v, shownGear, shownHeader, shownValue
  <1>7. TypeOK'
    <2>1. gear' \in GearLabel
      BY <1>1, <1>4, UnmarkedLabels
    <2>2. header' \in [Slots -> HeaderLabel]
      BY <1>2, <1>4, UnmarkedLabels
    <2>3. value' \in [Slots -> ValueLabel]
      BY <1>4, <1>6
    <2>4. shownGear \in Word
      BY <1>1 DEF GearLabel
    <2>5. \A s \in Slots : shownHeader(s) \in Entries /\ shownValue(s) \in Drawing
      BY <1>2, <1>3, <1>5, ContentIsDrawing DEF TypeOK, Slots, Places
    <2>6. screen' \in [gear : Word \union {Blank}, header : [Slots -> Entries],
                       value : [Slots -> Drawing]]
      BY <1>4, <2>4, <2>5
    <2>7. TYPE_SHIFTLEDS \in Entries /\ TYPE_BACKLIGHT \in Entries
      BY DEF Entries
    <2>8. leds' \in Word /\ backlight' \in Word
      BY <1>4, <1>5, <2>7, SevenBits
    <2> QED
      BY <1>5, <2>1, <2>2, <2>3, <2>6, <2>8 DEF TypeOK
  <1>8. UpToDate'
    <2>1. ~GET_REDRAW(gear'.meta) /\ screen'.gear = gear'.number
      BY <1>1, <1>4, UnmarkedLabels
    <2>2. ASSUME NEW s \in Slots
          PROVE  /\ ~GET_REDRAW(header'[s].meta) /\ screen'.header[s] = header'[s].text
                 /\ header'[s].number = 0 /\ header'[s].text = r[s]
                 /\ GET_TYPE(header'[s].meta) \in MetaTypes(s, r[s])
      BY <1>2, <1>4, UnmarkedLabels
    <2>3. ASSUME NEW s \in Slots
          PROVE  /\ ~GET_REDRAW(value'[s].meta)
                 /\ value'[s].placed => screen'.value[s] = Content(value'[s])
                 /\ ~IsTime(r[s]) => value'[s].text = NoText
      BY <1>3, <1>4, <1>6
    <2> QED
      BY <2>1, <2>2, <2>3 DEF UpToDate
  <1>9. OnlySecondRowMoves'
    <2> SUFFICES ASSUME NEW s \in Slots, ~value'[s].placed
                 PROVE  s \in {3, 4} /\ r[3] # TYPE_POS
      BY DEF OnlySecondRowMoves
    <2>1. ~value[s].placed \/ r[s] = TYPE_FUEL_NEED
      BY <1>3, <1>6
    <2>2. CASE ~value[s].placed
      <3>1. s \in {3, 4} /\ lcdtypes[3] # TYPE_POS
        BY <2>2 DEF IInv, OnlySecondRowMoves
      <3>2. r[3] = lcdtypes[3] \/ <<lcdtypes[3], r[3]>> \in Follows(3)
        BY DEF Slots
      <3> QED
        BY <3>1, <3>2, RowTypesDiffer DEF Follows
    <2>3. CASE r[s] = TYPE_FUEL_NEED
      BY <2>3, SlotTypes, RowTypesDiffer DEF RowsOK, SecondRow
    <2> QED
      BY <2>1, <2>2, <2>3
  <1>13. FromHost'
    <2>1. ASSUME NEW s \in Slots PROVE data[r[s]] \in Words \union {0}
      <3>1. s \in Places /\ TYPE_BACKLIGHT \notin IntTypes \union TimeTypes
        BY DEF Slots, Places, IntTypes, TimeTypes, TYPE_BACKLIGHT, TYPE_SPEED, TYPE_FUEL,
               TYPE_FUEL_NEED, TYPE_LAP, TYPE_LAPS_REM, TYPE_POS, TYPE_RPM, TYPE_LAPTIME,
               TYPE_DELTA
      <3>2. r[s] \in IntTypes \union TimeTypes
        BY SlotTypes DEF Slots
      <3> QED
        BY <3>1, <3>2 DEF IInv, FromHost, Entries
    <2>2. ASSUME NEW s \in Slots PROVE value'[s].number \in Words \union {0}
      BY <1>3, <1>6, <2>1 DEF IInv, FromHost
    <2>3. ASSUME NEW s \in Slots, NEW i \in value'[s].ink
          PROVE  \E n \in Words \union {0} : i < Digits(n)
      BY <1>3, <1>6, <2>2 DEF IInv, FromHost
    <2> QED
      BY <2>2, <2>3 DEF IInv, FromHost
  <1>10. ReadingsMatch'
    <2> SUFFICES ASSUME NEW s \in Slots, data[r[s]] # 0, value'[s].placed
                 PROVE  /\ screen'.value[s].time = IsTime(r[s])
                        /\ screen'.value[s].word = data[r[s]]
                        /\ \A i \in screen'.value[s].stale :
                             /\ ~screen'.value[s].time
                             /\ i > Digits(data[r[s]])
                             /\ \E longer \in Words : i < Digits(longer)
      BY DEF ReadingsMatch
    <2>1. screen'.value[s] = shownValue(s) /\ v(s).placed
      BY <1>4, <1>6
    <2>2. /\ screen'.value[s].time = IsTime(r[s]) /\ screen'.value[s].word = data[r[s]]
          /\ \A i \in screen'.value[s].stale :
               /\ ~IsTime(r[s]) /\ i \in value[s].ink /\ i > Digits(data[r[s]])
      BY <1>3, <2>1
    <2>3. ASSUME NEW i \in screen'.value[s].stale
          PROVE  \E longer \in Words : i < Digits(longer)
      <3>1. PICK n \in Words \union {0} : i < Digits(n)
        BY <2>2 DEF IInv, FromHost
      <3>2. i \in Int /\ i > 1
        <4>1. s \in Places /\ value[s] \in ValueLabel
          BY <1>5 DEF TypeOK, Slots, Places
        <4>2. i \in Int
          BY <2>2, <4>1 DEF ValueLabel, Cells
        <4>3. Digits(data[r[s]]) \in 1 .. 5
          BY <1>5, <4>1, DigitsOfWord
        <4> QED
          BY <2>2, <4>2, <4>3
      <3>3. n # 0
        BY <3>1, <3>2, DigitsOfWord
      <3> QED
        BY <3>1, <3>3
    <2> QED
      BY <2>2, <2>3
  <1>11. OutputsMatch'
    BY <1>1, <1>4 DEF OutputsMatch, D!NewGear
  <1>12. ASSUME NEW s \in Slots
         PROVE  /\ screen'.header[s] = r[s]
                /\ value'[s].placed <=> value[s].placed /\ r[s] # TYPE_FUEL_NEED
                /\ screen'.value[s].word =
                     IF value'[s].placed
                     THEN D!NewReading(screen.value[s].word, data[r[s]])
                     ELSE screen.value[s].word
    BY <1>2, <1>3, <1>4, <1>6
  <1> QED
    BY <1>1, <1>4, <1>7, <1>8, <1>9, <1>10, <1>11, <1>12, <1>13 DEF IInv

----------------------------------------------------------------------------
(***************************************************************************)
(* The invariant.                                                          *)
(***************************************************************************)

\* LCDinit leaves labels that wait to be drawn on an empty screen.
LEMMA InitUntouched == Init => IInv
  <1> SUFFICES ASSUME Init PROVE IInv
    OBVIOUS
  <1>1. InitialTypes \in [Places -> Entries]
    BY DEF InitialTypes, Places, Entries, IntTypes, TimeTypes
  <1>2. {REDRAW} \in Meta
    BY DEF REDRAW, Meta
  <1>3. 0 \in Word /\ 8 \in Word /\ 512 \in Word /\ TYPE_NULL \in Entries
    BY DEF Word, MaxWord, Entries
  <1>4. TypeOK
    <2>1. data \in [Entries -> Word] /\ leds \in Word /\ backlight \in Word
      BY <1>3 DEF Init
    <2>2. gear \in GearLabel /\ header \in [Slots -> HeaderLabel] /\ value \in [Slots -> ValueLabel]
      <3>1. gear \in GearLabel
        BY <1>2, <1>3 DEF Init, GearLabel
      <3>2. header \in [Slots -> HeaderLabel]
        BY <1>2, <1>3 DEF Init, HeaderLabel
      <3>3. value \in [Slots -> ValueLabel]
        BY <1>2, <1>3 DEF Init, ValueLabel
      <3> QED
        BY <3>1, <3>2, <3>3
    <2>3. screen \in [gear : Word \union {Blank}, header : [Slots -> Entries],
                      value : [Slots -> Drawing]]
      BY <1>3 DEF Init, Drawing
    <2> QED
      BY <1>1, <2>1, <2>2, <2>3 DEF Init, TypeOK
  <1>5. RowsOK(lcdtypes)
    BY DEF Init, RowsOK, InitialTypes, Places, TopRow, SecondRow
  <1>6. Untouched
    BY DEF Init, Untouched
  <1>7. FromHost
    BY DEF Init, FromHost
  <1> QED
    BY <1>4, <1>5, <1>6, <1>7 DEF Init, IInv, OnlySecondRowMoves, ReadingsMatch, OutputsMatch

\* A control request changes a word; if that word was different an update is
\* pending, and if not nothing has changed.
LEMMA ControlRequestKeeps ==
  ASSUME IInv, NEW e \in HostEntries, NEW x \in Words, ControlRequest(e, x)
  PROVE  IInv'
  <1>1. x \in Word
    BY WordsAssumption
  <1>2. /\ data' = [data EXCEPT ![e] = x]
        /\ updatePending' = (updatePending \/ data[e] # x)
        /\ lcdtypes' = lcdtypes /\ gear' = gear /\ header' = header /\ value' = value
        /\ screen' = screen /\ leds' = leds /\ backlight' = backlight
    BY DEF ControlRequest, labelVars
  <1>3. TypeOK'
    BY <1>1, <1>2 DEF IInv, TypeOK
  <1>4. RowsOK(lcdtypes')
    BY <1>2 DEF IInv
  <1>5. Untouched' \/ UpToDate'
    BY <1>2 DEF IInv, Untouched, UpToDate
  <1>6. ~updatePending' => data' = data /\ ~updatePending
    BY <1>2 DEF IInv, TypeOK
  <1>7. ReadingsMatch' /\ OutputsMatch'
    BY <1>2, <1>6 DEF IInv, ReadingsMatch, OutputsMatch
  <1>8. OnlySecondRowMoves'
    BY <1>2 DEF IInv, OnlySecondRowMoves
  <1>9. FromHost'
    BY <1>2 DEF IInv, TypeOK, FromHost
  <1> QED
    BY <1>3, <1>4, <1>5, <1>7, <1>8, <1>9 DEF IInv

\* A pass of the main loop leaves the rows on their tours.
LEMMA RotateKeepsRows ==
  ASSUME IInv, NEW change, MainLoop(change)
  PROVE  /\ lcdtypes' \in [Places -> Entries] /\ RowsOK(lcdtypes')
         /\ \A s \in Slots : \/ lcdtypes'[s] = lcdtypes[s]
                             \/ <<lcdtypes[s], lcdtypes'[s]>> \in Follows(s)
  <1>1. lcdtypes \in [Places -> Entries] /\ RowsOK(lcdtypes)
    BY DEF IInv, TypeOK
  <1>2. lcdtypes' = Rotate(lcdtypes, change)
    BY DEF MainLoop
  <1> QED
    BY <1>1, <1>2, RotateRows

\* A pass of the main loop with nothing to do changes nothing but, perhaps,
\* the rows; and a row only moves on a button.
LEMMA IdlePass ==
  ASSUME IInv, NEW change, MainLoop(change), change = {}, ~updatePending
  PROVE  UNCHANGED vars
  <1>1. lcdtypes' = lcdtypes
    BY DEF MainLoop, Rotate
  <1>2. updatePending' = updatePending
    BY DEF MainLoop, IInv, TypeOK
  <1> QED
    BY <1>1, <1>2 DEF MainLoop, vars

\* So does a pass of the main loop, whatever buttons have changed.
LEMMA MainLoopKeeps ==
  ASSUME IInv, NEW change, MainLoop(change)
  PROVE  IInv'
  <1>1. CASE change = {} /\ ~updatePending
    <2>1. UNCHANGED vars
      BY <1>1, IdlePass
    <2> QED
      BY <2>1 DEF vars, labelVars, IInv, TypeOK, Untouched, UpToDate, FromHost, ReadingsMatch,
                  OutputsMatch, OnlySecondRowMoves
  <1>2. CASE change # {} \/ updatePending
    <2>1. Update(lcdtypes', change # {}) /\ UNCHANGED data /\ updatePending' = FALSE
      BY <1>2 DEF MainLoop
    <2> QED
      BY <2>1, RotateKeepsRows, UpdateStep
  <1> QED
    BY <1>1, <1>2 DEF IInv, TypeOK

\* Each step of the panel keeps the invariant.
LEMMA InvarianceStep == ASSUME IInv, [Next]_vars PROVE IInv'
  <1>1. CASE \E e \in HostEntries, x \in Words : Fits(e, x) /\ ControlRequest(e, x)
    BY <1>1, ControlRequestKeeps
  <1>2. CASE \E change \in Changes : MainLoop(change)
    BY <1>2, MainLoopKeeps
  <1>3. CASE UNCHANGED vars
    BY <1>3 DEF vars, labelVars, IInv, TypeOK, Untouched, UpToDate, FromHost, ReadingsMatch,
                OutputsMatch, OnlySecondRowMoves
  <1> QED
    BY <1>1, <1>2, <1>3 DEF Next

\* IInv is an invariant for every set of words, entries and button changes.
THEOREM Invariance == Spec => []IInv
  BY InvarianceStep, InitUntouched, PTL DEF Spec

\* What follows from the invariant.
LEMMA InvariantSays ==
  IInv => TypeOK /\ HeadersMatch /\ ReadingsMatch /\ OutputsMatch /\ OnlySecondRowMoves
  BY DEF IInv, HeadersMatch, Untouched, UpToDate

\* Every variable keeps its C type: words stay in 16 bits, meta bytes in eight
\* (lcd.h:23-32, wheel-display.c:15-20).
THEOREM TypeCorrect == Spec => []TypeOK
  BY InvariantSays, Invariance, PTL

\* Every heading on an up-to-date display names the type its slot is set to,
\* for every sequence of presses, although SET_TYPE never clears a bit
\* (lcd.h:21, lcd.c:45-66).
THEOREM HeadersCorrect == Spec => []HeadersMatch
  BY InvariantSays, Invariance, PTL

\* Every placed slot of an up-to-date display starts with its word, if that is not
\* zero, in the format of its type, and what stands behind it are at most digits
\* of a number of the host that is at least two digits longer.  The words are the
\* host's, of 15 bits with one digit of tenths in a time (lcd.c:69-117, 230-249).
THEOREM ReadingsCorrect == Spec => []ReadingsMatch
  BY InvariantSays, Invariance, PTL

\* A slot reads exactly its word: nothing is left behind it.
ReadingsExact ==
  ~updatePending =>
    \A s \in Slots :
      LET word == data[lcdtypes[s]]
      IN  word # 0 /\ value[s].placed =>
            screen.value[s] = [time |-> IsTime(lcdtypes[s]), word |-> word, stale |-> {}]

\* A host whose words differ by no more than one digit in length leaves no digits
\* behind, and every placed slot reads exactly its word: the digit more falls to
\* the NUL of itoa (lcd.c:230).
THEOREM EvenWordsReadExactly ==
  ASSUME \A short \in Words, long \in Words : short # 0 => Digits(long) =< Digits(short) + 1
  PROVE  Spec => []ReadingsExact
  <1>1. IInv => ReadingsExact
    <2> SUFFICES ASSUME IInv, ~updatePending, NEW s \in Slots,
                        data[lcdtypes[s]] # 0, value[s].placed
                 PROVE  screen.value[s] = [time |-> IsTime(lcdtypes[s]),
                                           word |-> data[lcdtypes[s]], stale |-> {}]
      BY DEF ReadingsExact
    <2> DEFINE word == data[lcdtypes[s]]
               shown == screen.value[s]
    <2>1. /\ shown \in Drawing /\ word \in Word /\ word \in Words
          /\ shown.time = IsTime(lcdtypes[s]) /\ shown.word = word
          /\ \A i \in shown.stale : /\ i > Digits(word)
                                    /\ \E longer \in Words : i < Digits(longer)
      <3>1. /\ s \in Places /\ lcdtypes \in [Places -> Entries] /\ RowsOK(lcdtypes)
            /\ shown \in Drawing
        BY DEF IInv, TypeOK, Slots, Places
      <3>2. lcdtypes[s] \in IntTypes \union TimeTypes
        BY <3>1, SlotTypes DEF Slots
      <3>3. TYPE_BACKLIGHT \notin IntTypes \union TimeTypes
        BY DEF IntTypes, TimeTypes, TYPE_BACKLIGHT, TYPE_SPEED, TYPE_FUEL, TYPE_FUEL_NEED,
               TYPE_LAP, TYPE_LAPS_REM, TYPE_POS, TYPE_RPM, TYPE_LAPTIME, TYPE_DELTA
      <3>4. word \in Words
        BY <3>2, <3>3 DEF IInv, FromHost, Entries
      <3> QED
        BY <3>1, <3>4, WordsAssumption DEF IInv, ReadingsMatch
    <2>2. ASSUME NEW i \in shown.stale PROVE FALSE
      <3>1. PICK longer \in Words : i < Digits(longer)
        BY <2>1
      <3>2. Digits(longer) =< Digits(word) + 1
        BY <2>1
      <3>3. Digits(longer) \in Int /\ Digits(word) \in Int /\ i \in Int
        BY <2>1, DigitsOfWord, WordsAssumption DEF Drawing, Cells
      <3> QED
        BY <2>1, <3>1, <3>2, <3>3
    <2>3. shown.stale = {}
      BY <2>2
    <2> QED
      BY <2>1, <2>3 DEF Drawing
  <1> QED
    BY <1>1, Invariance, PTL

\* The gear, the LEDs and the backlight of an up-to-date display follow the
\* host (lcd.c:36-42, wheel-display.c:302-304, 404).
THEOREM OutputsCorrect == Spec => []OutputsMatch
  BY InvariantSays, Invariance, PTL

\* The header that is too long displaces values of the second row only, and none
\* before the second button has been pressed (lcd.c:48-61, headers.h:5).
THEOREM DisplacementConfined == Spec => []OnlySecondRowMoves
  BY InvariantSays, Invariance, PTL

----------------------------------------------------------------------------
(***************************************************************************)
(* The panel implements the dashboard.                                     *)
(***************************************************************************)

\* The switch on the right place of the top row, and on the left place of the
\* second, shift the row as the dashboard says.
LEMMA RotateIsShift ==
  ASSUME NEW types \in [Places -> Entries], RowsOK(types), NEW change
  PROVE  Rotate(types, change) = D!Shift(types, change)
  <1> DEFINE top == IF TopButton \in change THEN RotateTop(types) ELSE types
             all == IF SecondButton \in change THEN RotateSecond(top) ELSE top
             sh  == D!Shift(types, change)
  <1>1. /\ top \in [Places -> Entries] /\ RowsOK(top)
        /\ \A p \in Places \ {1, 2} : top[p] = types[p]
    BY RotateTopRow
  <1>2. all \in [Places -> Entries] /\ \A p \in Places \ {3, 4} : all[p] = top[p]
    BY <1>1, RotateSecondRow
  <1>3. TopButton \in change => /\ top[1] = D!NextTop(types[1])
                               /\ top[2] = types[1]
    BY RotateTopRow
  <1>4. SecondButton \in change =>
          /\ all[3] = D!NextSecond(top[3])
          /\ all[4] = IF top[3] = TYPE_POS THEN TYPE_LAPS_REM ELSE top[3]
    BY <1>1, RotateSecondRow
  <1>5. ~(TopButton \in change) => top = types
    OBVIOUS
  <1>6. ~(SecondButton \in change) => all = top
    OBVIOUS
  <1>7. Rotate(types, change) = all
    BY DEF Rotate
  <1> HIDE DEF top, all
  <1>8. ASSUME NEW p \in Places PROVE all[p] = sh[p]
    <2>1. CASE p = 1
      BY <1>1, <1>2, <1>3, <1>5, SameMessage, <2>1 DEF D!Shift, Places, TopButton, SecondButton
    <2>2. CASE p = 2
      BY <1>1, <1>2, <1>3, <1>5, SameMessage, <2>2 DEF D!Shift, Places, TopButton, SecondButton
    <2>3. CASE p = 3
      BY <1>1, <1>2, <1>4, <1>6, SameMessage, <2>3 DEF D!Shift, Places, TopButton, SecondButton
    <2>4. CASE p = 4
      BY <1>1, <1>2, <1>4, <1>6, SameMessage, <2>4 DEF D!Shift, Places, TopButton, SecondButton
    <2>5. CASE p \notin {1, 2, 3, 4}
      BY <1>1, <1>2, <2>5, SameMessage DEF D!Shift, Places
    <2> QED
      BY <2>1, <2>2, <2>3, <2>4, <2>5
  <1>9. sh = [p \in Places |-> sh[p]]
    BY SameMessage DEF D!Shift
  <1> QED
    BY <1>2, <1>7, <1>8, <1>9

\* A pass of the main loop that updates the display is a step Show of the
\* dashboard.
LEMMA UpdateIsShow ==
  ASSUME IInv, NEW change \in Changes, MainLoop(change), change # {} \/ updatePending
  PROVE  D!Show(change)
  <1>1. Update(lcdtypes', change # {}) /\ UNCHANGED data /\ updatePending' = FALSE
    BY DEF MainLoop
  <1>2. /\ IInv'
        /\ screen'.gear = D!NewGear(screen.gear, data[TYPE_GEAR])
        /\ \A s \in Slots :
             /\ screen'.header[s] = lcdtypes'[s]
             /\ value'[s].placed <=> value[s].placed /\ lcdtypes'[s] # TYPE_FUEL_NEED
             /\ screen'.value[s].word =
                  IF value'[s].placed
                  THEN D!NewReading(screen.value[s].word, data[lcdtypes'[s]])
                  ELSE screen.value[s].word
    BY <1>1, RotateKeepsRows, UpdateStep
  <1>3. lcdtypes' = D!Shift(lcdtypes, change)
    BY RotateIsShift DEF MainLoop, IInv, TypeOK
  <1>4. screen'.header = [s \in Slots |-> lcdtypes'[s]]
    <2>1. screen'.header \in [Slots -> Entries]
      BY <1>2 DEF IInv, TypeOK
    <2> QED
      BY <1>2, <2>1
  <1> DEFINE reading == [p \in Places |-> IF p = 0 THEN screen.gear ELSE screen.value[p].word]
             lost    == {s \in Slots : ~value[s].placed}
  <1>5. lost' = lost \union {s \in Slots : lcdtypes'[s] = TYPE_FUEL_NEED}
    BY <1>2
  <1>6. reading' = [p \in Places |->
                      CASE p = 0       -> D!NewGear(reading[0], data[lcdtypes'[0]])
                        [] p \in lost' -> reading[p]
                        [] OTHER       -> D!NewReading(reading[p], data[lcdtypes'[p]])]
    <2>1. lcdtypes'[0] = TYPE_GEAR
      BY <1>2 DEF IInv, RowsOK
    <2>2. 0 \in Places /\ 0 \notin Slots /\ \A p \in Places : p # 0 => p \in Slots
      BY DEF Places, Slots
    <2> QED
      BY <1>2, <2>1, <2>2
  <1>7. leds' = data[TYPE_SHIFTLEDS] % 128 /\ backlight' = data[TYPE_BACKLIGHT]
    BY <1>1 DEF Update
  <1> QED
    BY <1>1, <1>3, <1>4, <1>5, <1>6, <1>7, SameMessage DEF D!Show

LEMMA ImplementationInit == Init => D!Init
  BY SameMessage, SameTypes DEF Init, D!Init, D!Unread, Blank, Places, Slots

LEMMA ImplementationStep == ASSUME IInv, [Next]_vars PROVE [D!Next]_(D!vars)
  <1>1. ASSUME NEW e \in HostEntries, NEW x \in Words, ControlRequest(e, x)
        PROVE  D!Write(e, x)
    BY <1>1 DEF ControlRequest, labelVars, D!Write
  <1>2. ASSUME NEW change \in Changes, MainLoop(change)
        PROVE  D!Show(change) \/ UNCHANGED vars
    BY <1>2, IdlePass, UpdateIsShow DEF IInv, TypeOK
  <1>3. UNCHANGED vars => UNCHANGED D!vars
    BY DEF vars, labelVars, D!vars
  <1> QED
    BY <1>1, <1>2, <1>3 DEF Next, D!Next

\* Every step of the panel is a step of the dashboard or changes nothing it
\* speaks of (wheel-display.c:83-92, 348-406; lcd.c:17-119).
THEOREM Implementation == Spec => D!Init /\ [][D!Next]_(D!vars)
  BY ImplementationInit, ImplementationStep, InvarianceStep, InitUntouched, PTL DEF Spec
============================================================================
