------------------------------ MODULE Display ------------------------------
(***************************************************************************)
(* The panel with its pixels: Panel says which labels an update draws and  *)
(* what, Lcd where a text lies on the display.  An update draws the gear   *)
(* and then the flagged labels in their order (LCDupdate), each over what  *)
(* is there.                                                               *)
(***************************************************************************)
EXTENDS Panel, Lcd

CONSTANT Writes   \* what the host writes: pairs of an index of data[] and a word

ASSUME WritesAssumption == Writes \subseteq HostEntries \X Words

Digit == 0 .. 9

VARIABLES
  lcd,      \* the display
  digits,   \* text[0..4] of each value label: the digits that numbers have left there
  drawn     \* history: what each value label has last drawn at its place

panelVars == vars
displayVars == <<panelVars, lcd, digits, drawn>>

\* labels[2], labels[4], ... are the headers of the slots, labels[3], ... the values.
Labels   == 2 .. 13
SlotOf(l)   == l \div 2
IsHeader(l) == l % 2 = 0

\* LCDinit.
Column(l) == CASE SlotOf(l) \in {1, 3} -> 28      \* LEFTCOL
               [] SlotOf(l) \in {2, 4} -> 80      \* RIGHTCOL
               [] SlotOf(l) = 5 -> 0
               [] SlotOf(l) = 6 -> 64
Page(l)   == 3 * ((SlotOf(l) - 1) \div 2) + (IF IsHeader(l) THEN 0 ELSE 1)
IsLarge(l) == ~IsHeader(l) /\ SlotOf(l) < 5

\* What the overrun of a header leaves in x and y of the value behind it: 'a' and 'p'.
LetterA == 97
LetterP == 112

Tens == <<1, 10, 100, 1000, 10000>>

\* The digit itoa writes into cell i of the text.
DigitAt(n, i) == (n \div Tens[Digits(n) - i]) % 10

\* The cells of a label's text, once its number is written into them.
Overwritten(cells, n) == [i \in Cells |-> IF i < Digits(n) THEN DigitAt(n, i) ELSE cells[i]]

Glyph(l, digit) == IF IsLarge(l) THEN Large(digit) ELSE Small(digit)

\* A number is drawn with the digits of an earlier one that are still behind it; the
\* NUL between them draws nothing.
NumberText(l, content, cells) ==
  LET Shows(i) == i < Digits(content.word) \/ i \in content.stale
      Cell(i)  == If(Shows(i), Glyph(l, cells[i]))
  IN  <<Cell(0), Cell(1), Cell(2), Cell(3), Cell(4)>>

Text(l, content, cells) ==
  IF content.time THEN TimeText(content.word) ELSE NumberText(l, content, cells)

----------------------------------------------------------------------------
Mark(l, content) == <<l, content>>
GearMark(n)      == Mark(0, n)

\* LCD_writestring, when a label is flagged.
HeaderDrawn(d, l, h) ==
  IF GET_REDRAW(h.meta)
  THEN Write(d, l, Mark(l, h.text), Column(l), Page(l), DrawnText(h.text), FALSE)
  ELSE d

ValueDrawn(d, l, v, cells) ==
  IF GET_REDRAW(v.meta)
  THEN Write(d, l, Mark(l, Content(v)),
             IF v.placed THEN Column(l) ELSE LetterA, IF v.placed THEN Page(l) ELSE LetterP,
             Text(l, Content(v), cells), IsLarge(l))
  ELSE d

GearDrawn(g) == IF GET_REDRAW(g.meta) THEN WriteGear(lcd, GearMark(g.number)) ELSE lcd

\* The text of a value label when it has been drawn.
DigitsNow(s, v) ==
  IF GET_REDRAW(v.meta) /\ v.text = NoText THEN Overwritten(digits[s], v.number) ELSE digits[s]

SlotDrawn(d, s, types, redraw) ==
  LET v == ValueNow(s, types, redraw)
  IN  ValueDrawn(HeaderDrawn(d, 2 * s, HeaderNow(s, types, redraw)), 2 * s + 1, v, DigitsNow(s, v))

\* LCDupdate: the labels are drawn in their order.
Updated(types, redraw) ==
  LET After1 == SlotDrawn(GearDrawn(GearNow(types, redraw)), 1, types, redraw)
      After2 == SlotDrawn(After1, 2, types, redraw)
      After3 == SlotDrawn(After2, 3, types, redraw)
      After4 == SlotDrawn(After3, 4, types, redraw)
      After5 == SlotDrawn(After4, 5, types, redraw)
  IN  SlotDrawn(After5, 6, types, redraw)

DrawnNow(s, v) ==
  IF GET_REDRAW(v.meta) /\ v.placed THEN Text(2 * s + 1, Content(v), DigitsNow(s, v)) ELSE drawn[s]

DisplayInit ==
  /\ Init
  /\ lcd = Cleaned
  /\ digits = [s \in Slots |-> [i \in Cells |-> 0]]
  /\ drawn = [s \in Slots |-> <<>>]

\* The vendor request.
HostWrites ==
  /\ \E w \in Writes : Fits(w[1], w[2]) /\ ControlRequest(w[1], w[2])
  /\ UNCHANGED <<lcd, digits, drawn>>

\* A pass of the main loop, with an update or without.
Pass(change) ==
  /\ MainLoop(change)
  /\ IF change # {} \/ updatePending
     THEN /\ lcd' = Updated(lcdtypes', change # {})
          /\ digits' = [s \in Slots |-> DigitsNow(s, ValueNow(s, lcdtypes', change # {}))]
          /\ drawn' = [s \in Slots |-> DrawnNow(s, ValueNow(s, lcdtypes', change # {}))]
     ELSE UNCHANGED <<lcd, digits, drawn>>

DisplayNext == HostWrites \/ \E change \in Changes : Pass(change)

DisplaySpec == DisplayInit /\ [][DisplayNext]_displayVars

----------------------------------------------------------------------------
\* What the display should show of each label, by what the label has last drawn at
\* its place: the columns of its text.
Shown(l) == IF IsHeader(l) THEN screen.header[SlotOf(l)] ELSE screen.value[SlotOf(l)]
Body(l)  ==
  IF IsHeader(l) THEN Layout(Column(l), HeaderText(Shown(l)), FALSE).body
                 ELSE Layout(Column(l), drawn[SlotOf(l)], IsLarge(l)).body
LabelsOn(p) == {l \in Labels : p \in {Page(l)} \union (IF IsLarge(l) THEN {Page(l) + 1} ELSE {})}

\* What page p should show and what it does show, as pairs of a column and a mark.
Due(p) ==
  (UNION {Body(l) \X {Mark(l, Shown(l))} : l \in LabelsOn(p)})
    \union (IF p \in GearPages /\ screen.gear # Blank
             THEN GearColumns \X {GearMark(screen.gear)} ELSE {})
Lit(p) == {<<c, lcd.ram[p][c]>> : c \in {d \in Columns : lcd.ram[p][d] # Empty}}

\* The columns of page p that show something else.
Blemishes(p) == {e[1] : e \in (Due(p) \ Lit(p)) \union (Lit(p) \ Due(p))}

\* What the spaces of two texts hit, the 'o' of "position" and the second 'e' of "fuel
\* need" drawn from LEFTCOL: these end at column 63, and the space behind them is
\* written by the left controller, whose column is 0 again (lcd.c:175-188).
GearHit(p, c) == c = 0 /\ p \in {0, 3}

\* Until the second button is pressed the display shows what its labels have drawn
\* and nothing else, from the first update on: no text runs into another or leaves
\* something of an earlier, longer one behind, whatever the order of redraws and
\* wherever texts cross between the controllers (lcd.c:154-313, ks0108.c:129-155),
\* but for the gear's first column in the lines of the two rows' headers.
CleanUntilDisplaced ==
  (\A s \in Slots : value[s].placed) =>
    \A p \in Pages : \A c \in Blemishes(p) : GearHit(p, c)

\* A value displaced by "fuel need" is drawn on whatever page the right controller
\* was left at.  It damages no more than the end of the lines there, and the second
\* row's headers, of which texts with a space keep what was there (lcd.c:163-190,
\* 275-277): the gear, the left values and the other left headers stay readable.
DamageConfined ==
  \A p \in Pages : \A c \in Blemishes(p) :
    GearHit(p, c) \/ p = 3 \/ c >= LetterA
============================================================================
