-------------------------------- MODULE Lcd --------------------------------
(***************************************************************************)
(* How lcd.c puts texts on the display: two controllers of 64 columns, a   *)
(* current page and a current column in each (ks0108.c).  A text is the    *)
(* sequence of the widths of its glyphs, as font8.h and font16.h have      *)
(* them, and a glyph's columns all get the same mark: the label and what   *)
(* the label shows.                                                        *)
(*                                                                         *)
(* Every writer sets the column before it writes, so only the page each    *)
(* controller is left at outlives a text.                                  *)
(***************************************************************************)
EXTENDS Message, Sequences

Columns     == 0 .. 127
Pages       == 0 .. 7
Controllers == {0, 1}
ControllerOf(column) == column \div 64

Space   == 0      \* a space in a text: one column further, nothing written
Nothing == -1     \* a character for which nothing is written, as the NUL of a number
Empty   == <<-1>> \* a column of pixels that are off

\* The glyphs of the headers.
HeaderText(type) ==
  CASE type = TYPE_SPEED     -> <<5, 5, 5, 5, 5>>
    [] type = TYPE_FUEL      -> <<5, 5, 5, 4>>
    [] type = TYPE_FUEL_NEED -> <<5, 5, 5, 4, Space, 6, 5, 5, 5>>
    [] type = TYPE_LAP       -> <<4, 5, 5>>
    [] type = TYPE_LAPS_REM  -> <<6, 5, Space, 5, 5>>
    [] type = TYPE_POS       -> <<5, 5, 5, 2, 6, 2, 5, 6>>
    [] type = TYPE_RPM       -> <<5, 5, 7>>
    [] type = TYPE_LAPTIME   -> <<4, 5, 5, 6, 2, 7, 5>>
    [] type = TYPE_DELTA     -> <<5, 5, 4, 6, 5>>
    [] OTHER                 -> <<>>

\* "fuel need" is drawn with the bytes behind it: the meta byte, which reads 'o', and
\* what the copy has put into x and y, 'a' and 'p'.
Overrunning == <<5, 5, 5, 4, Space, 6, 5, 5, 5, 5, 5, 5>>
DrawnText(type) == IF type = TYPE_FUEL_NEED THEN Overrunning ELSE HeaderText(type)

Large(digit) == IF digit = 1 THEN 5 ELSE 9
Small(digit) == IF digit = 1 THEN 3 ELSE 5
Dot   == 2
Colon == 2
Minus == 3

If(present, width) == IF present THEN width ELSE Nothing

\* A time word: sign, five bits of minutes, six of seconds, four of tenths.
TimeText(word) ==
  LET minutes == (word \div 1024) % 32
      seconds == (word \div 16) % 64
      tenths  == word % 16
  IN  <<If(word >= 32768, Minus),
        If(minutes >= 10, Small(minutes \div 10)), If(minutes # 0, Small(minutes % 10)),
        If(minutes # 0, Colon),
        If(minutes # 0 \/ seconds >= 10, Small(seconds \div 10)), Small(seconds % 10),
        Dot,
        If(tenths >= 10, Small(1)), Small(tenths % 10)>>

----------------------------------------------------------------------------
\* LCD_writechar_8 and LCD_writechar_16: the columns a glyph w wide covers from x,
\* those of the display only; where x is after it; the column of the space behind
\* it, in the controller that has written last, whose column counter wraps.
GlyphEnd(x, w)   == IF x >= 128 THEN x ELSE IF x + w > 128 THEN 128 ELSE x + w
GlyphBody(x, w)  == x .. GlyphEnd(x, w) - 1
Writers(x, w)    == {IF x < 64 THEN 0 ELSE 1} \union (IF GlyphEnd(x, w) > 64 THEN {1} ELSE {})
Wrapped(k, x)    == 64 * k + (x % 64)
SpaceColumn(x, w) == Wrapped(IF 1 \in Writers(x, w) THEN 1 ELSE 0, GlyphEnd(x, w))

\* The large font writes no space behind the last column.
Spaced(x, w, large) == ~large \/ GlyphEnd(x, w) < 128

\* Where the text goes on after a character at x.
After(x, w, large) ==
  CASE w = Nothing -> x
    [] w = Space   -> x + 1
    [] OTHER       -> GlyphEnd(x, w) + (IF Spaced(x, w, large) THEN 1 ELSE 0)

\* Where each character of a text from x on starts, and where the text ends.
Starts(x, text, large) ==
  LET at[i \in 1 .. Len(text) + 1] == IF i = 1 THEN x ELSE After(at[i - 1], text[i - 1], large)
  IN  at

Glyphs(text) == {i \in DOMAIN text : text[i] \notin {Nothing, Space}}

Layout(x, text, large) ==
  LET at     == Starts(x, text, large)
      spaced == {i \in Glyphs(text) : Spaced(at[i], text[i], large)}
  IN  [body    |-> UNION {GlyphBody(at[i], text[i]) : i \in Glyphs(text)},
       gaps    |-> {SpaceColumn(at[i], text[i]) : i \in spaced},
       writers |-> UNION {Writers(at[i], text[i]) : i \in Glyphs(text)},
       end     |-> at[Len(text) + 1]]

\* ks0108_clear_range: the columns from first up to, not including, last.
Cleared(first, last) ==
  {IF c < 128 THEN c ELSE Wrapped(1, c) : c \in first .. last - 1}

----------------------------------------------------------------------------
\* The state of the display: ram, what the columns show, page by page; page, where each
\* controller is; width, that of each label's last text.

\* After ks0108_clear.
Cleaned == [ram   |-> [p \in Pages |-> [c \in Columns |-> Empty]],
            page  |-> [k \in Controllers |-> 7],
            width |-> [l \in 2 .. 13 |-> 0]]

\* The pages of a text at y.  The controllers take no number above 7 for a page: the
\* text is drawn on the page they are at.
PagesAt(lcd, k, y, large) ==
  IF y > 7 THEN {lcd.page[k]} ELSE {y} \union (IF large THEN {y + 1} ELSE {})

\* Mutants: the end is saved for the width; the width is not saved.
NewWidthEnd(x, l)  == l.end
NewWidthZero(x, l) == 0

\* "save": what the clean-up of the next text goes by.
NewWidth(x, l) == l.end - x

\* LCD_writestring for label, at column x and page y.  A space lies on a glyph of the
\* same text only where it has wrapped, and then it is written after it.
Write(lcd, label, mark, x, y, text, large) ==
  LET l        == Layout(x, text, large)
      cleared  == Cleared(l.end, x + lcd.width[label])
      blank    == l.gaps \union cleared
      written  == l.body \union blank
      writers  == l.writers \union {ControllerOf(c) : c \in cleared}
      pages    == [k \in Controllers |-> PagesAt(lcd, k, y, large)]
      Strip(p) == LET old   == lcd.ram[p]
                      there == {c \in written : p \in pages[ControllerOf(c)]}
                  IN  [c \in Columns |-> IF c \notin there THEN old[c]
                                         ELSE IF c \in blank THEN Empty ELSE mark]
  IN  [ram   |-> [p \in Pages |-> IF p \in pages[0] \union pages[1] THEN Strip(p) ELSE lcd.ram[p]],
       page  |-> [k \in Controllers |->
                   IF k \in writers /\ y <= 7 THEN y + (IF large THEN 1 ELSE 0) ELSE lcd.page[k]],
       width |-> [lcd.width EXCEPT ![label] = NewWidth(x, l)]]

GearPages   == 0 .. 4
GearColumns == 0 .. 24

\* LCD_writegear, which clears one page more than it draws.
WriteGear(lcd, mark) ==
  LET Strip(p) == LET old == lcd.ram[p]
                  IN  [c \in Columns |-> IF c \notin GearColumns THEN old[c]
                                         ELSE IF p \in GearPages THEN mark ELSE Empty]
  IN  [lcd EXCEPT
         !.ram  = [p \in Pages |-> IF p \in GearPages \union {5} THEN Strip(p) ELSE lcd.ram[p]],
         !.page = [lcd.page EXCEPT ![0] = 4]]
============================================================================
