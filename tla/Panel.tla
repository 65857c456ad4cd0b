------------------------------- MODULE Panel -------------------------------
(***************************************************************************)
(* The data path of the wheel display: the values the host writes          *)
(* (data[], EVENT_USB_Device_ControlRequest), the rows the buttons rotate  *)
(* (lcdtypes[], main), the labels lcd.c keeps for the display (labels[14], *)
(* LCDProcessMessage) and what it has drawn (LCDupdate).                   *)
(*                                                                         *)
(* All of it runs in the main context: no interrupt handler touches these  *)
(* variables, so one control request and one pass of the main loop are one *)
(* step each.  Which buttons a pass finds in buttonChange is left open     *)
(* here; WheelDisplay.tla says where they come from.                       *)
(***************************************************************************)
EXTENDS Message

CONSTANTS
  Words,        \* the values the host writes
  HostEntries,  \* the indexes of data[] it writes them to
  Changes       \* the values of buttonChange, as sets of button bits

ASSUME WordsAssumption   == Words \subseteq Word
ASSUME EntriesAssumption == HostEntries \subseteq Entries
ASSUME ChangesAssumption == {} \in Changes

VARIABLES
  data,           \* data[32]
  updatePending,
  lcdtypes,
  gear,           \* labels[0]
  header,         \* labels[2], labels[4], ..., by slot
  value,          \* labels[3], labels[5], ..., by slot
  screen,         \* what each label has last drawn at its place on the LCD
  leds,           \* GPIO bank 1 of the MCP23S17
  backlight       \* OCR1C

labelVars == <<gear, header, value, screen, leds, backlight>>
vars == <<data, updatePending, lcdtypes, labelVars>>

\* Nothing drawn yet, and a label without text (len = 0).
Blank  == -1
NoText == -1

\* The fields of an LCDtext.  A header's text is the header of a type; a
\* value's text, when it has one, is the formatting of a time word.  A value
\* without text is drawn as a number: ink is where text[0..4] still holds a
\* character of a number drawn.  placed: x and y are those LCDinit gave it.
Meta        == SUBSET (0 .. 7)
Cells       == 0 .. 4
GearLabel   == [meta : Meta, number : Word]
HeaderLabel == [meta : Meta, number : Word, text : Entries]
ValueLabel  == [meta : Meta, number : Word, text : Word \union {NoText},
                ink : SUBSET Cells, placed : BOOLEAN]

\* itoa writes the digits of a number and one NUL and leaves the cells behind.
Digits(n) ==
  CASE n < 10            -> 1
    [] n \in 10 .. 99     -> 2
    [] n \in 100 .. 999   -> 3
    [] n \in 1000 .. 9999 -> 4
    [] OTHER              -> 5

\* Mutant: the digits are written without a NUL.
BehindOpen(ink, n) == {i \in ink : i >= Digits(n)}

Behind(ink, n)  == {i \in ink : i > Digits(n)}
Written(ink, n) == {i \in Cells : i < Digits(n)} \union Behind(ink, n)

\* What LCD_writestring draws for a value: its text, or its number and then the
\* characters behind it, because the comparison with -10 is unsigned and every
\* number gets length 5.
Drawing == [time : BOOLEAN, word : Word \union {Blank}, stale : SUBSET Cells]
Content(v) ==
  IF v.text = NoText
  THEN [time |-> FALSE, word |-> v.number, stale |-> Behind(v.ink, v.number)]
  ELSE [time |-> TRUE,  word |-> v.text,   stale |-> {}]

TypeOK ==
  /\ data \in [Entries -> Word]
  /\ updatePending \in BOOLEAN
  /\ lcdtypes \in [Places -> Entries]
  /\ gear \in GearLabel
  /\ header \in [Slots -> HeaderLabel]
  /\ value \in [Slots -> ValueLabel]
  /\ screen \in [gear : Word \union {Blank}, header : [Slots -> Entries],
                 value : [Slots -> Drawing]]
  /\ leds \in Word
  /\ backlight \in Word

\* LCDinit flags every label it places; the screen has been cleared.
Init ==
  /\ data = [e \in Entries |-> IF e = TYPE_BACKLIGHT THEN 512 ELSE 0]
  /\ updatePending = TRUE
  /\ lcdtypes = InitialTypes
  /\ gear = [meta |-> {REDRAW}, number |-> 8]
  /\ header = [s \in Slots |-> [meta |-> {REDRAW}, number |-> 0, text |-> TYPE_NULL]]
  /\ value = [s \in Slots |-> [meta |-> {REDRAW}, number |-> 0, text |-> NoText,
                              ink |-> {}, placed |-> TRUE]]
  /\ screen = [gear |-> Blank, header |-> [s \in Slots |-> TYPE_NULL],
               value |-> [s \in Slots |-> [time |-> FALSE, word |-> Blank, stale |-> {}]]]
  /\ leds = 0
  /\ backlight = 512

----------------------------------------------------------------------------
\* The three parts of LCDProcessMessage(pos, type, val), for one label each.

\* Mutant: the gear as an index from one.
ProcessGearFromOne(g, val) ==
  IF g.number # val /\ val < 9
  THEN [g EXCEPT !.number = val - 1,
                 !.meta = SET_REDRAW(SET_TYPE(g.meta, TYPE_NULL))]
  ELSE g

ProcessGear(g, val) ==
  IF g.number # val /\ val < 9
  THEN [g EXCEPT !.number = val,
                 !.meta = SET_REDRAW(SET_TYPE(g.meta, TYPE_NULL))]
  ELSE g

\* Mutant: without the exception for TYPE_RPM.
CopiesPlain(h, type) == GET_TYPE(h.meta) # type

\* Is the header copied?  Full type bits hide a change, but for TYPE_RPM.
Copies(h, type) == GET_TYPE(h.meta) # type \/ type = TYPE_RPM

\* Mutant: a header of nine characters in the top row.
OverrunsTop(h, type) == Copies(h, type) /\ type = TYPE_SPEED

\* The copy runs on to a NUL.  "fuel need" fills its nine characters, so the next
\* header, "lap", is copied too: 'l' over the meta byte behind the text, 'a',
\* 'p' and the NUL over x, y and len of the value label that follows.
Overruns(h, type) == Copies(h, type) /\ type = TYPE_FUEL_NEED
LetterL == {2, 3, 5, 6}

ProcessHeader(h, type) ==
  IF Copies(h, type)
  THEN [h EXCEPT !.text = type,
                 !.meta = SET_REDRAW(SET_TYPE(IF Overruns(h, type) THEN LetterL ELSE h.meta,
                                              type))]
  ELSE h

Displaced(v) == [v EXCEPT !.text = NoText, !.placed = FALSE]

\* The change test reads the number of the header, labels[pos], not of the
\* value, labels[pos + 1].
ProcessValue(v, h, type, val) ==
  LET meta == SET_TYPE(SET_REDRAW(v.meta), type)
  IN  CASE h.number = val                   -> v
        [] h.number # val /\ IsTime(type)   -> [v EXCEPT !.text = val, !.meta = meta]
        [] h.number # val /\ ~IsTime(type)  -> [v EXCEPT !.number = val, !.meta = meta]

Marked(l)   == [l EXCEPT !.meta = SET_REDRAW(l.meta)]
Unmarked(l) == [l EXCEPT !.meta = RESET_REDRAW(l.meta)]

\* One step of a row: what the button does to lcdtypes[1..2] and [3..4].
RotateTop(types) ==
  CASE types[2] = TYPE_SPEED -> [types EXCEPT ![1] = TYPE_POS,   ![2] = TYPE_RPM]
    [] types[2] = TYPE_RPM   -> [types EXCEPT ![1] = TYPE_SPEED, ![2] = TYPE_POS]
    [] OTHER                 -> [types EXCEPT ![1] = TYPE_RPM,   ![2] = TYPE_SPEED]

\* Mutant: the right place of the second row is not moved along with the left one.
RotateSecondTorn(types) ==
  CASE types[3] = TYPE_FUEL_NEED -> [types EXCEPT ![3] = TYPE_FUEL,      ![4] = TYPE_FUEL_NEED]
    [] types[3] = TYPE_FUEL      -> [types EXCEPT ![3] = TYPE_LAP,       ![4] = TYPE_FUEL]
    [] types[3] = TYPE_LAP       -> [types EXCEPT ![3] = TYPE_LAPS_REM]
    [] OTHER                     -> [types EXCEPT ![3] = TYPE_FUEL_NEED, ![4] = TYPE_LAPS_REM]

RotateSecond(types) ==
  CASE types[3] = TYPE_FUEL_NEED -> [types EXCEPT ![3] = TYPE_FUEL,      ![4] = TYPE_FUEL_NEED]
    [] types[3] = TYPE_FUEL      -> [types EXCEPT ![3] = TYPE_LAP,       ![4] = TYPE_FUEL]
    [] types[3] = TYPE_LAP       -> [types EXCEPT ![3] = TYPE_LAPS_REM,  ![4] = TYPE_LAP]
    [] OTHER                     -> [types EXCEPT ![3] = TYPE_FUEL_NEED, ![4] = TYPE_LAPS_REM]

\* Mutant: both rows test the second button's bit.
RotateSameBit(types, change) ==
  LET top == IF SecondButton \in change THEN RotateTop(types) ELSE types
  IN  IF SecondButton \in change THEN RotateSecond(top) ELSE top

Rotate(types, change) ==
  LET top == IF TopButton \in change THEN RotateTop(types) ELSE types
  IN  IF SecondButton \in change THEN RotateSecond(top) ELSE top

----------------------------------------------------------------------------
\* Mutants: a write of the value an entry has withdraws the pending update; a
\* write asks for none.
ControlRequestWithdraws(e, v) ==
  /\ data' = [data EXCEPT ![e] = v]
  /\ updatePending' = (data[e] # v)
  /\ UNCHANGED <<lcdtypes, labelVars>>

ControlRequestSilent(e, v) ==
  /\ data' = [data EXCEPT ![e] = v]
  /\ UNCHANGED <<updatePending, lcdtypes, labelVars>>

\* EVENT_USB_Device_ControlRequest, a vendor request that writes one word.
ControlRequest(e, v) ==
  /\ data' = [data EXCEPT ![e] = v]
  /\ updatePending' = (updatePending \/ data[e] # v)
  /\ UNCHANGED <<lcdtypes, labelVars>>

\* SET_REDRAW on all of labels[] when a button changed, then LCDProcessMessage
\* for the seven places: calls that write disjoint labels.
GearNow(types, redraw) ==
  ProcessGear(IF redraw THEN Marked(gear) ELSE gear, data[types[0]])

HeaderNow(s, types, redraw) ==
  ProcessHeader(IF redraw THEN Marked(header[s]) ELSE header[s], types[s])

ValueNow(s, types, redraw) ==
  LET v == IF redraw THEN Marked(value[s]) ELSE value[s]
  IN  ProcessValue(IF Overruns(header[s], types[s]) THEN Displaced(v) ELSE v,
                   header[s], types[s], data[types[s]])

\* LCD_writestring on a value label: drawing a number writes it into text.
Drawn(v) == IF GET_REDRAW(v.meta) /\ v.text = NoText
            THEN [v EXCEPT !.ink = Written(v.ink, v.number)] ELSE v

\* LCDupdate: what the labels have drawn at their places once the flagged ones
\* are drawn.  A displaced value is drawn somewhere else instead.  Where drawings
\* overlap is a matter of columns and pages: see Display.tla.
ScreenNow(types, redraw) ==
  LET g    == GearNow(types, redraw)
      h(s) == HeaderNow(s, types, redraw)
      v(s) == ValueNow(s, types, redraw)
  IN  [gear   |-> IF GET_REDRAW(g.meta) THEN g.number ELSE screen.gear,
       header |-> [s \in Slots |-> IF GET_REDRAW(h(s).meta) THEN h(s).text
                                                            ELSE screen.header[s]],
       value  |-> [s \in Slots |-> IF GET_REDRAW(v(s).meta) /\ v(s).placed
                                   THEN Content(v(s)) ELSE screen.value[s]]]

\* The update branch of the main loop: labels, LCD, shift LEDs, backlight.
Update(types, redraw) ==
  /\ gear'   = Unmarked(GearNow(types, redraw))
  /\ header' = [s \in Slots |-> Unmarked(HeaderNow(s, types, redraw))]
  /\ value'  = [s \in Slots |-> Unmarked(Drawn(ValueNow(s, types, redraw)))]
  /\ screen' = ScreenNow(types, redraw)
  /\ leds' = data[TYPE_SHIFTLEDS] % 128
  /\ backlight' = data[TYPE_BACKLIGHT]

\* One pass of the main loop over its button and update branches.
MainLoop(change) ==
  /\ lcdtypes' = Rotate(lcdtypes, change)
  /\ \/ /\ change # {} \/ updatePending
        /\ Update(lcdtypes', change # {})
     \/ /\ change = {} /\ ~updatePending
        /\ UNCHANGED labelVars
  /\ updatePending' = FALSE
  /\ UNCHANGED data

\* The words that the host sends: numbers of at most 15 bits (README: "rpm: 15b")
\* and times with one digit of tenths.  Longer ones do not fit the label's text.
Fits(e, v) == /\ e \in IntTypes  => v < 32768
              /\ e \in TimeTypes => v % 16 < 10

Next ==
  \/ \E e \in HostEntries, v \in Words : Fits(e, v) /\ ControlRequest(e, v)
  \/ \E change \in Changes : MainLoop(change)

\* The main loop never stops, so a pending update is made, with or without a press.
Spec == /\ Init /\ [][Next]_vars
        /\ WF_vars(updatePending /\ \E change \in Changes : MainLoop(change))
----------------------------------------------------------------------------
\* Once a pass of the main loop has brought the display up to date, every slot is
\* headed with the name of the type it is set to, although SET_TYPE only ORs the
\* new type over the old one (lcd.h:21) and a header is copied only when the ORed
\* type differs from the wanted one (lcd.c:45).
HeadersMatch ==
  ~updatePending => \A s \in Slots : screen.header[s] = lcdtypes[s]

\* When no update is pending, every slot whose value is in its place and whose
\* word is not zero starts with that word, in the format of its type, whatever
\* was rotated in or out of the slot (lcd.c:69-117).  A time stands alone.  A
\* number may have old digits behind it, 515 and then 8 read 85 (lcd.c:230-249),
\* but none the host has no longer number for: cell Digits(word) holds the NUL, so
\* the number that left a digit has at least two more of them.
ReadingsMatch ==
  ~updatePending =>
    \A s \in Slots :
      LET word  == data[lcdtypes[s]]
          shown == screen.value[s]
      IN  word # 0 /\ value[s].placed =>
            /\ shown.time = IsTime(lcdtypes[s])
            /\ shown.word = word
            /\ \A i \in shown.stale : /\ ~shown.time
                                      /\ i > Digits(word)
                                      /\ \E longer \in Words : i < Digits(longer)

\* "fuel need" is the only header too long for its label: before the first press
\* of the second button every value is at the place LCDinit gave it, and those
\* of the top and the bottom row stay there for good (lcd.c:48-61, headers.h:5).
OnlySecondRowMoves ==
  \A s \in Slots : ~value[s].placed => s \in {3, 4} /\ lcdtypes[3] # TYPE_POS

\* When no update is pending, the gear shown is the last one written if there
\* is a glyph for it, and the LEDs and the backlight follow the host
\* (lcd.c:36-42, wheel-display.c:402-405).
OutputsMatch ==
  ~updatePending =>
    /\ data[TYPE_GEAR] < 9 => screen.gear = data[TYPE_GEAR]
    /\ leds = data[TYPE_SHIFTLEDS] % 128
    /\ backlight = data[TYPE_BACKLIGHT]

\* The comment "second button rotates second row" (wheel-display.c:368): the row
\* shows the words of the types it is rotated to.  The code does not, from the
\* first press on.
SecondRowReads ==
  ~updatePending =>
    \A s \in {3, 4} : LET word == data[lcdtypes[s]]
                      IN  word # 0 => screen.value[s].word = word

\* A word other than zero that the host leaves alone is eventually drawn in every
\* slot set to its type, unless its value is displaced, since the main loop never
\* stops (wheel-display.c:86-89, 397-406).
WordsAreShown ==
  \A s \in Slots, word \in Words \ {0} :
    data[lcdtypes[s]] = word ~> \/ screen.value[s].word = word
                               \/ data[lcdtypes[s]] # word
                               \/ ~value[s].placed

\* The panel implements the dashboard.
D == INSTANCE Dashboard WITH
       stale   <- updatePending,
       row     <- lcdtypes,
       heading <- screen.header,
       reading <- [p \in Places |-> IF p = 0 THEN screen.gear ELSE screen.value[p].word],
       lost    <- {s \in Slots : ~value[s].placed},
       outputs <- [leds |-> leds, backlight |-> backlight]

\* Every run of the panel is a run of the dashboard: with type bits that are
\* never cleared, redraw flags and a change test on the wrong label, a step
\* still draws exactly what a plain redraw from data[] and lcdtypes[] would, but
\* for the zero words and the displaced values (wheel-display.c:348-406,
\* lcd.c:17-119).
ImplementsDashboard == D!Spec

----------------------------------------------------------------------------
(***************************************************************************)
(* The inductive invariant.                                                *)
(***************************************************************************)
\* The positions the two rotating rows can be in.
TopRow    == {<<TYPE_RPM, TYPE_SPEED>>, <<TYPE_POS, TYPE_RPM>>, <<TYPE_SPEED, TYPE_POS>>}
SecondRow == {<<TYPE_POS, TYPE_LAP>>, <<TYPE_FUEL_NEED, TYPE_LAPS_REM>>,
              <<TYPE_FUEL, TYPE_FUEL_NEED>>, <<TYPE_LAP, TYPE_FUEL>>,
              <<TYPE_LAPS_REM, TYPE_LAP>>}


RowsOK(types) ==
  /\ types[0] = TYPE_GEAR /\ types[5] = TYPE_LAPTIME /\ types[6] = TYPE_DELTA
  /\ <<types[1], types[2]>> \in TopRow
  /\ <<types[3], types[4]>> \in SecondRow

\* The types the meta byte of a header may hold while its slot is set to a
\* type.  In the top row the ORs soon fill the three low bits; in the second row
\* the overrun sets a fourth one that is never cleared.
Overrun == {0, 1, 2, 3}

MetaTypes(s, type) ==
  CASE s \in {5, 6} -> {type}
    [] s = 3 -> {IF type = TYPE_POS THEN TYPE_POS ELSE Overrun}
    [] s = 4 -> {Overrun} \union ({type} \intersect {TYPE_LAP, TYPE_LAPS_REM})
    [] <<s, type>> \in {<<1, TYPE_POS>>, <<2, TYPE_SPEED>>} -> {TYPE_RPM, type}
    [] OTHER -> {TYPE_RPM}

\* Before the first update every label waits to be drawn on an empty screen.
Untouched ==
  /\ updatePending
  /\ lcdtypes = InitialTypes
  /\ gear = [meta |-> {REDRAW}, number |-> 8] /\ screen.gear = Blank
  /\ \A s \in Slots :
       /\ header[s] = [meta |-> {REDRAW}, number |-> 0, text |-> TYPE_NULL]
       /\ value[s] = [meta |-> {REDRAW}, number |-> 0, text |-> NoText,
                       ink |-> {}, placed |-> TRUE]
       /\ screen.value[s].word = Blank

\* After it, the screen shows the labels and the headers name their types.
UpToDate ==
  /\ ~GET_REDRAW(gear.meta) /\ screen.gear = gear.number
  /\ \A s \in Slots :
       /\ ~GET_REDRAW(header[s].meta) /\ screen.header[s] = header[s].text
       /\ header[s].number = 0
       /\ header[s].text = lcdtypes[s]
       /\ GET_TYPE(header[s].meta) \in MetaTypes(s, lcdtypes[s])
       /\ ~GET_REDRAW(value[s].meta)
       /\ value[s].placed => screen.value[s] = Content(value[s])
       /\ ~IsTime(lcdtypes[s]) => value[s].text = NoText

\* The numbers, and the digits that are left of them, are the host's, but for
\* the zeros LCDinit and data[] start with.
FromHost ==
  /\ \A e \in Entries \ {TYPE_BACKLIGHT} : data[e] \in Words \union {0}
  /\ \A s \in Slots :
       /\ value[s].number \in Words \union {0}
       /\ \A i \in value[s].ink : \E n \in Words \union {0} : i < Digits(n)

\* The strengthening from which the safety properties follow: the labels are
\* either as LCDinit left them or exactly what the screen shows (lcd.c:17-119).
IInv ==
  /\ TypeOK
  /\ RowsOK(lcdtypes)
  /\ Untouched \/ UpToDate
  /\ FromHost
  /\ OnlySecondRowMoves
  /\ ReadingsMatch
  /\ OutputsMatch
============================================================================
