------------------------------ MODULE Message ------------------------------
(***************************************************************************)
(* The message types of message.h and the meta byte of an LCDtext label    *)
(* (lcd.h).  A type is a five-bit number that lcd.c ORs into the meta byte *)
(* and tests bit by bit, so it is written as the set of its bits:          *)
(* TYPE_FUEL_NEED, 0x03, is {0, 1}.  Bitwise OR is then union, masking is  *)
(* intersection, and a meta byte is a subset of 0..7.                      *)
(***************************************************************************)
EXTENDS Integers

TYPE_NULL      == {}
TYPE_SPEED     == {0}
TYPE_FUEL      == {1}
TYPE_FUEL_NEED == {0, 1}
TYPE_LAP       == {2}
TYPE_LAPS_REM  == {0, 2}
TYPE_POS       == {1, 2}
TYPE_RPM       == {0, 1, 2}
TYPE_SHIFTLEDS == {3}
TYPE_BACKLIGHT == {0, 3}
TYPE_LAPTIME   == {4}
TYPE_DELTA     == {0, 4}
TYPE_GEAR      == {0, 1, 2, 3, 4}

\* The types with an integer header (headersInt) and with a time header
\* (headersTime); a type's header text is represented by the type itself.
IntTypes  == {TYPE_SPEED, TYPE_FUEL, TYPE_FUEL_NEED, TYPE_LAP, TYPE_LAPS_REM,
              TYPE_POS, TYPE_RPM}
TimeTypes == {TYPE_LAPTIME, TYPE_DELTA}

\* The indexes of data[] that the firmware reads; data[TYPE_NULL] stands for
\* every other index a host may write.
Entries == IntTypes \union TimeTypes
             \union {TYPE_NULL, TYPE_SHIFTLEDS, TYPE_BACKLIGHT, TYPE_GEAR}

\* uint16_t.
MaxWord == 65535
Word    == 0 .. MaxWord

\* Bit 4 of a type selects the special (time) formatting.
IsTime(type) == 4 \in type

----------------------------------------------------------------------------
\* The macros of lcd.h on a meta byte: bits 0..4 hold the type, bit 5 asks for
\* a redraw.  SET_TYPE never clears a bit.

TypeBits == 0 .. 4
REDRAW   == 5

GET_TYPE(meta)       == meta \intersect TypeBits
SET_TYPE(meta, type) == meta \union (type \intersect TypeBits)
GET_REDRAW(meta)     == REDRAW \in meta
SET_REDRAW(meta)     == meta \union {REDRAW}
RESET_REDRAW(meta)   == meta \ {REDRAW}

----------------------------------------------------------------------------
\* lcdtypes[7]: what each place of the display shows.  Place 0 is the gear;
\* places 1 and 2 are the top row, 3 and 4 the second row, 5 and 6 the third.

Places == 0 .. 6
Slots  == 1 .. 6        \* the places drawn as a header above a value

InitialTypes == [p \in Places |->
  CASE p = 0 -> TYPE_GEAR
    [] p = 1 -> TYPE_RPM
    [] p = 2 -> TYPE_SPEED
    [] p = 3 -> TYPE_POS
    [] p = 4 -> TYPE_LAP
    [] p = 5 -> TYPE_LAPTIME
    [] p = 6 -> TYPE_DELTA]

\* The buttons of the wheel the main loop acts on.
TopButton    == 0
SecondButton == 1
============================================================================
