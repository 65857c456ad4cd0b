----------------------------- MODULE Dashboard -----------------------------
(***************************************************************************)
(* What the wheel display promises, without labels, type bits or redraw    *)
(* flags: two rows that a button shifts by one place, headings that always *)
(* name what the row has been set to, and readings taken from the last     *)
(* words the host wrote.  Panel.tla is shown to implement it.              *)
(*                                                                         *)
(* Four limits of the code are part of the promise: a reading that becomes *)
(* 0 keeps its former value, a gear above 8 is not shown, the LEDs take    *)
(* seven bits, and a slot that has once been set to "fuel need" is lost:   *)
(* its reading stays as it is.  Nothing is promised of the digits behind a *)
(* reading, nor of what a lost slot draws over others.                     *)
(***************************************************************************)
EXTENDS Message

CONSTANTS Words, HostEntries, Changes

VARIABLES
  data,       \* the last word written to each entry
  stale,      \* the display has not been brought up to date since
  row,        \* the type each place is set to
  heading,    \* the type each slot is headed with
  reading,    \* the word each place shows
  lost,       \* the slots that are not read any more
  outputs     \* the LED port and the backlight compare value

vars == <<data, stale, row, heading, reading, lost, outputs>>

Unread == -1

Init ==
  /\ data = [e \in Entries |-> IF e = TYPE_BACKLIGHT THEN 512 ELSE 0]
  /\ stale = TRUE
  /\ row = InitialTypes
  /\ heading = [s \in Slots |-> TYPE_NULL]
  /\ reading = [p \in Places |-> Unread]
  /\ lost = {}
  /\ outputs = [leds |-> 0, backlight |-> 512]

\* The tour each row makes: what comes into its left place after t.
NextTop(t) ==
  CASE t = TYPE_RPM -> TYPE_POS [] t = TYPE_POS -> TYPE_SPEED [] OTHER -> TYPE_RPM

NextSecond(t) ==
  CASE t = TYPE_FUEL_NEED -> TYPE_FUEL
    [] t = TYPE_FUEL      -> TYPE_LAP
    [] t = TYPE_LAP       -> TYPE_LAPS_REM
    [] OTHER              -> TYPE_FUEL_NEED

\* A press shifts a row: its left place moves to the right.  The position the
\* second row starts with is not on its tour and counts as "laps to go".
Shift(r, change) ==
  [p \in Places |->
     CASE p = 1 /\ TopButton \in change    -> NextTop(r[1])
       [] p = 2 /\ TopButton \in change    -> r[1]
       [] p = 3 /\ SecondButton \in change -> NextSecond(r[3])
       [] p = 4 /\ SecondButton \in change -> IF r[3] = TYPE_POS THEN TYPE_LAPS_REM
                                                               ELSE r[3]
       [] OTHER                            -> r[p]]

\* A place keeps its reading when the new word cannot be shown.
NewReading(old, word) ==
  IF word = 0 /\ old # Unread THEN old ELSE word

NewGear(old, word) ==
  IF word < 9 THEN word ELSE IF old = Unread THEN 8 ELSE old

Write(e, v) ==
  /\ data' = [data EXCEPT ![e] = v]
  /\ stale' = (stale \/ data[e] # v)
  /\ UNCHANGED <<row, heading, reading, lost, outputs>>

Show(change) ==
  /\ change # {} \/ stale
  /\ row' = Shift(row, change)
  /\ stale' = FALSE
  /\ heading' = [s \in Slots |-> row'[s]]
  /\ lost' = lost \union {s \in Slots : row'[s] = TYPE_FUEL_NEED}
  /\ reading' = [p \in Places |->
       CASE p = 0       -> NewGear(reading[0], data[row'[0]])
         [] p \in lost' -> reading[p]
         [] OTHER       -> NewReading(reading[p], data[row'[p]])]
  /\ outputs' = [leds |-> data[TYPE_SHIFTLEDS] % 128,
                 backlight |-> data[TYPE_BACKLIGHT]]
  /\ UNCHANGED data

Next ==
  \/ \E e \in HostEntries, v \in Words : Write(e, v)
  \/ \E change \in Changes : Show(change)

\* A display that is out of date is shown anew.
Spec == Init /\ [][Next]_vars /\ WF_vars(stale /\ \E change \in Changes : Show(change))
============================================================================
