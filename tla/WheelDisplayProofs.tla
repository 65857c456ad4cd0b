------------------------- MODULE WheelDisplayProofs -------------------------
(***************************************************************************)
(* Theorems about the whole main loop: its buttons are those of Joystick,  *)
(* its display is that of Panel, what is proved of each holds in the loop, *)
(* and an edge found by a scan is acted on.                                *)
(***************************************************************************)
EXTENDS WheelDisplay, TLAPS

\* The parts with their theorems.
JT == INSTANCE JoystickProofs
PT == INSTANCE PanelProofs WITH Changes <- SUBSET J!Pins

\* Scans return pins, so that buttonChange is a change Panel knows.
ChangesOK == pressed \in SUBSET Buttons /\ buttonChange \in SUBSET J!Pins

\* What a scan has found is acted on before the next pass begins.
NothingOwed == pc = "hid" => owed = {}

----------------------------------------------------------------------------
\* Each step of the loop is a step of the buttons, and a step of the panel or none.
LEMMA JoystickStep == ASSUME [Next]_vars PROVE [J!Next]_(J!vars)
  <1>1. CASE HidTask
    BY <1>1, Zenon DEF HidTask, HidScan, J!Next, J!HidTask
  <1>2. CASE UsbTask
    <2>1. CASE \E e \in HostEntries, v \in Words : VendorRequest(e, v)
      <3>1. J!UsbIdle
        BY <2>1, Zenon
        DEF VendorRequest, fingerAndHost, J!UsbIdle, J!busVars, J!scanVars, J!driverVars
      <3> QED
        BY <3>1, Zenon DEF J!Next, J!UsbTask
    <2>2. CASE ~ \E e \in HostEntries, v \in Words : VendorRequest(e, v)
      BY <1>2, <2>2, Zenon DEF UsbTask, J!Next, J!UsbTask
    <2> QED
      BY <2>1, <2>2
  <1>3. CASE Pass \/ ((J!AnswerAborted \/ J!World) /\ Elsewhere)
    BY <1>3, Zenon DEF Pass, J!Next
  <1>4. CASE UNCHANGED vars
    BY <1>4, Zenon
    DEF vars, joystickVars, fingerAndHost, J!vars, J!busVars, J!scanVars, J!driverVars
  <1> QED
    BY <1>1, <1>2, <1>3, <1>4 DEF Next

LEMMA PanelStep == ASSUME ChangesOK, [Next]_vars PROVE [P!Next]_(P!vars)
  <1>e. ASSUME UNCHANGED panelVars PROVE UNCHANGED P!vars
    BY <1>e, Zenon DEF panelVars, P!vars, P!labelVars
  <1>1. CASE HidTask
    BY <1>1, <1>e, Zenon DEF HidTask, HidScan, Owing, Elsewhere
  <1>2. CASE UsbTask
    <2>1. CASE \E e \in HostEntries, v \in Words : VendorRequest(e, v)
      BY <2>1, Zenon DEF VendorRequest, P!Next
    <2>2. CASE ~ \E e \in HostEntries, v \in Words : VendorRequest(e, v)
      BY <1>2, <1>e, <2>2, Zenon DEF UsbTask, Owing, Elsewhere
    <2> QED
      BY <2>1, <2>2
  <1>3. CASE Pass
    BY <1>3, Zenon DEF Pass, P!Next, ChangesOK
  <1>4. CASE (J!AnswerAborted \/ J!World) /\ Elsewhere
    BY <1>4, <1>e, Zenon DEF Elsewhere
  <1>5. CASE UNCHANGED vars
    BY <1>5, <1>e, Zenon DEF vars
  <1> QED
    BY <1>1, <1>2, <1>3, <1>4, <1>5 DEF Next

LEMMA ChangesStep == ASSUME ChangesOK, [J!Next]_(J!vars) PROVE ChangesOK'
  <1> USE DEF ChangesOK
  <1>1. J!Scanned \ prevButtonMask \in SUBSET J!Pins
    BY DEF J!Scanned, J!Pins
  <1>2. CASE J!HidTask
    BY <1>1, <1>2, Zenon
    DEF J!HidTask, J!TaskSkip, J!TaskScan, J!CreateHIDReport, J!TaskSend,
        J!TaskSendInterrupted, J!Finish, J!scanVars
  <1>3. CASE J!UsbTask
    BY <1>1, <1>3, Zenon
    DEF J!UsbTask, J!UsbIdle, J!GetReport, J!CreateHIDReport, J!SetConfiguration,
        J!SetIdle, J!AnswerEnds, J!AnswerCutOff, J!scanVars
  <1>4. CASE J!AnswerAborted \/ J!MainPass
    BY <1>4, Zenon DEF J!AnswerAborted, J!MainPass, J!scanVars
  <1>5. CASE J!World
    <2>1. CASE \E b \in Buttons : J!Finger(b)
      <3>1. pressed' \in SUBSET Buttons
        BY <2>1 DEF J!Finger
      <3> QED
        BY <2>1, <3>1, Zenon DEF J!Finger, J!scanVars
    <2>2. CASE \/ J!StartOfFrame \/ J!HostPoll \/ J!HostTakesAnswer \/ J!HostGivesUp
               \/ J!Suspend \/ J!WakeUp \/ J!Reset
      BY <2>2, Zenon
      DEF J!StartOfFrame, J!HostPoll, J!HostTakesAnswer, J!HostGivesUp, J!Suspend, J!WakeUp,
          J!Reset, J!scanVars
    <2> QED
      BY <1>5, <2>1, <2>2 DEF J!World
  <1>6. CASE UNCHANGED J!vars
    BY <1>6, Zenon DEF J!vars, J!scanVars
  <1> QED
    BY <1>2, <1>3, <1>4, <1>5, <1>6 DEF J!Next

LEMMA OwedStep ==
  ASSUME NothingOwed, [Next]_vars
  PROVE  /\ NothingOwed'
         /\ owed \subseteq buttonChange => owed' \subseteq buttonChange' \/ J!GetReport
  <1> USE DEF NothingOwed
  <1>1. CASE HidScan
    <2>1. owed = {} /\ pc' = "send" /\ owed' = owed \union (buttonChange' \intersect Buttons)
      BY <1>1 DEF HidScan, Owing, J!TaskScan
    <2> QED
      BY <2>1
  <1>2. CASE (J!TaskSkip \/ J!TaskSend \/ J!TaskSendInterrupted) /\ Elsewhere
    <2>1. pc' = "usb" /\ owed' = owed /\ buttonChange' = buttonChange
      BY <1>2, Zenon
      DEF Elsewhere, J!TaskSkip, J!TaskSend, J!TaskSendInterrupted, J!Finish, J!scanVars
    <2> QED
      BY <2>1
  <1>3. CASE UsbTask
    <2>1. CASE J!GetReport
      <3>1. pc' = "answer"
        BY <2>1, Zenon DEF J!GetReport
      <3> QED
        BY <2>1, <3>1
    <2>2. CASE ~J!GetReport
      <3>1. pc' = "main" /\ owed' = owed /\ buttonChange' = buttonChange
        BY <1>3, <2>2, Zenon
        DEF UsbTask, VendorRequest, Elsewhere, J!UsbIdle, J!SetConfiguration, J!SetIdle,
            J!AnswerEnds, J!AnswerCutOff, J!scanVars
      <3> QED
        BY <3>1
    <2> QED
      BY <2>1, <2>2
  <1>4. CASE Pass
    BY <1>4 DEF Pass
  <1>5. CASE (J!AnswerAborted \/ J!World) /\ Elsewhere
    <2>1. pc' \in {pc, "status", "vain", "main"} /\ owed' = owed /\ buttonChange' = buttonChange
      BY <1>5, Zenon
      DEF Elsewhere, J!AnswerAborted, J!World, J!Finger, J!StartOfFrame, J!HostPoll,
          J!HostTakesAnswer, J!HostGivesUp, J!Suspend, J!WakeUp, J!Reset, J!scanVars
    <2> QED
      BY <2>1
  <1>6. CASE UNCHANGED vars
    <2>1. pc' = pc /\ owed' = owed /\ buttonChange' = buttonChange
      BY <1>6, Zenon DEF vars, joystickVars
    <2> QED
      BY <2>1
  <1> QED
    BY <1>1, <1>2, <1>3, <1>4, <1>5, <1>6 DEF Next, HidTask

----------------------------------------------------------------------------
(***************************************************************************)
(* What is proved of the parts alone holds in the loop.  P is an instance  *)
(* of Panel and PT one of Panel with its theorems, and so are J and JT of  *)
(* Joystick; that they say the same, definition by definition, is what the *)
(* next lemmas are about.                                                  *)
(***************************************************************************)
\* The types, the slots and the macros of lcd.h.
LEMMA SameTypes ==
  /\ P!TYPE_NULL = PT!TYPE_NULL /\ P!TYPE_SPEED = PT!TYPE_SPEED /\ P!TYPE_FUEL = PT!TYPE_FUEL
  /\ P!TYPE_FUEL_NEED = PT!TYPE_FUEL_NEED /\ P!TYPE_LAP = PT!TYPE_LAP
  /\ P!TYPE_LAPS_REM = PT!TYPE_LAPS_REM /\ P!TYPE_POS = PT!TYPE_POS /\ P!TYPE_RPM = PT!TYPE_RPM
  /\ P!TYPE_SHIFTLEDS = PT!TYPE_SHIFTLEDS /\ P!TYPE_BACKLIGHT = PT!TYPE_BACKLIGHT
  /\ P!TYPE_LAPTIME = PT!TYPE_LAPTIME /\ P!TYPE_DELTA = PT!TYPE_DELTA /\ P!TYPE_GEAR = PT!TYPE_GEAR
  BY Zenon
  DEF P!TYPE_NULL, P!TYPE_SPEED, P!TYPE_FUEL, P!TYPE_FUEL_NEED, P!TYPE_LAP, P!TYPE_LAPS_REM,
      P!TYPE_POS, P!TYPE_RPM, P!TYPE_SHIFTLEDS, P!TYPE_BACKLIGHT, P!TYPE_LAPTIME, P!TYPE_DELTA,
      P!TYPE_GEAR, PT!TYPE_NULL, PT!TYPE_SPEED, PT!TYPE_FUEL, PT!TYPE_FUEL_NEED, PT!TYPE_LAP,
      PT!TYPE_LAPS_REM, PT!TYPE_POS, PT!TYPE_RPM, PT!TYPE_SHIFTLEDS, PT!TYPE_BACKLIGHT,
      PT!TYPE_LAPTIME, PT!TYPE_DELTA, PT!TYPE_GEAR

LEMMA SameSets ==
  /\ P!IntTypes = PT!IntTypes /\ P!TimeTypes = PT!TimeTypes /\ P!Entries = PT!Entries
  /\ P!Slots = PT!Slots /\ P!Places = PT!Places /\ P!Cells = PT!Cells /\ P!Meta = PT!Meta
  /\ P!Blank = PT!Blank /\ P!NoText = PT!NoText
  BY SameTypes
  DEF P!IntTypes, P!TimeTypes, P!Entries, P!Slots, P!Places, P!Cells, P!Meta, P!Blank,
      P!NoText, PT!IntTypes, PT!TimeTypes, PT!Entries, PT!Slots, PT!Places, PT!Cells, PT!Meta,
      PT!Blank, PT!NoText

LEMMA SameMacros ==
  /\ P!REDRAW = PT!REDRAW
  /\ \A m : /\ P!GET_TYPE(m) = PT!GET_TYPE(m)
            /\ P!GET_REDRAW(m) = PT!GET_REDRAW(m)
            /\ P!SET_REDRAW(m) = PT!SET_REDRAW(m)
            /\ P!RESET_REDRAW(m) = PT!RESET_REDRAW(m)
  /\ \A m, t : P!SET_TYPE(m, t) = PT!SET_TYPE(m, t)
  /\ \A t : P!IsTime(t) = PT!IsTime(t)
  BY DEF P!GET_TYPE, P!GET_REDRAW, P!SET_REDRAW, P!RESET_REDRAW, P!SET_TYPE, P!IsTime, P!TypeBits,
         P!REDRAW, PT!GET_TYPE, PT!GET_REDRAW, PT!SET_REDRAW, PT!RESET_REDRAW, PT!SET_TYPE,
         PT!IsTime, PT!TypeBits, PT!REDRAW

\* The labels.
LEMMA SameMarks ==
  /\ \A v : P!Marked(v) = PT!Marked(v)
  /\ \A v : P!Unmarked(v) = PT!Unmarked(v)
  /\ \A v : P!Displaced(v) = PT!Displaced(v)
  /\ \A h, t : P!Copies(h, t) = PT!Copies(h, t)
  /\ \A h, t : P!Overruns(h, t) = PT!Overruns(h, t)
  <1>1. \A v : P!Marked(v) = PT!Marked(v)
    BY SameMacros DEF P!Marked, PT!Marked
  <1>2. \A v : P!Unmarked(v) = PT!Unmarked(v)
    BY SameMacros DEF P!Unmarked, PT!Unmarked
  <1>3. \A v : P!Displaced(v) = PT!Displaced(v)
    BY SameSets DEF P!Displaced, PT!Displaced
  <1>4. \A h, t : P!Copies(h, t) = PT!Copies(h, t)
    BY SameMacros, SameTypes DEF P!Copies, PT!Copies
  <1>5. \A h, t : P!Overruns(h, t) = PT!Overruns(h, t)
    BY <1>4, SameTypes DEF P!Overruns, PT!Overruns
  <1> QED
    BY <1>1, <1>2, <1>3, <1>4, <1>5

LEMMA SameProcess ==
  /\ \A g, x : P!ProcessGear(g, x) = PT!ProcessGear(g, x)
  /\ \A h, t : P!ProcessHeader(h, t) = PT!ProcessHeader(h, t)
  /\ \A v, h, t, x : P!ProcessValue(v, h, t, x) = PT!ProcessValue(v, h, t, x)
  <1>1. \A g, x : P!ProcessGear(g, x) = PT!ProcessGear(g, x)
    BY SameMacros, SameTypes DEF P!ProcessGear, PT!ProcessGear
  <1>2. \A h, t : P!ProcessHeader(h, t) = PT!ProcessHeader(h, t)
    BY SameMacros, SameMarks DEF P!ProcessHeader, PT!ProcessHeader, P!LetterL, PT!LetterL
  <1>3. \A v, h, t, x : P!ProcessValue(v, h, t, x) = PT!ProcessValue(v, h, t, x)
    BY SameMacros DEF P!ProcessValue, PT!ProcessValue
  <1> QED
    BY <1>1, <1>2, <1>3

LEMMA SameLabels ==
  /\ \A t, r : P!GearNow(t, r) = PT!GearNow(t, r)
  /\ \A s, t, r : P!HeaderNow(s, t, r) = PT!HeaderNow(s, t, r)
  /\ \A s, t, r : P!ValueNow(s, t, r) = PT!ValueNow(s, t, r)
  <1>1. \A t, r : P!GearNow(t, r) = PT!GearNow(t, r)
    BY SameMarks, SameProcess DEF P!GearNow, PT!GearNow
  <1>2. \A s, t, r : P!HeaderNow(s, t, r) = PT!HeaderNow(s, t, r)
    BY SameMarks, SameProcess DEF P!HeaderNow, PT!HeaderNow
  <1>3. \A s, t, r : P!ValueNow(s, t, r) = PT!ValueNow(s, t, r)
    BY SameMarks, SameProcess DEF P!ValueNow, PT!ValueNow
  <1> QED
    BY <1>1, <1>2, <1>3

\* What is drawn.
LEMMA SameDrawing ==
  /\ \A n : P!Digits(n) = PT!Digits(n)
  /\ \A v : P!Content(v) = PT!Content(v)
  /\ \A v : P!Drawn(v) = PT!Drawn(v)
  <1>1. \A n : P!Digits(n) = PT!Digits(n)
    BY DEF P!Digits, PT!Digits
  <1>2. \A i, n : P!Behind(i, n) = PT!Behind(i, n) /\ P!Written(i, n) = PT!Written(i, n)
    BY <1>1, SameSets DEF P!Behind, PT!Behind, P!Written, PT!Written
  <1>3. \A v : P!Content(v) = PT!Content(v)
    BY <1>2, SameSets DEF P!Content, PT!Content
  <1>4. \A v : P!Drawn(v) = PT!Drawn(v)
    BY <1>2, SameMacros, SameSets DEF P!Drawn, PT!Drawn
  <1> QED
    BY <1>1, <1>3, <1>4

LEMMA SameUpdate == \A t, r : P!Update(t, r) = PT!Update(t, r)
  <1>1. \A t, r : P!ScreenNow(t, r) = PT!ScreenNow(t, r)
    BY SameMacros, SameLabels, SameDrawing, SameSets DEF P!ScreenNow, PT!ScreenNow
  <1> QED
    BY <1>1, SameMarks, SameLabels, SameDrawing, SameSets, SameTypes DEF P!Update, PT!Update

LEMMA SameRotation == \A t, c : P!Rotate(t, c) = PT!Rotate(t, c)
  BY SameTypes
  DEF P!Rotate, P!RotateTop, P!RotateSecond, P!TopButton, P!SecondButton,
      PT!Rotate, PT!RotateTop, PT!RotateSecond, PT!TopButton, PT!SecondButton

\* The panel.
LEMMA SamePanel == [P!Next]_(P!vars) => [PT!Next]_(PT!vars)
  <1>1. ASSUME NEW change, P!MainLoop(change) PROVE PT!MainLoop(change)
    BY <1>1, SameUpdate, SameRotation, Zenon DEF P!MainLoop, PT!MainLoop, P!labelVars, PT!labelVars
  <1>2. ASSUME NEW e, NEW v, P!Fits(e, v), P!ControlRequest(e, v)
        PROVE  PT!Fits(e, v) /\ PT!ControlRequest(e, v)
    <2>1. PT!Fits(e, v)
      BY <1>2, SameSets DEF P!Fits, PT!Fits
    <2>2. PT!ControlRequest(e, v)
      BY <1>2, Zenon DEF P!ControlRequest, PT!ControlRequest, P!labelVars, PT!labelVars
    <2> QED
      BY <2>1, <2>2
  <1>3. UNCHANGED P!vars => UNCHANGED PT!vars
    BY Zenon DEF P!vars, PT!vars, P!labelVars, PT!labelVars
  <1> QED
    BY <1>1, <1>2, <1>3, Zenon DEF P!Next, PT!Next

LEMMA SamePanelInit == P!Init => PT!Init
  <1>1. P!InitialTypes = PT!InitialTypes
    BY SameTypes, SMT DEF P!InitialTypes, PT!InitialTypes, P!Places, PT!Places
  <1> SUFFICES ASSUME P!Init PROVE PT!Init
    OBVIOUS
  <1>2. data = [e \in PT!Entries |-> IF e = PT!TYPE_BACKLIGHT THEN 512 ELSE 0]
    BY SameTypes, SameSets, SMT DEF P!Init
  <1>3. lcdtypes = PT!InitialTypes /\ updatePending = TRUE /\ leds = 0 /\ backlight = 512
    BY <1>1, SMT DEF P!Init
  <1>4. /\ gear = [meta |-> {PT!REDRAW}, number |-> 8]
        /\ header = [s \in PT!Slots |-> [meta |-> {PT!REDRAW}, number |-> 0,
                                        text |-> PT!TYPE_NULL]]
        /\ value = [s \in PT!Slots |-> [meta |-> {PT!REDRAW}, number |-> 0,
                                       text |-> PT!NoText, ink |-> {}, placed |-> TRUE]]
    BY SameTypes, SameSets, SameMacros, SMT DEF P!Init
  <1>5. screen = [gear   |-> PT!Blank,
                  header |-> [s \in PT!Slots |-> PT!TYPE_NULL],
                  value  |-> [s \in PT!Slots |->
                                [time |-> FALSE, word |-> PT!Blank, stale |-> {}]]]
    BY SameTypes, SameSets, SMT DEF P!Init
  <1> QED
    BY <1>2, <1>3, <1>4, <1>5, SMT DEF PT!Init

\* What the wheel's host writes is what the panel's may write.
LEMMA PanelAssumptions ==
  Words \subseteq PT!Word /\ HostEntries \subseteq PT!Entries /\ {} \in SUBSET J!Pins
  <1>1. Word = PT!Word
    BY DEF Word, MaxWord, PT!Word, PT!MaxWord
  <1>2. Entries = PT!Entries
    BY Zenon
    DEF TYPE_NULL, TYPE_SPEED, TYPE_FUEL, TYPE_FUEL_NEED, TYPE_LAP, TYPE_LAPS_REM,
        TYPE_POS, TYPE_RPM, TYPE_SHIFTLEDS, TYPE_BACKLIGHT, TYPE_LAPTIME, TYPE_DELTA,
        TYPE_GEAR, IntTypes, TimeTypes, Entries, PT!TYPE_NULL, PT!TYPE_SPEED,
        PT!TYPE_FUEL, PT!TYPE_FUEL_NEED, PT!TYPE_LAP, PT!TYPE_LAPS_REM, PT!TYPE_POS,
        PT!TYPE_RPM, PT!TYPE_SHIFTLEDS, PT!TYPE_BACKLIGHT, PT!TYPE_LAPTIME,
        PT!TYPE_DELTA, PT!TYPE_GEAR, PT!IntTypes, PT!TimeTypes, PT!Entries
  <1> QED
    BY <1>1, <1>2, WordsAssumption, EntriesAssumption

LEMMA PanelInvariantSays ==
  PT!IInv => P!HeadersMatch /\ P!ReadingsMatch /\ P!OutputsMatch /\ P!OnlySecondRowMoves
  <1> SUFFICES ASSUME PT!IInv
               PROVE  P!HeadersMatch /\ P!ReadingsMatch /\ P!OutputsMatch /\ P!OnlySecondRowMoves
    OBVIOUS
  <1>1. /\ PT!HeadersMatch /\ PT!ReadingsMatch /\ PT!OutputsMatch /\ PT!OnlySecondRowMoves
    BY PanelAssumptions, PT!InvariantSays
  <1>2. P!HeadersMatch
    BY <1>1, SameSets DEF P!HeadersMatch, PT!HeadersMatch
  <1>3. P!ReadingsMatch
    BY <1>1, SameSets, SameMacros, SameDrawing DEF P!ReadingsMatch, PT!ReadingsMatch
  <1>4. P!OutputsMatch
    BY <1>1, SameTypes DEF P!OutputsMatch, PT!OutputsMatch
  <1>5. P!OnlySecondRowMoves
    BY <1>1, SameSets, SameTypes DEF P!OnlySecondRowMoves, PT!OnlySecondRowMoves
  <1> QED
    BY <1>2, <1>3, <1>4, <1>5

LEMMA PanelInit == P!Init => PT!IInv
  BY PanelAssumptions, SamePanelInit, PT!InitUntouched

LEMMA PanelKept == PT!IInv /\ [P!Next]_(P!vars) => PT!IInv'
  BY PanelAssumptions, SamePanel, PT!InvarianceStep

LEMMA PanelTypes == PT!IInv => P!TypeOK
  <1> SUFFICES ASSUME PT!IInv PROVE P!TypeOK
    OBVIOUS
  <1>1. PT!TypeOK
    BY PanelAssumptions, PT!InvariantSays
  <1>2. P!Word = PT!Word
    BY DEF P!Word, P!MaxWord, PT!Word, PT!MaxWord
  <1>3. /\ P!GearLabel = PT!GearLabel /\ P!HeaderLabel = PT!HeaderLabel
        /\ P!ValueLabel = PT!ValueLabel /\ P!Drawing = PT!Drawing
    BY <1>2, SameSets, Zenon
    DEF P!GearLabel, P!HeaderLabel, P!ValueLabel, P!Drawing,
        PT!GearLabel, PT!HeaderLabel, PT!ValueLabel, PT!Drawing
  <1> QED
    BY <1>1, <1>2, <1>3, SameSets, Zenon DEF P!TypeOK, PT!TypeOK

\* The dashboard that the panel implements.
LEMMA SameDashboardInit == PT!D!Init => P!D!Init
  BY Zenon
  DEF P!D!Init, PT!D!Init, P!D!Write, P!D!Show, P!D!Shift, P!D!NextTop, P!D!NextSecond,
      P!D!NewReading, P!D!NewGear, P!D!Unread, P!D!Entries, P!D!IntTypes, P!D!TimeTypes,
      P!D!InitialTypes, P!D!Places, P!D!Slots, P!D!TopButton, P!D!SecondButton,
      P!D!TYPE_NULL, P!D!TYPE_SPEED, P!D!TYPE_FUEL, P!D!TYPE_FUEL_NEED, P!D!TYPE_LAP,
      P!D!TYPE_LAPS_REM, P!D!TYPE_POS, P!D!TYPE_RPM, P!D!TYPE_SHIFTLEDS,
      P!D!TYPE_BACKLIGHT, P!D!TYPE_LAPTIME, P!D!TYPE_DELTA, P!D!TYPE_GEAR, PT!D!Write,
      PT!D!Show, PT!D!Shift, PT!D!NextTop, PT!D!NextSecond, PT!D!NewReading,
      PT!D!NewGear, PT!D!Unread, PT!D!Entries, PT!D!IntTypes, PT!D!TimeTypes,
      PT!D!InitialTypes, PT!D!Places, PT!D!Slots, PT!D!TopButton, PT!D!SecondButton,
      PT!D!TYPE_NULL, PT!D!TYPE_SPEED, PT!D!TYPE_FUEL, PT!D!TYPE_FUEL_NEED,
      PT!D!TYPE_LAP, PT!D!TYPE_LAPS_REM, PT!D!TYPE_POS, PT!D!TYPE_RPM,
      PT!D!TYPE_SHIFTLEDS, PT!D!TYPE_BACKLIGHT, PT!D!TYPE_LAPTIME, PT!D!TYPE_DELTA,
      PT!D!TYPE_GEAR, P!Slots, PT!Slots, P!Places, PT!Places

LEMMA SameDashboard == [PT!D!Next]_(PT!D!vars) => [P!D!Next]_(P!D!vars)
  BY Zenon
  DEF P!D!Next, PT!D!Next, P!D!vars, PT!D!vars, P!D!Write, P!D!Show, P!D!Shift,
      P!D!NextTop, P!D!NextSecond, P!D!NewReading, P!D!NewGear, P!D!Unread, P!D!Entries,
      P!D!IntTypes, P!D!TimeTypes, P!D!InitialTypes, P!D!Places, P!D!Slots,
      P!D!TopButton, P!D!SecondButton, P!D!TYPE_NULL, P!D!TYPE_SPEED, P!D!TYPE_FUEL,
      P!D!TYPE_FUEL_NEED, P!D!TYPE_LAP, P!D!TYPE_LAPS_REM, P!D!TYPE_POS, P!D!TYPE_RPM,
      P!D!TYPE_SHIFTLEDS, P!D!TYPE_BACKLIGHT, P!D!TYPE_LAPTIME, P!D!TYPE_DELTA,
      P!D!TYPE_GEAR, PT!D!Write, PT!D!Show, PT!D!Shift, PT!D!NextTop, PT!D!NextSecond,
      PT!D!NewReading, PT!D!NewGear, PT!D!Unread, PT!D!Entries, PT!D!IntTypes,
      PT!D!TimeTypes, PT!D!InitialTypes, PT!D!Places, PT!D!Slots, PT!D!TopButton,
      PT!D!SecondButton, PT!D!TYPE_NULL, PT!D!TYPE_SPEED, PT!D!TYPE_FUEL,
      PT!D!TYPE_FUEL_NEED, PT!D!TYPE_LAP, PT!D!TYPE_LAPS_REM, PT!D!TYPE_POS,
      PT!D!TYPE_RPM, PT!D!TYPE_SHIFTLEDS, PT!D!TYPE_BACKLIGHT, PT!D!TYPE_LAPTIME,
      PT!D!TYPE_DELTA, PT!D!TYPE_GEAR, P!Slots, PT!Slots, P!Places, PT!Places

----------------------------------------------------------------------------
\* The buttons.
LEMMA SameJoystick == [J!Next]_(J!vars) => [JT!Next]_(JT!vars)
  <1>1. J!HidTask => JT!HidTask
    BY Zenon
    DEF J!HidTask, J!TaskSkip, J!TaskScan, J!TaskSend, J!TaskSendInterrupted, J!Finish,
        J!Sending, J!HidReady, J!CreateHIDReport, J!Scanned, J!TornReads, J!TornWrites,
        J!Decremented, J!Bytes, J!Low, J!High, J!busVars, J!scanVars, J!driverVars,
        JT!HidTask, JT!TaskSkip, JT!TaskScan, JT!TaskSend, JT!TaskSendInterrupted,
        JT!Finish, JT!Sending, JT!HidReady, JT!CreateHIDReport, JT!Scanned,
        JT!TornReads, JT!TornWrites, JT!Decremented, JT!Bytes, JT!Low, JT!High,
        JT!busVars, JT!scanVars, JT!driverVars
  <1>2. J!UsbTask => JT!UsbTask
    BY Zenon
    DEF J!UsbTask, J!UsbIdle, J!GetReport, J!SetConfiguration, J!SetIdle,
        J!AnswerEnds, J!AnswerCutOff, J!CreateHIDReport, J!Scanned, J!busVars,
        J!scanVars, J!driverVars, JT!UsbTask, JT!UsbIdle, JT!GetReport,
        JT!SetConfiguration, JT!SetIdle, JT!AnswerEnds, JT!AnswerCutOff,
        JT!CreateHIDReport, JT!Scanned, JT!busVars, JT!scanVars, JT!driverVars
  <1>3. /\ J!AnswerAborted \/ J!MainPass => JT!AnswerAborted \/ JT!MainPass
        /\ J!World => JT!World
    BY Zenon
    DEF J!AnswerAborted, J!MainPass, J!World, J!Finger, J!StartOfFrame, J!HostPoll,
        J!HostTakesAnswer, J!HostGivesUp, J!Suspend, J!WakeUp, J!Reset, J!Decremented,
        J!busVars, J!scanVars, J!driverVars, JT!AnswerAborted, JT!MainPass, JT!World,
        JT!Finger, JT!StartOfFrame, JT!HostPoll, JT!HostTakesAnswer, JT!HostGivesUp,
        JT!Suspend, JT!WakeUp, JT!Reset, JT!Decremented, JT!busVars, JT!scanVars,
        JT!driverVars
  <1>4. UNCHANGED J!vars => UNCHANGED JT!vars
    BY Zenon DEF J!vars, J!busVars, J!scanVars, J!driverVars, JT!vars, JT!busVars, JT!scanVars, JT!driverVars
  <1> QED
    BY <1>1, <1>2, <1>3, <1>4, Zenon DEF J!Next, JT!Next

LEMMA SameJoystickInit == J!Init => JT!Init
  BY Zenon DEF J!Init, JT!Init

LEMMA JoystickAssumptions ==
  /\ Buttons \intersect RowPins = {}
  /\ \A down \in SUBSET Buttons : JT!X!Scan(JT!X!PowerOn, down) = down \union RowPins
  <1>1. \A chip, down : J!X!Scan(chip, down) = JT!X!Scan(chip, down)
    BY Zenon
    DEF J!X!Scan, J!X!GPIORead, J!X!GPIOWrite, J!X!GPIOInit, J!X!GPIOSetDir, J!X!Sent,
        J!X!High, J!X!Grounded, J!X!IODIR, J!X!IPOL, J!X!GPPU, J!X!GPIO, J!X!Registers,
        J!X!Pins, J!X!ButtonPins, J!X!DrivenPins, JT!X!Scan, JT!X!GPIORead,
        JT!X!GPIOWrite, JT!X!GPIOInit, JT!X!GPIOSetDir, JT!X!Sent, JT!X!High,
        JT!X!Grounded, JT!X!IODIR, JT!X!IPOL, JT!X!GPPU, JT!X!GPIO, JT!X!Registers,
        JT!X!Pins, JT!X!ButtonPins, JT!X!DrivenPins
  <1>2. J!X!PowerOn = JT!X!PowerOn
    BY Zenon
    DEF J!X!PowerOn, J!X!Registers, J!X!IODIR, J!X!Pins, JT!X!PowerOn, JT!X!Registers,
        JT!X!IODIR, JT!X!Pins
  <1> QED
    BY <1>1, <1>2, PinsAssumption

LEMMA ButtonsInit == J!Init => JT!TypeOK /\ JT!BankIsFree /\ JT!AnswerIsSaved
  <1> USE JoystickAssumptions, FrameAssumption, IdleAssumption
  <1>1. JT!Init => JT!TypeOK
    BY JT!TypeInit
  <1>2. JT!Init => JT!BankIsFree /\ JT!AnswerIsSaved
    BY JT!BankInit, JT!AnswerInit
  <1> QED
    BY <1>1, <1>2, SameJoystickInit

LEMMA ButtonsStep ==
  ASSUME JT!TypeOK, JT!BankIsFree, [J!Next]_(J!vars)
  PROVE  /\ JT!TypeOK' /\ JT!BankIsFree'
         /\ (pc = "send" /\ bank' # bank /\ report = prevReport) => idleMS \in {0, 1, ByteBase}
  <1> USE JoystickAssumptions, FrameAssumption, IdleAssumption
  <1>1. [JT!Next]_(JT!vars)
    BY SameJoystick
  <1>2. JT!TypeOK'
    BY <1>1, JT!TypeStep
  <1>3. JT!BankIsFree'
    BY <1>1, JT!BankStep
  <1>4. ASSUME pc = "send", bank' # bank, report = prevReport
        PROVE  idleMS \in {0, 1, ByteBase}
    BY <1>1, <1>4, JT!RepeatStep
  <1> QED
    BY <1>2, <1>3, <1>4

LEMMA SameRequests ==
  /\ JT!HostIsTold <=> J!HostIsTold
  /\ JT!SetConfiguration \/ JT!HostTakesAnswer => J!SetConfiguration \/ J!HostTakesAnswer
  /\ JT!HostGivesUp \/ JT!AnswerCutOff => J!HostGivesUp \/ J!AnswerCutOff
  BY Zenon
  DEF J!HostIsTold, J!SetConfiguration, J!HostTakesAnswer, J!HostGivesUp, J!AnswerCutOff,
      J!busVars, J!scanVars, J!driverVars, JT!HostIsTold, JT!SetConfiguration,
      JT!HostTakesAnswer, JT!HostGivesUp, JT!AnswerCutOff, JT!busVars, JT!scanVars,
      JT!driverVars

LEMMA ReportsStep ==
  ASSUME JT!BankIsFree, JT!AnswerIsSaved, [J!Next]_(J!vars)
  PROVE  /\ JT!AnswerIsSaved'
         /\ J!HostIsTold => \/ J!HostIsTold'
                            \/ ~enumerated'
                            \/ bank # {} /\ (J!SetConfiguration \/ J!HostTakesAnswer)
                            \/ pc = "answer" /\ (J!HostGivesUp \/ J!AnswerCutOff)
  <1> USE JoystickAssumptions, FrameAssumption, IdleAssumption
  <1>1. [JT!Next]_(JT!vars)
    BY SameJoystick
  <1>2. JT!AnswerIsSaved'
    BY <1>1, JT!AnswerStep
  <1>3. ASSUME J!HostIsTold
        PROVE  \/ J!HostIsTold'
               \/ ~enumerated'
               \/ bank # {} /\ (J!SetConfiguration \/ J!HostTakesAnswer)
               \/ pc = "answer" /\ (J!HostGivesUp \/ J!AnswerCutOff)
    <2>1. JT!HostIsTold
      BY <1>3, SameRequests, Zenon
    <2>2. \/ JT!HostIsTold'
          \/ ~enumerated'
          \/ bank # {} /\ (JT!SetConfiguration \/ JT!HostTakesAnswer)
          \/ pc = "answer" /\ (JT!HostGivesUp \/ JT!AnswerCutOff)
      BY <1>1, <2>1, JT!ToldStep
    <2>3. JT!HostIsTold' <=> J!HostIsTold'
      BY Zenon DEF J!HostIsTold, JT!HostIsTold
    <2> QED
      BY <2>2, <2>3, SameRequests, Zenon
  <1> QED
    BY <1>2, <1>3, Zenon

LEMMA ButtonTypes == JT!TypeOK => J!TypeOK
  BY Zenon DEF J!TypeOK, JT!TypeOK, J!Report, JT!Report, J!Pins, JT!Pins, J!Idle, JT!Idle

LEMMA OwedButtons == ASSUME owed \subseteq Buttons, [Next]_vars PROVE owed' \subseteq Buttons
  <1>1. ASSUME Owing PROVE owed' \subseteq Buttons
    BY <1>1 DEF Owing
  <1>2. ASSUME owed' = owed PROVE owed' \subseteq Buttons
    BY <1>2
  <1>3. CASE HidTask
    BY <1>1, <1>2, <1>3, Zenon DEF HidTask, HidScan, Elsewhere
  <1>4. CASE UsbTask
    BY <1>1, <1>2, <1>4, Zenon DEF UsbTask, VendorRequest, Elsewhere
  <1>5. CASE Pass
    BY <1>5 DEF Pass
  <1>6. CASE ((J!AnswerAborted \/ J!World) /\ Elsewhere) \/ UNCHANGED vars
    BY <1>2, <1>6, Zenon DEF Elsewhere, vars
  <1> QED
    BY <1>3, <1>4, <1>5, <1>6 DEF Next

----------------------------------------------------------------------------
\* The theorems.

\* The loop with its display is a joystick: what is proved of the buttons without the
\* panel holds with it.
THEOREM IsJoystick == Spec => J!Init /\ [][J!Next]_(J!vars)
  <1>1. Init => J!Init
    BY DEF Init
  <1>2. [Next]_vars => [J!Next]_(J!vars)
    BY JoystickStep
  <1> QED
    BY <1>1, <1>2, PTL DEF Spec

\* The loop with its buttons is a panel: whatever buttonChange holds when a pass comes
\* is a change that Panel reckons with.
THEOREM IsPanel == Spec => P!Init /\ [][P!Next]_(P!vars)
  <1>1. Init => P!Init /\ ChangesOK
    BY DEF Init, J!Init, ChangesOK
  <1>2. ChangesOK /\ [Next]_vars => ChangesOK' /\ [P!Next]_(P!vars)
    BY JoystickStep, ChangesStep, PanelStep
  <1> QED
    BY <1>1, <1>2, PTL DEF Spec

\* An edge that a scan has found is acted on in the same pass, unless a GET_REPORT in
\* between has scanned again.
THEOREM EdgesSurvive == Spec => LostOnlyToGetReport
  <1>1. Init => NothingOwed
    BY DEF Init, NothingOwed
  <1>2. NothingOwed /\ [Next]_vars
          => /\ NothingOwed'
             /\ [owed \subseteq buttonChange => owed' \subseteq buttonChange' \/ J!GetReport]_vars
    BY OwedStep
  <1> QED
    BY <1>1, <1>2, PTL DEF Spec, LostOnlyToGetReport

\* With presses that come from scans and words that come between them, the headings,
\* readings and outputs of an up-to-date display are right, and only the second row's
\* values are ever displaced (wheel-display.c:83-92, 342-409; lcd.c:17-119).
THEOREM DisplayRight ==
  Spec => [](P!HeadersMatch /\ P!ReadingsMatch /\ P!OutputsMatch /\ P!OnlySecondRowMoves)
  BY PanelInit, PanelKept, IsPanel, PanelInvariantSays, PTL

\* The wheel implements the dashboard: what the buttons' side of the loop finds rotates
\* its rows and nothing else does (wheel-display.c:83-92, 342-409).
THEOREM IsDashboard == Spec => P!D!Init /\ [][P!D!Next]_(P!D!vars)
  <1>1. P!Init => P!D!Init
    BY PanelAssumptions, SamePanelInit, SameDashboardInit, PT!ImplementationInit
  <1>2. PT!IInv /\ [P!Next]_(P!vars) => [P!D!Next]_(P!D!vars)
    BY PanelAssumptions, SamePanel, SameDashboard, PT!ImplementationStep
  <1> QED
    BY <1>1, <1>2, PanelInit, PanelKept, IsPanel, PTL

\* An unchanged report is repeated at the end of its idle period, or up to a high byte's
\* worth, 256 ms, early when the frame interrupt makes the count read as zero, also in a
\* loop that has a display to draw (HIDClassDevice.c:175-195).
THEOREM RepeatsRight == Spec => J!RepeatsNearIdle
  <1>1. JT!TypeOK /\ JT!BankIsFree /\ [J!Next]_(J!vars)
          => /\ JT!TypeOK' /\ JT!BankIsFree'
             /\ [(pc = "send" /\ bank' # bank /\ report = prevReport)
                   => idleMS \in {0, 1, ByteBase}]_(J!vars)
    BY ButtonsStep
  <1> QED
    BY <1>1, ButtonsInit, IsJoystick, PTL DEF J!RepeatsNearIdle

\* A report that the driver believes told is with the host or on its way, also in a loop
\* that has a display to draw, unless a reset, a SET_CONFIGURATION, an older report in the
\* bank or a GET_REPORT that the host does not see through has taken it
\* (HIDClassDevice.c:60-72, 175-195).
THEOREM ReportsReachHost == Spec => J!ReportsAreTold
  <1>1. JT!TypeOK /\ JT!BankIsFree /\ [J!Next]_(J!vars) => JT!TypeOK' /\ JT!BankIsFree'
    BY ButtonsStep
  <1>2. JT!BankIsFree /\ JT!AnswerIsSaved /\ [J!Next]_(J!vars)
          => /\ JT!AnswerIsSaved'
             /\ [J!HostIsTold => \/ J!HostIsTold'
                                 \/ ~enumerated'
                                 \/ bank # {} /\ (J!SetConfiguration \/ J!HostTakesAnswer)
                                 \/ pc = "answer" /\ (J!HostGivesUp \/ J!AnswerCutOff)]_(J!vars)
    BY ReportsStep
  <1> QED
    BY <1>1, <1>2, ButtonsInit, IsJoystick, PTL DEF J!ReportsAreTold

\* Every variable of the loop keeps its type, and only buttons are owed to the panel
\* (wheel-display.c:138-146, 342-409).
THEOREM TypeCorrect == Spec => []TypeOK
  <1>1. Init => owed \subseteq Buttons
    BY DEF Init
  <1>2. owed \subseteq Buttons /\ [Next]_vars => (owed \subseteq Buttons)'
    BY OwedButtons
  <1>3. JT!TypeOK /\ JT!BankIsFree /\ [J!Next]_(J!vars) => JT!TypeOK' /\ JT!BankIsFree'
    BY ButtonsStep
  <1>4. JT!TypeOK /\ PT!IInv /\ owed \subseteq Buttons => TypeOK
    BY ButtonTypes, PanelTypes DEF TypeOK
  <1> QED
    BY <1>1, <1>2, <1>3, <1>4, ButtonsInit, IsJoystick, PanelInit, PanelKept, IsPanel, PTL DEF Spec
=============================================================================
