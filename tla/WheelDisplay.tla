---------------------------- MODULE WheelDisplay ----------------------------
(***************************************************************************)
(* The whole main loop: the HID task and the USB task of Joystick, and the *)
(* button and update branches of Panel, which read the edges that the last *)
(* scan of the buttons has left in buttonChange.  A pass is                *)
(* Audio_Device_USBTask (which does nothing), HID_Device_USBTask,          *)
(* USB_USBTask, "if(buttonChange)", "if(updatePending)".                   *)
(***************************************************************************)
EXTENDS Message

CONSTANTS Buttons, RowPins, FrameMod, ByteBase, IdleDefault, IdleRequests,
          Words, HostEntries

VARIABLES pressed, deviceState, enumerated, frame, pc, report, prevButtonMask,
          buttonChange, prevReport, prevFrameNum, idleCount, idleMS, bank, hostReport
VARIABLES data, updatePending, lcdtypes, gear, header, value, screen, leds, backlight
VARIABLE owed     \* history: edges a scan has found and no pass has acted on yet

J == INSTANCE Joystick
P == INSTANCE Panel WITH Changes <- SUBSET J!Pins

\* The assumptions of Joystick and of Panel.
ASSUME PinsAssumption   ==
  /\ Buttons \intersect RowPins = {}
  /\ \A down \in SUBSET Buttons : J!X!Scan(J!X!PowerOn, down) = down \union RowPins
ASSUME FrameAssumption  == FrameMod \in Nat /\ FrameMod > 1
ASSUME IdleAssumption   ==
  /\ ByteBase \in Nat /\ ByteBase > 1
  /\ IdleRequests \union {IdleDefault} \subseteq 0 .. ByteBase * ByteBase - 1
ASSUME WordsAssumption   == Words \subseteq Word
ASSUME EntriesAssumption == HostEntries \subseteq Entries

fingerAndHost == <<pressed, hostReport, bank>>
joystickVars == <<fingerAndHost, deviceState, enumerated, frame, pc, report, prevButtonMask,
                  buttonChange, prevReport, prevFrameNum, idleCount, idleMS>>
panelVars == <<data, updatePending, lcdtypes, gear, header, value, screen, leds, backlight>>
vars == <<joystickVars, panelVars, owed>>

TypeOK == J!TypeOK /\ P!TypeOK /\ owed \subseteq Buttons

Init == J!Init /\ P!Init /\ owed = {}

----------------------------------------------------------------------------
\* CALLBACK_HID_Device_CreateHIDReport owes the panel the edges it saves.
Owing     == owed' = owed \union (buttonChange' \intersect Buttons) /\ UNCHANGED panelVars
Elsewhere == UNCHANGED <<panelVars, owed>>

HidScan == J!TaskScan /\ Owing
HidTask ==
  \/ HidScan
  \/ (J!TaskSkip \/ J!TaskSend \/ J!TaskSendInterrupted) /\ Elsewhere

\* The vendor request, which the USB task hands to the application.
VendorRequest(e, v) ==
  /\ pc = "usb" /\ deviceState # "Unattached"
  /\ P!Fits(e, v) /\ P!ControlRequest(e, v)
  /\ pc' = "main"
  /\ UNCHANGED <<fingerAndHost, deviceState, enumerated, frame, report, prevButtonMask,
                 buttonChange, prevReport, prevFrameNum, idleCount, idleMS, owed>>

UsbTask ==
  \/ J!GetReport /\ Owing
  \/ (J!UsbIdle \/ J!SetConfiguration \/ \E n \in IdleRequests : J!SetIdle(n)) /\ Elsewhere
  \/ (J!AnswerEnds \/ J!AnswerCutOff) /\ Elsewhere
  \/ \E e \in HostEntries, v \in Words : VendorRequest(e, v)

\* The rest of the pass.
Pass ==
  /\ J!MainPass
  /\ P!MainLoop(buttonChange)
  /\ owed' = {}

Next == HidTask \/ UsbTask \/ Pass \/ ((J!AnswerAborted \/ J!World) /\ Elsewhere)

\* The fairness of the parts.
Spec ==
  /\ Init /\ [][Next]_vars
  /\ WF_vars(HidTask) /\ WF_vars(UsbTask) /\ WF_vars(Pass)
  /\ WF_vars(J!StartOfFrame /\ Elsewhere) /\ WF_vars(J!HostPoll /\ Elsewhere)
  /\ WF_vars(J!HostTakesAnswer /\ Elsewhere)
  /\ SF_vars(HidScan)

----------------------------------------------------------------------------
\* A wheel at rest stays on one page: once the fingers rest and the host stays
\* on the bus, the rows no longer rotate, although nothing but another scan
\* clears buttonChange (wheel-display.c:348-395, 142).
RowsRest ==
  (\E held \in SUBSET Buttons : J!Calm(held)) => <>[][lcdtypes' = lcdtypes]_vars

\* Presses of the first button that the HID task sees rotate the top row: if it
\* sees them again and again the row rotates again and again, as long as no
\* GET_REPORT scans in between (wheel-display.c:142, 351-366).
PressesRotate ==
  (/\ <>[][~J!GetReport]_vars
   /\ []<><<J!TaskScan /\ TopButton \in pressed \ prevButtonMask>>_vars)
     => []<><<lcdtypes'[1] # lcdtypes[1]>>_vars

\* "save rising edge" and "first button rotates top row" (wheel-display.c:141,
\* 351): a pass acts on a button only for an edge found since the last pass.
\* The code keeps acting on it until another scan.
OncePerPress == [][Pass => buttonChange \intersect Buttons \subseteq owed]_vars

\* "catch button presses for internal functions" (wheel-display.c:349): from the scan
\* that finds an edge to the pass that acts on it nothing loses it, except a
\* GET_REPORT in between, which scans again (HIDClassDevice.c:60).
LostOnlyToGetReport ==
  [][owed \subseteq buttonChange => owed' \subseteq buttonChange' \/ J!GetReport]_vars
============================================================================
