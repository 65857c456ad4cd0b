----------------------------- MODULE Joystick ------------------------------
(***************************************************************************)
(* The buttons of the wheel: the scan of the button matrix                 *)
(* (CALLBACK_HID_Device_CreateHIDReport), the HID class driver that sends  *)
(* the scans to the host (HIDClassDevice.c), the Start Of Frame interrupt  *)
(* that counts down its idle period, and the bus events that configure,    *)
(* reset and suspend it.  pc is the main loop's place: the HID task, which *)
(* is split where an interrupt may hit it, the USB task, which is split    *)
(* where a GET_REPORT waits for the host, and the rest.                    *)
(*                                                                         *)
(* A report is the set of pins that read 1.  Addressed, Powered and        *)
(* Default are one device state here, "Default": attached, not configured. *)
(***************************************************************************)
EXTENDS Integers

CONSTANTS
  Buttons,      \* pins 0..3 of the GPIO expander: the buttons that exist
  RowPins,      \* pins 4..7, driven by GPIOWrite and read back as 1
  FrameMod,     \* frame numbers wrap here (2048)
  ByteBase,     \* the values of one byte (256)
  IdleDefault,  \* the idle period after enumeration (500 ms)
  IdleRequests  \* the idle periods a host asks for (wValue high byte * 4)

X == INSTANCE Expander

\* The scan of the expander: the rows read back as 1, and so does a button that is down.
ASSUME PinsAssumption  == /\ Buttons \intersect RowPins = {}
                          /\ \A down \in SUBSET Buttons : X!Scan(X!PowerOn, down) = down \union RowPins
ASSUME FrameAssumption == FrameMod \in Nat /\ FrameMod > 1
ASSUME IdleAssumption  == /\ ByteBase \in Nat /\ ByteBase > 1
                          /\ IdleRequests \union {IdleDefault} \subseteq 0 .. ByteBase * ByteBase - 1

Pins   == Buttons \union RowPins
Report == SUBSET Pins

VARIABLES
  pressed,         \* the buttons held down
  deviceState,     \* USB_DeviceState
  enumerated,      \* addressed, with the endpoints configured
  frame,           \* UDFNUM
  pc,              \* the main loop's place
  report,          \* ReportINData or ReportData, while the call that has it runs
  prevButtonMask, buttonChange,
  prevReport,      \* PrevReportINBuffer
  prevFrameNum, idleCount, idleMS,   \* the driver's State
  bank,            \* the report in the IN endpoint's bank, if any
  hostReport       \* the last report the host has taken

scanVars  == <<report, prevButtonMask, buttonChange>>
driverVars == <<prevReport, prevFrameNum, idleCount, idleMS>>
busVars   == <<deviceState, enumerated, frame>>
vars == <<pressed, busVars, pc, scanVars, driverVars, bank, hostReport>>

Idle == 0 .. ByteBase * ByteBase - 1

TypeOK ==
  /\ pressed \in SUBSET Buttons
  /\ deviceState \in {"Unattached", "Default", "Configured"}
  /\ enumerated \in BOOLEAN
  /\ frame \in 0 .. FrameMod - 1 /\ prevFrameNum \in 0 .. FrameMod - 1
  /\ pc \in {"hid", "send", "usb", "answer", "status", "vain", "main"}
  /\ {report, prevButtonMask, buttonChange, prevReport, hostReport} \subseteq Report
  /\ idleCount \in Idle /\ idleMS \in Idle
  /\ \E r \in Report : bank \in {{}, {r}}

Init ==
  /\ pressed \in SUBSET Buttons
  /\ deviceState = "Unattached" /\ enumerated = FALSE
  /\ frame = 0 /\ prevFrameNum = 0
  /\ pc = "hid"
  /\ report = {} /\ prevButtonMask = {} /\ buttonChange = {}
  /\ prevReport = {} /\ hostReport = {}
  /\ idleCount = 0 /\ idleMS = 0
  /\ bank = {}

----------------------------------------------------------------------------
\* What GPIORead returns after GPIOWrite(0, 1), by PinsAssumption.
Scanned == pressed \union RowPins

\* Mutant: what is down instead of what has gone down.
CreateHIDReportLevel ==
  /\ buttonChange' = Scanned
  /\ prevButtonMask' = Scanned

\* CALLBACK_HID_Device_CreateHIDReport: read the pins, save the rising edges.
CreateHIDReport ==
  /\ buttonChange' = Scanned \ prevButtonMask
  /\ prevButtonMask' = Scanned

\* Mutant: without the test for zero.
DecrementedAlways(n) == n - 1

\* HID_Device_MillisecondElapsed.
Decremented(n) == IF n > 0 THEN n - 1 ELSE 0

\* A 16-bit access is two byte accesses: what is read, or left, when a decrement
\* comes between them, for either order of the bytes.
Low(n)  == n % ByteBase
High(n) == n \div ByteBase
Bytes(high, low) == high * ByteBase + low
TornReads(n) == {n, Decremented(n), Bytes(High(Decremented(n)), Low(n)),
                 Bytes(High(n), Low(Decremented(n)))}
TornWrites(old, new) ==
  {new, Decremented(new),
   Bytes(High(new), Low(Decremented(Bytes(High(old), Low(new))))),
   Bytes(High(Decremented(Bytes(High(new), Low(old)))), Low(new))}

----------------------------------------------------------------------------
\* HID_Device_USBTask.

HidReady ==
  /\ deviceState = "Configured"
  /\ prevFrameNum # frame
  /\ enumerated /\ bank = {}      \* Endpoint_IsReadWriteAllowed

TaskSkip ==
  /\ pc = "hid" /\ ~HidReady
  /\ pc' = "usb"
  /\ UNCHANGED <<pressed, busVars, scanVars, driverVars, bank, hostReport>>

TaskScan ==
  /\ pc = "hid" /\ HidReady
  /\ CreateHIDReport
  /\ report' = Scanned
  /\ pc' = "send"
  /\ UNCHANGED <<pressed, busVars, driverVars, bank, hostReport>>

\* Mutant: only changes are sent.
SendingChanges(seen) == report # prevReport

\* Mutant: the report is sent a millisecond early.
SendingEarly(seen) == report # prevReport \/ (idleCount # 0 /\ seen <= 1)

\* Mutant: a change waits for the idle period.
SendingIdle(seen) == idleCount # 0 /\ seen = 0

\* Is the report due, when the task has read seen for IdleMSRemaining?
Sending(seen) == report # prevReport \/ (idleCount # 0 /\ seen = 0)

\* The rest of the task: compare, save the report and, if it is due, reload the
\* idle count and fill the bank.  A bus reset since the gate has taken the
\* endpoint away.
Finish(seen, idleSent, idleKept) ==
  /\ prevReport' = report
  /\ report' = {}
  /\ \/ /\ Sending(seen)
        /\ idleMS' = idleSent
        /\ bank' = IF enumerated THEN {report} ELSE bank
     \/ /\ ~Sending(seen)
        /\ idleMS' = idleKept
        /\ UNCHANGED bank
  /\ prevFrameNum' = frame'
  /\ pc' = "usb"
  /\ UNCHANGED <<pressed, deviceState, enumerated, prevButtonMask, buttonChange, idleCount,
                 hostReport>>

TaskSend ==
  /\ pc = "send"
  /\ UNCHANGED frame
  /\ Finish(idleMS, idleCount, idleMS)

\* The Start Of Frame interrupt may hit the task while it reads the idle count
\* or while it writes it.
TaskSendInterrupted ==
  /\ pc = "send"
  /\ deviceState # "Unattached"
  /\ frame' = (frame + 1) % FrameMod
  /\ \/ \E seen \in TornReads(idleMS) : Finish(seen, idleCount, Decremented(idleMS))
     \/ \E left \in TornWrites(idleMS, idleCount) : Finish(idleMS, left, Decremented(idleMS))

----------------------------------------------------------------------------
\* USB_USBTask: at most one control request.

\* Mutant: the edges are cleared before the button branch has seen them.
UsbIdleClears ==
  /\ pc = "usb"
  /\ pc' = "main"
  /\ buttonChange' = {}
  /\ UNCHANGED <<pressed, busVars, report, prevButtonMask, driverVars, bank, hostReport>>

UsbIdle ==
  /\ pc = "usb"
  /\ pc' = "main"
  /\ UNCHANGED <<pressed, busVars, scanVars, driverVars, bank, hostReport>>

\* HID_REQ_GetReport: a scan of its own, which is saved before the stream sends it.
GetReport ==
  /\ pc = "usb" /\ deviceState # "Unattached"
  /\ CreateHIDReport
  /\ report' = Scanned
  /\ prevReport' = Scanned
  /\ pc' = "answer"
  /\ UNCHANGED <<pressed, busVars, prevFrameNum, idleCount, idleMS, bank, hostReport>>

\* Endpoint_Write_Control_Stream_LE returns: with the OUT packet of the status stage.
AnswerEnds ==
  /\ pc = "status"
  /\ report' = {}
  /\ pc' = "main"
  /\ UNCHANGED <<pressed, busVars, prevButtonMask, buttonChange, driverVars, bank, hostReport>>

\* Or in either of its loops because the bus is suspended, whoever has the report.
AnswerCutOff ==
  /\ pc \in {"answer", "status", "vain"} /\ deviceState = "Unattached"
  /\ report' = {}
  /\ pc' = "main"
  /\ UNCHANGED <<pressed, busVars, prevButtonMask, buttonChange, driverVars, bank, hostReport>>

\* Or because the host has begun anew: with the SETUP packet that the loop for the
\* data looks for, or an OUT packet.  The loop for the status stage does not look for
\* SETUP packets and may wait for ever, see ControlPipe.tla.
AnswerAborted ==
  /\ pc = "vain"
  /\ report' = {}
  /\ pc' = "main"
  /\ UNCHANGED <<pressed, busVars, prevButtonMask, buttonChange, driverVars, bank, hostReport>>

SetIdle(n) ==
  /\ pc = "usb" /\ deviceState # "Unattached"
  /\ idleCount' = n
  /\ pc' = "main"
  /\ UNCHANGED <<pressed, busVars, scanVars, prevReport, prevFrameNum, idleMS, bank, hostReport>>

\* USB_Device_SetConfiguration and HID_Device_ConfigureEndpoints.  Configuration
\* 0 of an addressed device ends in DEVICE_STATE_Configured as well.
SetConfiguration ==
  /\ pc = "usb" /\ deviceState # "Unattached"
  /\ deviceState' = "Configured" /\ enumerated' = TRUE
  /\ prevFrameNum' = 0 /\ idleMS' = 0
  /\ idleCount' = IdleDefault
  /\ bank' = {}
  /\ pc' = "main"
  /\ UNCHANGED <<pressed, frame, scanVars, prevReport, hostReport>>

\* The button and update branches of main, which only read buttonChange.
MainPass ==
  /\ pc = "main"
  /\ pc' = "hid"
  /\ UNCHANGED <<pressed, busVars, scanVars, driverVars, bank, hostReport>>

----------------------------------------------------------------------------
\* The world: fingers, the host's polls, the bus (ISR(USB_GEN_vect)).

Finger(b) ==
  /\ pressed' = IF b \in pressed THEN pressed \ {b} ELSE pressed \union {b}
  /\ UNCHANGED <<busVars, pc, scanVars, driverVars, bank, hostReport>>

\* A pass of the loop that does not wait for the host is far shorter than the 2048 ms
\* in which the frame number comes back to the one the HID task has seen.
StartOfFrame ==
  /\ deviceState # "Unattached"
  /\ \/ pc \in {"hid", "answer", "status", "vain"}
     \/ (frame + 1) % FrameMod # prevFrameNum
  /\ frame' = (frame + 1) % FrameMod
  /\ idleMS' = Decremented(idleMS)
  /\ UNCHANGED <<pressed, deviceState, enumerated, pc, scanVars, prevReport, prevFrameNum,
                 idleCount, bank, hostReport>>

HostPoll ==
  /\ bank # {} /\ deviceState # "Unattached"
  /\ hostReport' \in bank
  /\ bank' = {}
  /\ UNCHANGED <<pressed, busVars, pc, scanVars, driverVars>>

\* The host takes the report that a GET_REPORT sends, and answers with the status stage.
HostTakesAnswer ==
  /\ pc = "answer" /\ deviceState # "Unattached"
  /\ hostReport' = report
  /\ pc' = "status"
  /\ UNCHANGED <<pressed, busVars, scanVars, driverVars, bank>>

\* The host gives the transfer up and begins another one, or ends it without the data.
HostGivesUp ==
  /\ pc \in {"answer", "status"} /\ deviceState # "Unattached"
  /\ pc' = "vain"
  /\ UNCHANGED <<pressed, busVars, scanVars, driverVars, bank, hostReport>>

Suspend ==
  /\ deviceState # "Unattached"
  /\ deviceState' = "Unattached"
  /\ UNCHANGED <<pressed, enumerated, frame, pc, scanVars, driverVars, bank, hostReport>>

WakeUp ==
  /\ deviceState = "Unattached"
  /\ deviceState' = IF enumerated THEN "Configured" ELSE "Default"
  /\ UNCHANGED <<pressed, enumerated, frame, pc, scanVars, driverVars, bank, hostReport>>

Reset ==
  /\ deviceState # "Unattached"
  /\ deviceState' = "Default" /\ enumerated' = FALSE
  /\ bank' = {}
  /\ pc' = IF pc \in {"answer", "status"} THEN "vain" ELSE pc
  /\ UNCHANGED <<pressed, frame, scanVars, driverVars, hostReport>>

World ==
  \/ \E b \in Buttons : Finger(b)
  \/ StartOfFrame \/ HostPoll \/ HostTakesAnswer \/ HostGivesUp
  \/ Suspend \/ WakeUp \/ Reset

HidTask == TaskSkip \/ TaskScan \/ TaskSend \/ TaskSendInterrupted
UsbTask == \/ UsbIdle \/ GetReport \/ SetConfiguration \/ \E n \in IdleRequests : SetIdle(n)
           \/ AnswerEnds \/ AnswerCutOff

Next == HidTask \/ UsbTask \/ AnswerAborted \/ MainPass \/ World

\* The loop runs on, but not out of a transfer that the host has given up; frames come
\* while the bus is up, and the host polls the endpoint and takes its answers.  For the
\* same reason as above the HID task does not find the same frame number in pass after
\* pass.
Fairness ==
  /\ WF_vars(HidTask) /\ WF_vars(UsbTask) /\ WF_vars(MainPass)
  /\ WF_vars(StartOfFrame) /\ WF_vars(HostPoll) /\ WF_vars(HostTakesAnswer)
  /\ SF_vars(TaskScan)

Spec == Init /\ [][Next]_vars /\ Fairness

----------------------------------------------------------------------------
\* From some time on no finger moves, and the host stays on the bus, gives no transfer
\* up and leaves the configuration alone (a request without effect is no different
\* from none).
Calm(held) ==
  /\ <>[](pc # "vain")
  /\ <>[](pressed = held /\ deviceState = "Configured" /\ enumerated)
  /\ <>[][SetConfiguration => UsbIdle]_vars

\* The host learns which buttons are held once the fingers rest, as long as it
\* has not switched idle reports off: a report lost to a reset or with a GET_REPORT,
\* overtaken by one or compared against a stale buffer is made good when the idle
\* period ends (HIDClassDevice.c:60-72, 175-195, HIDClassDevice.h:197-202).
HostLearns ==
  \A held \in SUBSET Buttons :
    Calm(held) /\ <>[](idleCount # 0) => <>[](hostReport = held \union RowPins)

\* A button that stays down stops acting: its edge disappears from buttonChange,
\* which only another scan clears (wheel-display.c:141-143, 348).
HeldButtonRests ==
  \A held \in SUBSET Buttons : Calm(held) => <>[](buttonChange = {})

\* The driver takes prevReport for what the host knows: the host has it, or finds it
\* in the bank, or is about to get it as the answer to a GET_REPORT.
HostIsTold == \/ pc = "answer"
              \/ IF bank = {} THEN hostReport = prevReport ELSE bank = {prevReport}

\* A report that the driver believes told is told (HIDClassDevice.c:60-72, 175-195):
\* what it saves in PrevReportINBuffer goes to the host or into the bank, unless the
\* host has it already, and stays there until the host takes it, wherever frames and
\* polls come.  It can be lost in four ways: to a bus reset; to a SET_CONFIGURATION that
\* empties the bank; behind an older report in the bank, which the host takes after the
\* answer to a GET_REPORT; and with a GET_REPORT, saved at line 64, that the host gives
\* up or a suspend cuts off before the host has taken the answer of line 71.
ReportsAreTold ==
  [][HostIsTold => \/ HostIsTold'
                   \/ ~enumerated'
                   \/ bank # {} /\ (SetConfiguration \/ HostTakesAnswer)
                   \/ pc = "answer" /\ (HostGivesUp \/ AnswerCutOff)]_vars

\* "Total number of milliseconds remaining before the idle period elapsed"
\* (HIDClassDevice.h:118): a report that has not changed goes out when that number
\* is zero, or becomes zero in the frame that starts meanwhile.  A torn count reads
\* as zero in one other case, when all that is left is a one in the high byte
\* (HIDClassDevice.c:175-195).
RepeatsNearIdle ==
  [][(pc = "send" /\ bank' # bank /\ report = prevReport) => idleMS \in {0, 1, ByteBase}]_vars
============================================================================
