---------------------------- MODULE AudioStream ----------------------------
(***************************************************************************)
(* The microphone stream: the main loop computes samples, the timer        *)
(* interrupt (ISR(TIMER0_COMPA_vect)) puts them into the audio endpoint,   *)
(* the host takes full packets.  There is one register for the selected    *)
(* endpoint, UENUM: the HID task, the USB task and both interrupts set it, *)
(* and whatever accesses an endpoint accesses the selected one.            *)
(*                                                                         *)
(* pc is the main loop's place; its steps are what an interrupt cannot     *)
(* divide as far as the selected endpoint goes.  Powered, Default and      *)
(* Addressed are one device state here, "Default".  Packets are short and  *)
(* carry marks of their origin.                                            *)
(***************************************************************************)
EXTENDS Integers, Sequences

CONSTANTS
  Outputs,      \* what nlms returns, as 16-bit words
  Rates,        \* the sampling rates a host sets
  OfferedRate,  \* CurrentAudioSampleFrequency at start
  Ticks,        \* timer ticks in a second (F_CPU / 8)
  ByteBase,     \* the values of one byte of a sample (256)
  TimerBase,    \* the values of OCR0A (256)
  PacketSize    \* samples in a packet (AUDIO_STREAM_EPSIZE / 2)

ASSUME SampleAssumption == /\ ByteBase \in Nat /\ ByteBase > 1
                           /\ Outputs \subseteq 0 .. ByteBase * ByteBase - 1
ASSUME TimerAssumption  == /\ Ticks \in Nat \ {0} /\ TimerBase \in Nat /\ TimerBase > 1
                           /\ Rates \union {OfferedRate} \subseteq Nat
ASSUME PacketAssumption == PacketSize \in Nat \ {0}

Banks == 2     \* ENDPOINT_BANK_DOUBLE

VARIABLES
  deviceState,       \* USB_DeviceState
  addressed,         \* USB_Device_ConfigurationNumber or UDADDR is not zero
  suspi,             \* the suspend interrupt is enabled, else the wake-up interrupt
  frozen,            \* the USB clock is frozen
  selected,          \* UENUM
  types,             \* how each endpoint is configured
  pc,                \* the main loop's place
  prevEndpoint,      \* what USB_DeviceTask will restore
  config,            \* what Endpoint_ConfigureEndpoint_Prv is about to write
  held,              \* history: no reset since the main loop last selected
  late,              \* history: a reset has overtaken a SET_CONFIGURATION that was then
                     \* carried out, and neither a request nor a reset has come since
  interfaceEnabled,  \* Microphone_Audio_Interface.State.InterfaceEnabled
  timer,             \* the sample timer runs
  rate,              \* CurrentAudioSampleFrequency
  compare,           \* OCR0A
  audioSample,
  outputs,           \* history: the filter's last two outputs
  fifo,              \* what the audio endpoint's current bank holds
  queued,            \* its banks that wait for the host
  hidBank,           \* a report waits in the joystick endpoint
  controlIn          \* a packet waits in endpoint 0 that no request asked for

mainVars   == <<pc, prevEndpoint, config, held, late>>
busVars    == <<deviceState, addressed, suspi, frozen>>
timerVars  == <<timer, rate, compare>>
sampleVars == <<audioSample, outputs>>
bankVars   == <<fifo, queued, hidBank, controlIn>>
vars == <<mainVars, busVars, selected, types, interfaceEnabled, timerVars, sampleVars, bankVars>>

Endpoints == {"control", "joystick", "audio"}

HidPlaces       == {"hid", "check", "scan", "write", "clear"}
UsbPlaces       == {"usb", "select", "setup", "interface", "restore"}
ConfigurePlaces == {"number", "status", "choose", "configured", "unconfigured",
                    "selectJoystick", "writeJoystick", "selectAudio", "readAudio",
                    "rewriteAudio", "clearState", "selectAudioAgain", "writeAudio"}
SamplePlaces    == {"filter", "store", "storeRest"}

TypeOK ==
  /\ deviceState \in {"Unattached", "Default", "Configured"}
  /\ {addressed, suspi, frozen, held, late, interfaceEnabled, timer, hidBank, controlIn} \subseteq BOOLEAN
  /\ {selected, prevEndpoint} \subseteq Endpoints
  /\ types \in [Endpoints -> Endpoints \union {"off"}]
  /\ config \in Endpoints \union {"off"}
  /\ pc \in HidPlaces \union UsbPlaces \union ConfigurePlaces \union SamplePlaces
  /\ rate \in Rates \union {OfferedRate} /\ compare \in 0 .. TimerBase - 1
  /\ audioSample \in 0 .. ByteBase * ByteBase - 1
  /\ outputs \in Seq(Outputs \union {0}) /\ Len(outputs) = 2
  /\ fifo \in Seq({"sample", "report"}) /\ Len(fifo) <= PacketSize
  /\ queued \in 0 .. Banks

\* After USB_Init_Device, before the first wake-up; outputs are those of silence.
Init ==
  /\ deviceState = "Unattached" /\ addressed = FALSE /\ suspi = TRUE /\ frozen = FALSE
  /\ selected = "control"
  /\ types = [e \in Endpoints |-> IF e = "control" THEN "control" ELSE "off"]
  /\ pc = "hid" /\ prevEndpoint = "control" /\ config = "off"
  /\ held = FALSE /\ late = FALSE
  /\ interfaceEnabled = FALSE
  /\ timer = FALSE /\ rate = OfferedRate /\ compare = 0
  /\ audioSample = 0 /\ outputs = <<0, 0>>
  /\ fifo = <<>> /\ queued = 0 /\ hidBank = FALSE /\ controlIn = FALSE

----------------------------------------------------------------------------
\* Endpoint_SelectEndpoint, by the main loop.
Select(e) == selected' = e /\ held' = TRUE

\* Mutant: the audio endpoint always takes a sample.
FreeUnchecked(e) ==
  CASE e = "joystick" -> types[e] = "joystick" /\ ~hidBank
    [] e = "audio"    -> types[e] = "audio"
    [] OTHER          -> FALSE

\* Endpoint_IsReadWriteAllowed and Endpoint_IsINReady of an IN endpoint.
Free(e) ==
  CASE e = "joystick" -> types[e] = "joystick" /\ ~hidBank
    [] e = "audio"    -> types[e] = "audio" /\ queued < Banks
    [] OTHER          -> FALSE

\* Endpoint_ClearIN: hand over the current bank of the selected endpoint.
ClearIN(e) ==
  /\ hidBank' = (hidBank \/ (e = "joystick" /\ types[e] = "joystick"))
  /\ controlIn' = (controlIn \/ e = "control")
  /\ IF e = "audio" /\ Free(e) THEN fifo' = <<>> /\ queued' = queued + 1
                               ELSE UNCHANGED <<fifo, queued>>

MainOnly == UNCHANGED <<busVars, interfaceEnabled, timerVars>>
NoUsb    == UNCHANGED <<types, prevEndpoint, config, late>> /\ MainOnly

\* HID_Device_USBTask: not configured, or no new frame.
HidSkip ==
  /\ pc = "hid"
  /\ pc' = "usb"
  /\ NoUsb /\ UNCHANGED <<selected, held, sampleVars, bankVars>>

HidSelect ==
  /\ pc = "hid" /\ deviceState = "Configured"
  /\ Select("joystick")
  /\ pc' = "check"
  /\ NoUsb /\ UNCHANGED <<sampleVars, bankVars>>

\* Endpoint_IsReadWriteAllowed, which endpoint 0 may grant as well.
HidCheck ==
  /\ pc = "check"
  /\ \/ (Free(selected) \/ selected = "control") /\ pc' = "scan"
     \/ ~Free(selected) /\ pc' = "usb"
  /\ NoUsb /\ UNCHANGED <<selected, held, sampleVars, bankVars>>

\* The scan and the comparison; the endpoint is selected again if a report is due.
HidScan ==
  /\ pc = "scan"
  /\ \/ Select("joystick") /\ pc' = "write"
     \/ pc' = "usb" /\ UNCHANGED <<selected, held>>
  /\ NoUsb /\ UNCHANGED <<sampleVars, bankVars>>

\* Endpoint_Write_Stream_LE: waits for the selected endpoint and, when the wait
\* ends without one that is ready, writes nothing.
HidWrite ==
  /\ pc = "write"
  /\ pc' = "clear"
  /\ fifo' = IF selected = "audio" /\ Free("audio") /\ Len(fifo) < PacketSize
               THEN Append(fifo, "report") ELSE fifo
  /\ NoUsb /\ UNCHANGED <<selected, held, sampleVars, queued, hidBank, controlIn>>

\* Endpoint_ClearIN, whatever the stream has returned.
HidClear ==
  /\ pc = "clear"
  /\ ClearIN(selected)
  /\ pc' = "usb"
  /\ NoUsb /\ UNCHANGED <<selected, held, sampleVars>>

HidTask == HidSkip \/ HidSelect \/ HidCheck \/ HidScan \/ HidWrite \/ HidClear

----------------------------------------------------------------------------
\* USB_DeviceTask.

UsbSkip ==
  /\ pc = "usb" /\ deviceState = "Unattached"
  /\ pc' = "filter"
  /\ NoUsb /\ UNCHANGED <<selected, held, sampleVars, bankVars>>

UsbSave ==
  /\ pc = "usb" /\ deviceState # "Unattached"
  /\ prevEndpoint' = selected
  /\ pc' = "select"
  /\ MainOnly /\ UNCHANGED <<selected, types, config, held, late, sampleVars, bankVars>>

UsbSelect ==
  /\ pc = "select"
  /\ Select("control")
  /\ pc' = "setup"
  /\ NoUsb /\ UNCHANGED <<sampleVars, bankVars>>

NoRequest ==
  /\ pc = "setup"
  /\ pc' = "restore"
  /\ NoUsb /\ UNCHANGED <<selected, held, sampleVars, bankVars>>

\* A request; its SETUP packet takes the place of what waits in endpoint 0.  A host
\* follows the device's states, but may give an address to any device.
Request ==
  /\ pc = "setup" /\ ~frozen
  /\ selected = "control" /\ types["control"] = "control"
  /\ controlIn' = FALSE /\ late' = FALSE
  /\ UNCHANGED <<selected, types, prevEndpoint, config, held, sampleVars, fifo, queued, hidBank>>

\* USB_Device_SetAddress.
SetAddress ==
  /\ Request
  /\ addressed' = TRUE /\ deviceState' = "Default"
  /\ pc' = "restore"
  /\ UNCHANGED <<suspi, frozen, interfaceEnabled, timerVars>>

\* USB_Device_SetConfiguration and REQ_SetInterface have been read.
ReadRequest ==
  /\ Request /\ addressed
  /\ pc' = "number" \/ (deviceState = "Configured" /\ pc' = "interface")
  /\ MainOnly

\* Endpoint_ClearStatusStage.  The packet answers nothing when there was a reset since
\* the request was read.
ClearStatusStage ==
  /\ controlIn' = (controlIn \/ (~held /\ deviceState # "Unattached"))
  /\ UNCHANGED <<selected, types, prevEndpoint, config, held, late, sampleVars, fifo, queued, hidBank,
                 busVars, timerVars>>

\* REQ_SetInterface in Audio_Device_ProcessControlRequest.
SetInterface(enabled) ==
  /\ pc = "interface"
  /\ ClearStatusStage
  /\ interfaceEnabled' = enabled
  /\ pc' = "restore"

\* Mutant: without the - 1.
CompareOneTooMany(r) == IF r = 0 THEN 0 ELSE (Ticks \div r) % TimerBase

\* F_CPU / 8 / rate - 1, cut to the timer's width; avr-gcc's division by zero
\* returns the largest number.
Compare(r) == IF r = 0 THEN TimerBase - 2 ELSE (Ticks \div r - 1) % TimerBase

\* CALLBACK_Audio_Device_GetSetEndpointProperty, AUDIO_REQ_SetCurrent.  The rate and the
\* compare value are stored one after the other; no interrupt handler reads the rate.
SetRate(r) ==
  /\ Request /\ addressed /\ deviceState = "Configured"
  /\ rate' = r /\ compare' = Compare(r)
  /\ pc' = "restore"
  /\ UNCHANGED <<busVars, interfaceEnabled, timer>>

UsbRestore ==
  /\ pc = "restore"
  /\ Select(prevEndpoint)
  /\ pc' = "filter"
  /\ NoUsb /\ UNCHANGED <<sampleVars, bankVars>>

UsbTask ==
  \/ UsbSkip \/ UsbSave \/ UsbSelect \/ UsbRestore
  \/ NoRequest \/ SetAddress \/ ReadRequest
  \/ \E enabled \in BOOLEAN : SetInterface(enabled)
  \/ \E r \in Rates : SetRate(r)

----------------------------------------------------------------------------
\* USB_Device_SetConfiguration: the number, the status stage, the state; then
\* EVENT_USB_Device_ConfigurationChanged: Endpoint_ConfigureEndpoint_Prv writes the
\* joystick's endpoint and then, as the hardware asks, the configured ones above
\* it again, with what it reads from them; then it writes the audio endpoint.

Next1(from, to) == pc = from /\ pc' = to

StoreNumber(number) ==
  /\ Next1("number", "status")
  /\ addressed' = (addressed \/ number # 0)
  /\ late' = (~held /\ number # 0)
  /\ UNCHANGED <<deviceState, suspi, frozen, prevEndpoint, config, held, selected, types,
                 interfaceEnabled, timerVars, sampleVars, bankVars>>

ClearConfigurationStatus ==
  /\ Next1("status", "choose")
  /\ ClearStatusStage
  /\ UNCHANGED interfaceEnabled

Configuring == UNCHANGED <<prevEndpoint, addressed, suspi, frozen, late, timerVars, sampleVars>>

\* The state is chosen by the number and the address, and then stored.
ChooseState ==
  /\ pc = "choose"
  /\ pc' = IF addressed THEN "configured" ELSE "unconfigured"
  /\ Configuring /\ UNCHANGED <<deviceState, selected, held, types, config, interfaceEnabled, bankVars>>

StoreState ==
  /\ \/ Next1("configured", "selectJoystick")   /\ deviceState' = "Configured"
     \/ Next1("unconfigured", "selectJoystick") /\ deviceState' = "Default"
  /\ Configuring /\ UNCHANGED <<selected, held, types, config, interfaceEnabled, bankVars>>

SelectToConfigure ==
  /\ \/ Next1("selectJoystick", "writeJoystick") /\ Select("joystick") /\ config' = "joystick"
     \/ Next1("selectAudio", "readAudio")        /\ Select("audio")    /\ UNCHANGED config
     \/ Next1("selectAudioAgain", "writeAudio")  /\ Select("audio")    /\ config' = "audio"
  /\ Configuring /\ UNCHANGED <<deviceState, types, interfaceEnabled, bankVars>>

ReadConfiguration ==
  /\ pc = "readAudio"
  /\ config' = types[selected]
  /\ pc' = IF types[selected] = "off" THEN "clearState" ELSE "rewriteAudio"
  /\ Configuring /\ UNCHANGED <<deviceState, selected, held, types, interfaceEnabled, bankVars>>

\* A part of a configuration counts as the whole.
WriteConfiguration ==
  /\ \/ Next1("writeJoystick", "selectAudio")
     \/ Next1("rewriteAudio", "clearState")
     \/ Next1("writeAudio", "restore")
  /\ types' = [types EXCEPT ![selected] = config]
  /\ hidBank' = (hidBank /\ selected # "joystick")
  /\ IF selected = "audio" THEN fifo' = <<>> /\ queued' = 0 ELSE UNCHANGED <<fifo, queued>>
  /\ Configuring /\ UNCHANGED <<deviceState, selected, held, config, interfaceEnabled, controlIn>>

\* The end of the first call, which selects its endpoint, and the memset of the second.
ClearState ==
  /\ Next1("clearState", "selectAudioAgain")
  /\ Select("joystick")
  /\ interfaceEnabled' = FALSE
  /\ Configuring /\ UNCHANGED <<deviceState, types, config, bankVars>>

Configure ==
  \/ \E number \in {0, 1} : StoreNumber(number)
  \/ ClearConfigurationStatus \/ ChooseState
  \/ StoreState \/ SelectToConfigure \/ ReadConfiguration \/ WriteConfiguration \/ ClearState

----------------------------------------------------------------------------
\* The last line of the main loop, in a pass with or without the branches before.

Low(n)  == n % ByteBase
High(n) == n \div ByteBase

Filter ==
  /\ pc = "filter"
  /\ \E w \in Outputs : outputs' = <<outputs[2], w>>
  /\ pc' = "store"
  /\ NoUsb /\ UNCHANGED <<selected, held, audioSample, bankVars>>

\* Mutant: the bytes are stored the wrong way round.
StoreSwapped ==
  /\ pc \in {"store", "storeRest"}
  /\ audioSample' = IF pc = "store" THEN Low(outputs[2]) * ByteBase + Low(audioSample)
                                    ELSE High(audioSample) * ByteBase + High(outputs[2])
  /\ pc' = IF pc = "store" THEN "storeRest" ELSE "hid"
  /\ NoUsb /\ UNCHANGED <<selected, held, outputs, bankVars>>

\* The two bytes of audioSample, in either order.
Store ==
  /\ \/ /\ Next1("store", "storeRest")
        /\ audioSample' \in {High(outputs[2]) * ByteBase + Low(audioSample),
                             High(audioSample) * ByteBase + Low(outputs[2])}
     \/ /\ Next1("storeRest", "hid")
        /\ audioSample' = outputs[2]
  /\ NoUsb /\ UNCHANGED <<selected, held, outputs, bankVars>>

Main == HidTask \/ UsbTask \/ Configure \/ Filter \/ Store

----------------------------------------------------------------------------
\* ISR(TIMER0_COMPA_vect), which nothing interrupts.

\* Mutant: the packet is never full.
WriteSample16Endless ==
  /\ fifo' = IF Len(fifo) < PacketSize THEN Append(fifo, "sample") ELSE fifo
  /\ UNCHANGED <<queued, hidBank, controlIn>>

\* Audio_Device_WriteSample16, with the audio endpoint selected.
WriteSample16 ==
  /\ IF Len(fifo) + 1 = PacketSize THEN fifo' = <<>> /\ queued' = queued + 1
                                   ELSE fifo' = Append(fifo, "sample") /\ UNCHANGED queued
  /\ UNCHANGED <<hidBank, controlIn>>

\* Audio_Device_IsReadyForNextSample.
ReadyForNextSample == deviceState = "Configured" /\ interfaceEnabled /\ Free("audio")

SampleOnly == UNCHANGED <<mainVars, busVars, types, interfaceEnabled, timerVars, sampleVars>>

\* Mutant: without the closing Endpoint_SelectEndpoint(PrevEndpoint).
SampleInterruptSelects ==
  /\ timer
  /\ IF ReadyForNextSample THEN WriteSample16 ELSE UNCHANGED bankVars
  /\ selected' = IF deviceState = "Configured" /\ interfaceEnabled THEN "audio" ELSE selected
  /\ SampleOnly

\* Selects the audio endpoint, and at the end the one that was selected.
SampleInterrupt ==
  /\ timer
  /\ IF ReadyForNextSample THEN WriteSample16 ELSE UNCHANGED bankVars
  /\ UNCHANGED selected
  /\ SampleOnly

----------------------------------------------------------------------------
\* ISR(USB_GEN_vect) and the host.

\* With EVENT_USB_Device_Disconnect.
Suspend ==
  /\ suspi
  /\ deviceState' = "Unattached" /\ suspi' = FALSE /\ frozen' = TRUE
  /\ timer' = FALSE
  /\ UNCHANGED <<addressed, mainVars, selected, types, interfaceEnabled, rate, compare,
                 sampleVars, bankVars>>

\* Mutant: the timer is set up but not started.
ConnectStopped == compare' = Compare(rate) /\ UNCHANGED <<timer, rate>>

\* EVENT_USB_Device_Connect.
Connect == timer' = TRUE /\ compare' = Compare(rate) /\ UNCHANGED rate

WakeUp ==
  /\ ~suspi
  /\ deviceState' = IF addressed THEN "Configured" ELSE "Default"
  /\ suspi' = TRUE /\ frozen' = FALSE
  /\ Connect
  /\ UNCHANGED <<addressed, mainVars, selected, types, interfaceEnabled, sampleVars, bankVars>>

\* What a reset leaves of the endpoints: endpoint 0, configured and selected.
EndpointsReset ==
  /\ selected' = "control" /\ held' = FALSE /\ late' = FALSE
  /\ types' = [e \in Endpoints |-> IF e = "control" THEN "control" ELSE "off"]
  /\ fifo' = <<>> /\ queued' = 0 /\ hidBank' = FALSE /\ controlIn' = FALSE

\* Mutant: the device state is left as it was.
ResetKeepsState ==
  /\ ~frozen
  /\ addressed' = FALSE /\ suspi' = FALSE
  /\ EndpointsReset
  /\ UNCHANGED <<deviceState, frozen, pc, prevEndpoint, config, interfaceEnabled, timerVars, sampleVars>>

\* The hardware switches the endpoints off, the handler configures endpoint 0.
Reset ==
  /\ ~frozen
  /\ deviceState' = "Default" /\ addressed' = FALSE /\ suspi' = FALSE
  /\ EndpointsReset
  /\ UNCHANGED <<frozen, pc, prevEndpoint, config, interfaceEnabled, timerVars, sampleVars>>

HostOnly == UNCHANGED <<mainVars, busVars, selected, types, interfaceEnabled, timerVars, sampleVars>>

HostTakesPacket ==
  /\ queued > 0 /\ ~frozen
  /\ queued' = queued - 1
  /\ HostOnly /\ UNCHANGED <<fifo, hidBank, controlIn>>

HostTakesReport ==
  /\ hidBank /\ ~frozen
  /\ hidBank' = FALSE
  /\ HostOnly /\ UNCHANGED <<fifo, queued, controlIn>>

World == Suspend \/ WakeUp \/ Reset \/ HostTakesPacket \/ HostTakesReport

Next == Main \/ SampleInterrupt \/ World

\* The loop runs on, so does the timer once it is started, a bus that is not
\* suspended has traffic that wakes the device up, and the host takes packets.
Spec ==
  /\ Init /\ [][Next]_vars
  /\ WF_vars(Main) /\ WF_vars(SampleInterrupt)
  /\ WF_vars(~frozen /\ WakeUp) /\ WF_vars(HostTakesPacket)

----------------------------------------------------------------------------
\* The endpoint the main loop means at each place where it accesses one.
Meant(place) ==
  IF place \in {"check", "write", "clear", "writeJoystick"} THEN {"joystick"}
  ELSE IF place \in {"readAudio", "rewriteAudio", "writeAudio"} THEN {"audio"}
  ELSE IF place \in {"setup", "interface", "number", "status"} THEN {"control"}
  ELSE Endpoints

\* No interrupt moves the selection under the main loop, except a reset, which
\* moves it to endpoint 0 and is not undone (wheel-display.c:150-164,
\* USBInterrupt_AVR8.c:159-179): where an endpoint is accessed it is the one meant
\* or, after a reset since it was selected, endpoint 0.
SelectionHeld == selected \in Meant(pc) \/ (~held /\ selected = "control")

\* What the main loop does to endpoint 0 in that case, a packet that answers
\* nothing or the configuration of another endpoint, is over before the host can
\* configure the device again (HIDClassDevice.c:192-194, Endpoint_AVR8.c:56-90):
\* no such damage on a configured device.  A SET_CONFIGURATION that a reset overtakes
\* before its number is stored (DeviceStandardReq.c:192-196) configures the device all
\* the same, with its answer left in endpoint 0 until the next request.
ControlIntact == deviceState = "Configured" => (controlIn => late) /\ types["control"] = "control"

\* The audio endpoint gets samples and nothing else, whole packets of them, from
\* whatever place the interrupt hits (AudioClassDevice.h:354-362), and no sample
\* goes into an endpoint whose banks are both full.
StreamHoldsSamples ==
  /\ "report" \notin {fifo[i] : i \in 1 .. Len(fifo)}
  /\ Len(fifo) < PacketSize
  /\ queued = Banks => fifo = <<>>

\* The sample the interrupt may find half written (wheel-display.c:150, 408) is an
\* output of the filter unless two outputs in a row differ in their high bytes,
\* and then it is at most one step of the high byte away from one.
SampleNearOutput ==
  \E w \in {outputs[1], outputs[2]} :
    \/ audioSample = w
    \/ /\ High(outputs[1]) # High(outputs[2])
       /\ audioSample - w \in -(ByteBase - 1) .. ByteBase - 1

\* The timer's period is the one of the rate the host has set exactly when that
\* fits the timer (wheel-display.c:171, 228): from 7783 Hz up.
TimerFollowsRate ==
  timer => (rate # 0 /\ compare + 1 = Ticks \div rate
              <=> rate <= Ticks /\ rate # 0 /\ Ticks \div rate <= TimerBase)

\* A device that stays on the bus, with its endpoint configured and its stream
\* switched on, goes on delivering packets, whatever resets, suspends and
\* configurations went before (wheel-display.c:150-164, 168-181).
StreamFlows ==
  <>[](~frozen /\ deviceState = "Configured" /\ types["audio"] = "audio" /\ interfaceEnabled)
    => []<><<HostTakesPacket>>_vars

\* "has been enumerated by the host and is ready for USB communications"
\* (LUFA/Drivers/USB/Core/Device.h:96).  A device in the Configured state, and not
\* just on its way there, has its audio endpoint, unless a wake-up put it there: the
\* handler takes every addressed device for a configured one (USBInterrupt_AVR8.c:
\* 145-150).  Resets in the middle of a configuration do not.
Ready           == deviceState = "Configured" /\ pc \notin ConfigurePlaces => types["audio"] = "audio"
UnreadyByWakeUp == [][Ready /\ ~Ready' => WakeUp]_vars
============================================================================
