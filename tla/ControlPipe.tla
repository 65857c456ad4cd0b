----------------------------- MODULE ControlPipe -----------------------------
(***************************************************************************)
(* Control requests: the stages of a control transfer as the host sees     *)
(* them and as USB_Device_ProcessControlRequest and the handlers of the    *)
(* application, the HID class and the audio class go through them, with    *)
(* the interrupts of the bus (ISR(USB_GEN_vect)) at any place.             *)
(*                                                                         *)
(* pc is the main loop's place: in the loop ("poll"), before a handler     *)
(* ("handle"), in one of the waits for the host, after them ("effect") and *)
(* at the check that ends every request ("end").  Packets carry no data    *)
(* but the value a host sets.                                              *)
(***************************************************************************)
EXTENDS Integers

CONSTANTS
  Requests,    \* the requests the host makes
  Undefined    \* what a buffer on the stack holds before it is written

\* Handlers by what they do with the pipe.
StreamAnswers == {"getDescriptor", "getReport", "getCurrent"}
ByteAnswers   == {"getStatus", "getConfiguration", "getProtocol", "getIdle"}
StreamTakers  == {"setReport", "setCurrent"}
ClassSetters  == {"setProtocol", "setIdle", "setInterface"}
Features      == {"wakeup", "halt"}
Kinds == StreamAnswers \union ByteAnswers \union StreamTakers \union ClassSetters
           \union Features \union {"setAddress", "setConfiguration", "vendor", "unknown"}

\* value is what the request sets; of a descriptor, the packets it takes, the
\* empty one after a full one included, or 0 when there is no such descriptor.
ASSUME RequestsAssumption ==
  /\ Requests \subseteq [kind : Kinds, value : Nat]
  /\ \A r \in Requests : /\ r.kind = "setAddress" => r.value # 0
                         /\ r.kind \in {"getReport", "getCurrent"} => r.value = 1
  /\ Undefined \notin Nat

MaxConfiguration == 1     \* FIXED_NUM_CONFIGURATIONS

VARIABLES
  ep,            \* the control endpoint's flags: RXSTPI, TXINI cleared, RXOUTI, STALLRQ
  request,       \* USB_ControlRequest
  pc,
  toSend,        \* packets a stream has still to send
  received,      \* what a stream has read
  deviceState,   \* USB_DeviceState
  settings,      \* what requests set
  suspi,         \* the suspend interrupt is enabled, else the wake-up interrupt
  frozen,        \* the USB clock is frozen
  resetWaits,    \* a reset has come with interrupts off
  host           \* the host's side of the transfer

Settings == {"address", "configuration", "endpoints", "wakeup", "halt",
             "protocol", "idle", "interface", "rate", "word"}
Values == {0, 1} \union {r.value : r \in Requests}
NoRequest == [kind |-> "unknown", value |-> 0]

deviceVars == <<request, pc, toSend, received>>
busVars    == <<deviceState, suspi, frozen, resetWaits>>
vars == <<ep, deviceVars, busVars, settings, host>>

TypeOK ==
  /\ ep \in [setup : BOOLEAN, in : BOOLEAN, out : BOOLEAN, stall : BOOLEAN]
  /\ request \in Requests \union {NoRequest}
  /\ pc \in {"poll", "handle", "status", "address", "write", "writeStatus",
             "read", "readStatus", "effect", "end"}
  /\ toSend \in Nat /\ received \in Values \union {Undefined}
  /\ deviceState \in {"Unattached", "Powered", "Default", "Addressed", "Configured"}
  /\ settings \in [Settings -> Values \union {Undefined}]
  /\ {suspi, frozen, resetWaits} \subseteq BOOLEAN
  /\ host \in [stage : {"off", "idle", "dataIn", "dataOut", "statusIn", "statusOut"},
               asked : Requests \union {NoRequest}, left : Nat, address : Values,
               outcome : {"none", "done", "stalled"}, clean : BOOLEAN,
               before : [Settings -> Values \union {Undefined}]]

\* USB_Init_Device, before the host resets the bus for the first time.
Init ==
  /\ ep = [setup |-> FALSE, in |-> FALSE, out |-> FALSE, stall |-> FALSE]
  /\ request = NoRequest
  /\ pc = "poll" /\ toSend = 0 /\ received = Undefined
  /\ deviceState = "Unattached" /\ suspi = TRUE /\ frozen = FALSE /\ resetWaits = FALSE
  /\ settings = [s \in Settings |-> 0]
  /\ host = [stage |-> "off", asked |-> NoRequest, left |-> 0, address |-> 0,
             outcome |-> "none", clean |-> FALSE, before |-> settings]

----------------------------------------------------------------------------
\* Endpoint_AVR8.h.
ClearSETUP(e) == [e EXCEPT !.setup = FALSE]
ClearIN(e)    == [e EXCEPT !.in = TRUE]
ClearOUT(e)   == [e EXCEPT !.out = FALSE]
Stalled(e)    == [e EXCEPT !.stall = TRUE]

Unattached == deviceState = "Unattached"

\* GlobalInterruptDisable in USB_Device_SetAddress.
Masked == request.kind = "setAddress" /\ pc \in {"status", "address"}

\* USB_DeviceTask and the head of USB_Device_ProcessControlRequest.  The packet in
\* the bank is the last the host has sent.
ReadSetup ==
  /\ pc = "poll" /\ ep.setup /\ ~Unattached
  /\ request' = host.asked
  /\ pc' = "handle"
  /\ UNCHANGED <<ep, toSend, received, busVars, settings, host>>

Handling(kinds) == pc = "handle" /\ request.kind \in kinds

\* What every handler leaves alone.
PipeOnly == UNCHANGED <<request, busVars, host>>

\* The vendor request of EVENT_USB_Device_ControlRequest: store, then the status
\* stage, with the SETUP packet still in the bank.
VendorRequest ==
  /\ Handling({"vendor"})
  /\ settings' = [settings EXCEPT !.word = request.value]
  /\ pc' = "status"
  /\ PipeOnly /\ UNCHANGED <<ep, toSend, received>>

\* USB_Device_GetDescriptor, HID_REQ_GetReport, AUDIO_REQ_GetCurrent.
AnswerStream ==
  /\ Handling(StreamAnswers) /\ request.value # 0
  /\ ep' = ClearSETUP(ep)
  /\ toSend' = request.value
  /\ pc' = "write"
  /\ PipeOnly /\ UNCHANGED <<received, settings>>

\* USB_Device_GetStatus, USB_Device_GetConfiguration, HID_REQ_GetProtocol, HID_REQ_GetIdle.
AnswerByte ==
  /\ Handling(ByteAnswers)
  /\ ep' = ClearIN(ClearSETUP(ep))
  /\ pc' = "status"
  /\ PipeOnly /\ UNCHANGED <<toSend, received, settings>>

\* HID_REQ_SetReport, AUDIO_REQ_SetCurrent: the buffer is not initialised.
TakeStream ==
  /\ Handling(StreamTakers)
  /\ ep' = ClearSETUP(ep)
  /\ received' = Undefined
  /\ pc' = "read"
  /\ PipeOnly /\ UNCHANGED <<toSend, settings>>

\* USB_Device_SetAddress, HID_REQ_SetProtocol, HID_REQ_SetIdle, REQ_SetInterface up to
\* the status stage.
SetLater ==
  /\ Handling(ClassSetters \union {"setAddress"})
  /\ ep' = ClearSETUP(ep)
  /\ pc' = "status"
  /\ PipeOnly /\ UNCHANGED <<toSend, received, settings>>

\* Mutant: the number is stored before it is checked.
SetConfigurationUnchecked ==
  /\ Handling({"setConfiguration"})
  /\ settings' = [settings EXCEPT !.configuration = request.value]
  /\ \/ request.value <= MaxConfiguration /\ ep' = ClearSETUP(ep) /\ pc' = "status"
     \/ request.value > MaxConfiguration /\ UNCHANGED ep /\ pc' = "end"
  /\ PipeOnly /\ UNCHANGED <<toSend, received>>

\* USB_Device_SetConfiguration up to the status stage.
SetConfiguration ==
  /\ Handling({"setConfiguration"}) /\ request.value <= MaxConfiguration
  /\ settings' = [settings EXCEPT !.configuration = request.value]
  /\ ep' = ClearSETUP(ep)
  /\ pc' = "status"
  /\ PipeOnly /\ UNCHANGED <<toSend, received>>

\* USB_Device_ClearSetFeature.  The halt of an endpoint that is not enabled is
\* acknowledged all the same.
ClearSetFeature ==
  /\ Handling(Features)
  /\ settings' = IF request.kind = "halt" /\ settings.endpoints = 0
                   THEN settings ELSE [settings EXCEPT ![request.kind] = request.value]
  /\ ep' = ClearSETUP(ep)
  /\ pc' = "status"
  /\ PipeOnly /\ UNCHANGED <<toSend, received>>

\* Is there a handler for the request?
Known(r) ==
  /\ r.kind # "unknown"
  /\ r.kind = "getDescriptor" => r.value # 0
  /\ r.kind = "setConfiguration" => r.value <= MaxConfiguration

Ignore ==
  /\ pc = "handle" /\ ~Known(request)
  /\ pc' = "end"
  /\ PipeOnly /\ UNCHANGED <<ep, toSend, received, settings>>

----------------------------------------------------------------------------
\* The waits.

\* Endpoint_ClearStatusStage: wait for the host's empty packet, or for the bank
\* to be free for the device's.
ClearStatusStage ==
  /\ pc = "status"
  /\ \/ /\ request.kind \in ByteAnswers
        /\ ep.out \/ Unattached
        /\ ep' = ClearOUT(ep)
        /\ pc' = "end"
     \/ /\ request.kind \notin ByteAnswers
        /\ ~ep.in \/ Unattached
        /\ ep' = ClearIN(ep)
        /\ pc' = IF request.kind = "setAddress" THEN "address" ELSE "effect"
  /\ PipeOnly /\ UNCHANGED <<toSend, received, settings>>

\* Mutant: the loop goes on when everything has been sent.
WriteStreamEndless ==
  /\ pc = "write"
  /\ \/ /\ Unattached \/ ep.setup
        /\ ep' = ClearOUT(ep) /\ pc' = "end" /\ UNCHANGED toSend
     \/ /\ ~Unattached /\ ~ep.setup /\ ep.out
        /\ pc' = "writeStatus" /\ UNCHANGED <<ep, toSend>>
     \/ /\ ~Unattached /\ ~ep.setup /\ ~ep.out /\ ~ep.in
        /\ ep' = ClearIN(ep) /\ toSend' = toSend - 1 /\ UNCHANGED pc
  /\ PipeOnly /\ UNCHANGED <<received, settings>>

\* Mutant: without the test for a new SETUP packet.
WriteStreamDeaf ==
  /\ pc = "write"
  /\ \/ /\ Unattached
        /\ ep' = ClearOUT(ep) /\ pc' = "end" /\ UNCHANGED toSend
     \/ /\ ~Unattached /\ ep.out
        /\ pc' = "writeStatus" /\ UNCHANGED <<ep, toSend>>
     \/ /\ ~Unattached /\ ~ep.out /\ ~ep.in
        /\ ep' = ClearIN(ep)
        /\ toSend' = toSend - 1
        /\ pc' = IF toSend = 1 THEN "writeStatus" ELSE "write"
  /\ PipeOnly /\ UNCHANGED <<received, settings>>

\* Endpoint_Write_Control_Stream: the loop, which ends early when the bus or the
\* host gives up; the handlers call Endpoint_ClearOUT however it has ended.
WriteStream ==
  /\ pc = "write"
  /\ \/ /\ Unattached \/ ep.setup
        /\ ep' = ClearOUT(ep) /\ pc' = "end" /\ UNCHANGED toSend
     \/ /\ ~Unattached /\ ~ep.setup /\ ep.out
        /\ pc' = "writeStatus" /\ UNCHANGED <<ep, toSend>>
     \/ /\ ~Unattached /\ ~ep.setup /\ ~ep.out /\ ~ep.in
        /\ ep' = ClearIN(ep)
        /\ toSend' = toSend - 1
        /\ pc' = IF toSend = 1 THEN "writeStatus" ELSE "write"
  /\ PipeOnly /\ UNCHANGED <<received, settings>>

\* Mutant: without the test for a suspended bus.
WriteStreamStatusForever ==
  /\ pc = "writeStatus" /\ ep.out
  /\ ep' = ClearOUT(ep)
  /\ pc' = "end"
  /\ PipeOnly /\ UNCHANGED <<toSend, received, settings>>

\* Its wait for the status stage.
WriteStreamStatus ==
  /\ pc = "writeStatus"
  /\ ep.out \/ Unattached
  /\ ep' = ClearOUT(ep)
  /\ pc' = "end"
  /\ PipeOnly /\ UNCHANGED <<toSend, received, settings>>

\* Endpoint_Read_Control_Stream, of one packet.  What it returns is not looked
\* at: the handlers call Endpoint_ClearIN and go on.
ReadStream ==
  /\ pc = "read"
  /\ \/ /\ Unattached \/ ep.setup
        /\ ep' = ClearIN(ep) /\ pc' = "effect" /\ UNCHANGED received
     \/ /\ ~Unattached /\ ~ep.setup /\ ep.out
        /\ received' = host.asked.value
        /\ ep' = ClearOUT(ep) /\ pc' = "readStatus"
  /\ PipeOnly /\ UNCHANGED <<toSend, settings>>

ReadStreamStatus ==
  /\ pc = "readStatus"
  /\ ~ep.in \/ Unattached
  /\ ep' = ClearIN(ep)
  /\ pc' = "effect"
  /\ PipeOnly /\ UNCHANGED <<toSend, received, settings>>

----------------------------------------------------------------------------
\* After the waits.

\* Mutant: the address is set without waiting for the status packet to go out.
SetDeviceAddressAtOnce ==
  /\ pc = "address" /\ ~resetWaits
  /\ settings' = [settings EXCEPT !.address = request.value]
  /\ deviceState' = "Addressed"
  /\ pc' = "end"
  /\ UNCHANGED <<ep, request, toSend, received, suspi, frozen, resetWaits, host>>

\* The configured endpoints are gone with a reset, the number with its interrupt.
BusReset(s) == [s EXCEPT !.address = 0, !.endpoints = 0, !.halt = 0]
ResetServed(s) == [s EXCEPT !.configuration = 0]

\* The end of USB_Device_SetAddress.  A reset that has come in the meantime is
\* served as soon as interrupts are on again: state and endpoint, not the address.
SetDeviceAddress ==
  /\ pc = "address" /\ ~ep.in
  /\ pc' = "end"
  /\ \/ /\ ~resetWaits
        /\ settings' = [settings EXCEPT !.address = request.value]
        /\ deviceState' = "Addressed"
        /\ UNCHANGED <<ep, suspi>>
     \/ /\ resetWaits
        /\ settings' = ResetServed([settings EXCEPT !.address = request.value])
        /\ deviceState' = "Default" /\ suspi' = FALSE
        /\ ep' = [setup |-> FALSE, in |-> FALSE, out |-> FALSE, stall |-> FALSE]
  /\ resetWaits' = FALSE
  /\ UNCHANGED <<request, toSend, received, frozen, host>>

\* USB_Device_IsAddressSet.
ConfiguredOrPowered ==
  IF settings.configuration # 0 \/ settings.address # 0 THEN "Configured" ELSE "Powered"

\* EVENT_USB_Device_ConfigurationChanged: HID_Device_ConfigureEndpoints and
\* Audio_Device_ConfigureEndpoints, whatever the number.  The idle period of 500
\* ms is 1 here.
ConfigurationChanged ==
  [settings EXCEPT !.endpoints = 1, !.halt = 0, !.protocol = 1, !.idle = 1, !.interface = 0]

Field == [setProtocol |-> "protocol", setIdle |-> "idle", setInterface |-> "interface"]

\* What the handlers do when the status stage is behind them.
Effect ==
  /\ pc = "effect"
  /\ settings' = CASE request.kind = "setConfiguration" -> ConfigurationChanged
                   [] request.kind \in ClassSetters ->
                        [settings EXCEPT ![Field[request.kind]] = request.value]
                   [] request.kind = "setCurrent" -> [settings EXCEPT !.rate = received]
                   [] OTHER -> settings
  /\ deviceState' = IF request.kind = "setConfiguration" THEN ConfiguredOrPowered
                                                         ELSE deviceState
  /\ pc' = "end"
  /\ UNCHANGED <<ep, request, toSend, received, suspi, frozen, resetWaits, host>>

\* Nobody reads the request and the buffers any more.
Forget == request' = NoRequest /\ toSend' = 0 /\ received' = Undefined

\* Mutant: a request nobody has handled is dropped without an answer.
EndRequestSilently ==
  /\ pc = "end"
  /\ ep' = ClearSETUP(ep)
  /\ pc' = "poll" /\ Forget
  /\ UNCHANGED <<busVars, settings, host>>

\* The end of USB_Device_ProcessControlRequest.
EndRequest ==
  /\ pc = "end"
  /\ ep' = IF ep.setup THEN ClearSETUP(Stalled(ep)) ELSE ep
  /\ pc' = "poll" /\ Forget
  /\ UNCHANGED <<busVars, settings, host>>

Device ==
  \/ ReadSetup \/ VendorRequest \/ AnswerStream \/ AnswerByte \/ TakeStream \/ SetLater
  \/ SetConfiguration \/ ClearSetFeature \/ Ignore
  \/ ClearStatusStage \/ WriteStream \/ WriteStreamStatus \/ ReadStream \/ ReadStreamStatus
  \/ SetDeviceAddress \/ Effect \/ EndRequest

----------------------------------------------------------------------------
\* The host and its controller.

DataStage(r) ==
  CASE r.kind \in ByteAnswers \union StreamAnswers -> "dataIn"
    [] r.kind \in StreamTakers -> "dataOut"
    [] OTHER -> "statusIn"

Untouched == [s \in Settings |-> 0]

\* The transfer is no longer one between host and device alone.
Upset(h) == [h EXCEPT !.clean = FALSE, !.before = Untouched]

\* The packets a host waits for in the data stage: all, or all but an empty one
\* when the bytes it has asked for fill the others.
Wanted(r) == IF r.kind = "getDescriptor" /\ r.value > 1 THEN {r.value, r.value - 1}
             ELSE {IF DataStage(r) = "dataIn" THEN 1 ELSE 0}

\* A SETUP packet is always accepted; it empties the bank and ends a STALL.  The
\* host may give up a transfer that goes on.  A transfer is clean as long as only
\* host and device take part and the device was waiting for it.
HostSetup(r) ==
  /\ host.stage # "off" /\ ~frozen /\ host.address = settings.address
  /\ ep' = [setup |-> TRUE, in |-> FALSE, out |-> FALSE, stall |-> FALSE]
  /\ \E n \in Wanted(r) :
       LET new == [host EXCEPT !.stage = DataStage(r), !.asked = r, !.left = n,
                               !.outcome = "none", !.clean = TRUE, !.before = settings]
       IN  host' = IF pc = "poll" THEN new ELSE Upset(new)
  /\ UNCHANGED <<deviceVars, busVars, settings>>

\* The host takes what is in the bank.
HostTakesIn ==
  /\ host.stage \in {"dataIn", "statusIn"} /\ ~frozen /\ ep.in /\ ~ep.stall
  /\ ep' = [ep EXCEPT !.in = FALSE]
  /\ \/ /\ host.stage = "dataIn" /\ host.left > 1
        /\ host' = [host EXCEPT !.left = host.left - 1]
     \/ /\ host.stage = "dataIn" /\ host.left = 1
        /\ host' = [host EXCEPT !.left = 0, !.stage = "statusOut"]
     \/ /\ host.stage = "statusIn"
        /\ host' = [host EXCEPT !.stage = "idle", !.outcome = "done",
                                !.address = IF host.asked.kind = "setAddress"
                                              THEN host.asked.value ELSE host.address]
  /\ UNCHANGED <<deviceVars, busVars, settings>>

HostSendsOut ==
  /\ host.stage \in {"dataOut", "statusOut"} /\ ~frozen
  /\ ~ep.setup /\ ~ep.out /\ ~ep.stall
  /\ ep' = [ep EXCEPT !.out = TRUE]
  /\ host' = IF host.stage = "dataOut" THEN [host EXCEPT !.stage = "statusIn"]
                                       ELSE [host EXCEPT !.stage = "idle", !.outcome = "done"]
  /\ UNCHANGED <<deviceVars, busVars, settings>>

HostSeesStall ==
  /\ host.stage \notin {"off", "idle"} /\ ~frozen /\ ep.stall
  /\ host' = [host EXCEPT !.stage = "idle", !.outcome = "stalled"]
  /\ UNCHANGED <<ep, deviceVars, busVars, settings>>

----------------------------------------------------------------------------
\* ISR(USB_GEN_vect).

Suspend ==
  /\ suspi /\ ~Masked /\ host.stage # "off"
  /\ deviceState' = "Unattached" /\ suspi' = FALSE /\ frozen' = TRUE
  /\ host' = Upset(host)
  /\ UNCHANGED <<ep, deviceVars, resetWaits, settings>>

WakeUp ==
  /\ ~suspi /\ ~Masked
  /\ deviceState' = ConfiguredOrPowered
  /\ suspi' = TRUE /\ frozen' = FALSE
  /\ UNCHANGED <<ep, deviceVars, resetWaits, settings, host>>

\* With interrupts off the handler waits; the packet in the bank may be lost.
Reset ==
  /\ ~frozen
  /\ host' = [Upset(host) EXCEPT !.stage = "idle", !.outcome = "none", !.address = 0,
                                 !.asked = NoRequest, !.left = 0]
  /\ \/ /\ ~Masked
        /\ settings' = ResetServed(BusReset(settings))
        /\ deviceState' = "Default" /\ suspi' = FALSE
        /\ ep' = [setup |-> FALSE, in |-> FALSE, out |-> FALSE, stall |-> FALSE]
        /\ UNCHANGED resetWaits
     \/ /\ Masked
        /\ settings' = BusReset(settings)
        /\ \E in \in {ep.in, FALSE} : ep' = [ep EXCEPT !.in = in]
        /\ resetWaits' = TRUE
        /\ UNCHANGED <<deviceState, suspi>>
  /\ UNCHANGED <<deviceVars, frozen>>

World ==
  \/ \E r \in Requests : HostSetup(r)
  \/ HostTakesIn \/ HostSendsOut \/ HostSeesStall \/ Suspend \/ WakeUp \/ Reset

Next == Device \/ World

\* The loop runs on, and a host that has begun a transfer sees it through unless
\* it gives it up.
Spec ==
  /\ Init /\ [][Next]_vars
  /\ WF_vars(Device)
  /\ WF_vars(HostTakesIn) /\ WF_vars(HostSendsOut) /\ WF_vars(HostSeesStall)

----------------------------------------------------------------------------
\* What the host has asked for, done to settings s.
Done(s, r) ==
  CASE r.kind = "setAddress"       -> [s EXCEPT !.address = r.value]
    [] r.kind = "setConfiguration" -> [s EXCEPT !.configuration = r.value, !.endpoints = 1,
                                        !.halt = 0, !.protocol = 1, !.idle = 1, !.interface = 0]
    [] r.kind = "wakeup"           -> [s EXCEPT !.wakeup = r.value]
    [] r.kind = "halt"             -> IF s.endpoints = 1 THEN [s EXCEPT !.halt = r.value] ELSE s
    [] r.kind = "setProtocol"      -> [s EXCEPT !.protocol = r.value]
    [] r.kind = "setIdle"          -> [s EXCEPT !.idle = r.value]
    [] r.kind = "setInterface"     -> [s EXCEPT !.interface = r.value]
    [] r.kind = "setCurrent"       -> [s EXCEPT !.rate = r.value]
    [] r.kind = "vendor"           -> [s EXCEPT !.word = r.value]
    [] OTHER -> s

\* The transfer is over on both sides, and nothing has interfered with it.
Over == pc = "poll" /\ host.clean /\ host.outcome # "none"

\* A request takes effect as a whole or is refused as a whole: when both sides
\* are through with it, an accepted one has changed exactly what it asks for and a
\* refused one nothing, and accepted are those that have a handler
\* (DeviceStandardReq.c:49-120, HIDClassDevice.c:40-136, AudioClassDevice.c:40-168).
\* Not so the vendor request, see StalledIsUnhandled.
RequestsAreAtomic ==
  (Over /\ host.asked.kind # "vendor") => IF Known(host.asked)
            THEN host.outcome = "done" /\ settings = Done(host.before, host.asked)
            ELSE host.outcome = "stalled" /\ settings = host.before

\* The device takes its new address only after the host has had the answer at the
\* old one (DeviceStandardReq.c:128-134), unless the transfer has been upset; a bus
\* reset takes the address away at any time.
AddressAfterStatus ==
  [][(pc = "address" /\ settings'.address # settings.address)
       => host.outcome = "done" \/ ~host.clean \/ settings'.address = 0]_vars

\* From some time on the host gives no transfer up.
Patient == <>[][(\E r \in Requests : HostSetup(r)) => host.stage = "idle"]_vars

\* For a patient host every request comes to an end, with an answer or a STALL,
\* unless the transfer is upset (Endpoint_AVR8.c:111-133, Template_Endpoint_Control_*.c).
EveryTransferEnds ==
  Patient => ((host.stage # "idle" /\ host.clean) ~> (host.stage = "idle" \/ ~host.clean))

\* While the bus is suspended no handler waits for the host: the loop goes on, with
\* the one exception of SET_ADDRESS (Endpoint_AVR8.c:117, 127, Template_Endpoint_Control_*.c).
DetachEndsWaits == Unattached ~> (~Unattached \/ pc = "poll" \/ Masked)

\* "If not handled in the user application or by the library internally, unknown
\* requests are automatically STALLed" (Events.h:231-232): what is STALLed has not been
\* handled.  The vendor request stores its word and is then STALLed.
StalledIsUnhandled == (Over /\ host.outcome = "stalled") => settings = host.before

\* ENDPOINT_RWCSTREAM_HostAborted: "The aborted the transfer prematurely"
\* (EndpointStream.h:97).  A stream of data ends when the host begins another transfer
\* in the middle of it (Template_Endpoint_Control_W.c:52-53), and the loop gets to the
\* new request.  Its wait for the status stage, which does not look for SETUP packets,
\* has no such promise: host and device may wait for each other.
AbortIsNoticed == (pc = "write" /\ ep.setup) ~> (pc = "poll" \/ ~ep.setup)
============================================================================
