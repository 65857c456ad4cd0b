------------------------- MODULE ControlPipeProofs --------------------------
(***************************************************************************)
(* Theorems about control requests, for every set of requests a host may   *)
(* make, with resets, suspends and given-up transfers at any place.        *)
(***************************************************************************)
EXTENDS ControlPipe, TLAPS

\* A stream that is being sent has a packet left; a request is stalled when it is out
\* of the bank; before the first reset there is none; a device that is suspended
\* after it does not hear the host; a reset waits for SET_ADDRESS only.
PlacesOK ==
  /\ pc = "write" => toSend > 0
  /\ ~(ep.setup /\ ep.stall)
  /\ host.stage = "off" => pc = "poll" /\ ~ep.setup /\ ~host.clean
  /\ host.stage # "off" /\ Unattached => frozen
  /\ resetWaits => Masked /\ ~host.clean
  /\ settings.endpoints \in {0, 1} /\ host.before.endpoints \in {0, 1}

\* The kinds of requests at each place.
Acknowledged == ClassSetters \union Features \union {"setConfiguration", "vendor"}
KindsOK ==
  /\ pc = "status" => request.kind \in ByteAnswers \union Acknowledged \union {"setAddress"}
  /\ pc = "address" => request.kind = "setAddress"
  /\ pc \in {"write", "writeStatus"} => request.kind \in StreamAnswers
  /\ pc \in {"read", "readStatus"} => request.kind \in StreamTakers
  /\ pc = "effect" => request.kind \in StreamTakers \union Acknowledged
  /\ pc \notin {"poll", "handle", "end"} => Known(request)

\* How far a request has got in a clean transfer: it has not changed anything, it has
\* stored the configuration's number, or it has done what it asks for.
Waiting == pc \in {"poll", "handle"} /\ ep.setup
Stored(s, r) == IF r.kind = "setConfiguration" THEN [s EXCEPT !.configuration = r.value] ELSE s
Progress ==
  LET r == host.asked
      b == host.before
  IN  /\ pc = "handle" => ep.setup
      /\ Waiting => settings = b
      /\ pc \in {"end", "poll"} /\ ~Waiting => settings = IF Known(r) THEN Done(b, r) ELSE b
      /\ pc \notin {"poll", "handle", "end"} =>
           settings = IF r.kind \in Features THEN Done(b, r) ELSE Stored(b, r)

\* What the endpoint and the host know of a clean transfer, of a request that has a
\* handler and of one that has not; SET_ADDRESS is answered at the old address.
Handled ==
  Known(host.asked) => /\ ~ep.stall /\ host.outcome # "stalled"
                       /\ ep.setup => Waiting
Refused ==
  ~Known(host.asked) => /\ ~ep.in /\ host.outcome # "done"
                        /\ pc \in {"poll", "handle", "end"}
                        /\ ep.setup \/ (ep.stall /\ pc = "poll")
                        /\ pc = "end" => ep.setup
Answered ==
  host.asked.kind = "setAddress" =>
    /\ host.stage \in {"statusIn", "idle"}
    /\ Waiting \/ pc = "status" => host.stage = "statusIn" /\ ~ep.in
    /\ pc = "address" => host.outcome = "done" \/ (ep.in /\ host.stage = "statusIn")

Clean ==
  /\ ~Unattached
  /\ pc # "poll" => request = host.asked
  /\ Waiting => ~ep.in /\ ~ep.stall /\ host.outcome = "none"
  /\ pc \in {"readStatus", "effect"} /\ request.kind = "setCurrent" => received = host.asked.value
  /\ host.asked.kind # "vendor" => Progress /\ Handled /\ Refused /\ Answered
CleanOK == host.clean => Clean

IInv == TypeOK /\ PlacesOK /\ KindsOK /\ CleanOK

----------------------------------------------------------------------------
\* The types.

Flags     == [setup : BOOLEAN, in : BOOLEAN, out : BOOLEAN, stall : BOOLEAN]
HostType  == [stage : {"off", "idle", "dataIn", "dataOut", "statusIn", "statusOut"},
              asked : Requests \union {NoRequest}, left : Nat, address : Values,
              outcome : {"none", "done", "stalled"}, clean : BOOLEAN,
              before : [Settings -> Values \union {Undefined}]]
Places    == {"poll", "handle", "status", "address", "write", "writeStatus",
              "read", "readStatus", "effect", "end"}
States    == {"Unattached", "Powered", "Default", "Addressed", "Configured"}

\* The parts of TypeOK.
EpOK       == ep \in Flags
RequestOK  == request \in Requests \union {NoRequest} /\ pc \in Places
StreamOK   == toSend \in Nat /\ received \in Values \union {Undefined}
BusOK      == deviceState \in States /\ suspi \in BOOLEAN /\ frozen \in BOOLEAN /\ resetWaits \in BOOLEAN
SettingsOK == settings \in [Settings -> Values \union {Undefined}]
HostOK     == host \in HostType

LEMMA TypeParts == TypeOK <=> EpOK /\ RequestOK /\ StreamOK /\ BusOK /\ SettingsOK /\ HostOK
  BY Zenon DEF TypeOK, EpOK, Flags, RequestOK, Places, StreamOK, BusOK, States, SettingsOK, HostOK, HostType

LEMMA EpStep == ASSUME TypeOK, [Next]_vars PROVE EpOK'
  <1> USE DEF EpOK
  <1>0. ep \in Flags
    BY TypeParts
  <1>1. ASSUME NEW e \in Flags
        PROVE  /\ ClearSETUP(e) \in Flags /\ ClearIN(e) \in Flags
               /\ ClearOUT(e) \in Flags /\ Stalled(e) \in Flags
    <2>1. ClearSETUP(e) \in Flags
      BY DEF ClearSETUP, Flags
    <2>2. ClearIN(e) \in Flags
      BY DEF ClearIN, Flags
    <2>3. ClearOUT(e) \in Flags
      BY DEF ClearOUT, Flags
    <2>4. Stalled(e) \in Flags
      BY DEF Stalled, Flags
    <2> QED
      BY <2>1, <2>2, <2>3, <2>4
  <1>2. /\ [setup |-> FALSE, in |-> FALSE, out |-> FALSE, stall |-> FALSE] \in Flags
        /\ [setup |-> TRUE, in |-> FALSE, out |-> FALSE, stall |-> FALSE] \in Flags
        /\ \A b \in BOOLEAN : [ep EXCEPT !.in = b] \in Flags
        /\ [ep EXCEPT !.out = TRUE] \in Flags
        /\ ep.in \in BOOLEAN
    <2>1. \A b \in BOOLEAN : [ep EXCEPT !.in = b] \in Flags
      BY <1>0 DEF Flags
    <2>2. [ep EXCEPT !.out = TRUE] \in Flags
      BY <1>0 DEF Flags
    <2>3. ep.in \in BOOLEAN
      BY <1>0 DEF Flags
    <2>4. [setup |-> FALSE, in |-> FALSE, out |-> FALSE, stall |-> FALSE] \in Flags
      BY DEF Flags
    <2>5. [setup |-> TRUE, in |-> FALSE, out |-> FALSE, stall |-> FALSE] \in Flags
      BY DEF Flags
    <2> QED
      BY <2>1, <2>2, <2>3, <2>4, <2>5
  <1>3. CASE ReadSetup \/ VendorRequest \/ AnswerStream \/ AnswerByte \/ TakeStream \/ SetLater
             \/ SetConfiguration \/ ClearSetFeature \/ Ignore
    BY <1>0, <1>1, <1>3
    DEF ReadSetup, VendorRequest, AnswerStream, AnswerByte, TakeStream, SetLater,
        SetConfiguration, ClearSetFeature, Ignore
  <1>4. CASE ClearStatusStage \/ WriteStream \/ WriteStreamStatus \/ ReadStream \/ ReadStreamStatus
    BY <1>0, <1>1, <1>4
    DEF ClearStatusStage, WriteStream, WriteStreamStatus, ReadStream, ReadStreamStatus
  <1>5. CASE SetDeviceAddress \/ Effect \/ EndRequest
    BY <1>0, <1>1, <1>2, <1>5 DEF SetDeviceAddress, Effect, EndRequest
  <1>6. CASE World
    BY <1>0, <1>2, <1>6
    DEF World, HostSetup, HostTakesIn, HostSendsOut, HostSeesStall, Suspend, WakeUp, Reset
  <1>7. CASE UNCHANGED vars
    BY <1>0, <1>7 DEF vars
  <1> QED
    BY <1>3, <1>4, <1>5, <1>6, <1>7 DEF Next, Device

LEMMA RequestStep == ASSUME TypeOK, [Next]_vars PROVE RequestOK'
  <1> USE DEF RequestOK, Places
  <1>0. RequestOK /\ host.asked \in Requests \union {NoRequest}
    BY TypeParts, SMT DEF HostOK, HostType
  <1>3. CASE ReadSetup \/ VendorRequest \/ AnswerStream \/ AnswerByte \/ TakeStream \/ SetLater
             \/ SetConfiguration \/ ClearSetFeature \/ Ignore
    BY <1>0, <1>3
    DEF ReadSetup, VendorRequest, AnswerStream, AnswerByte, TakeStream, SetLater,
        SetConfiguration, ClearSetFeature, Ignore, PipeOnly
  <1>4. CASE ClearStatusStage \/ WriteStream \/ WriteStreamStatus \/ ReadStream \/ ReadStreamStatus
    BY <1>0, <1>4
    DEF ClearStatusStage, WriteStream, WriteStreamStatus, ReadStream, ReadStreamStatus, PipeOnly
  <1>5. CASE SetDeviceAddress \/ Effect \/ EndRequest
    BY <1>0, <1>5 DEF SetDeviceAddress, Effect, EndRequest, Forget
  <1>6. CASE World
    BY <1>0, <1>6
    DEF World, HostSetup, HostTakesIn, HostSendsOut, HostSeesStall, Suspend, WakeUp, Reset, deviceVars
  <1>7. CASE UNCHANGED vars
    BY <1>0, <1>7 DEF vars, deviceVars
  <1> QED
    BY <1>3, <1>4, <1>5, <1>6, <1>7 DEF Next, Device

LEMMA RequestType == ASSUME NEW r \in Requests \union {NoRequest}
                     PROVE  r.value \in Nat /\ r.value \in Values /\ r.kind \in Kinds
  BY RequestsAssumption, SMT DEF NoRequest, Values, Kinds

LEMMA StreamStep == ASSUME TypeOK, PlacesOK, [Next]_vars PROVE StreamOK'
  <1> USE DEF StreamOK
  <1>0. StreamOK /\ request.value \in Nat /\ host.asked.value \in Values \union {Undefined}
    <2>1. request \in Requests \union {NoRequest} /\ host.asked \in Requests \union {NoRequest}
      BY TypeParts, SMT DEF HostOK, HostType, RequestOK
    <2> QED
      BY <2>1, TypeParts, RequestType
  <1>3. CASE ReadSetup \/ VendorRequest \/ AnswerStream \/ AnswerByte \/ TakeStream \/ SetLater
             \/ SetConfiguration \/ ClearSetFeature \/ Ignore
    BY <1>0, <1>3
    DEF ReadSetup, VendorRequest, AnswerStream, AnswerByte, TakeStream, SetLater,
        SetConfiguration, ClearSetFeature, Ignore, PipeOnly
  <1>4. CASE ClearStatusStage \/ WriteStreamStatus \/ ReadStream \/ ReadStreamStatus
    BY <1>0, <1>4
    DEF ClearStatusStage, WriteStreamStatus, ReadStream, ReadStreamStatus, PipeOnly
  <1>w. CASE WriteStream
    BY <1>0, <1>w, SMT DEF WriteStream, PlacesOK, PipeOnly
  <1>5. CASE SetDeviceAddress \/ Effect \/ EndRequest
    BY <1>0, <1>5 DEF SetDeviceAddress, Effect, EndRequest, Forget
  <1>6. CASE World
    BY <1>0, <1>6
    DEF World, HostSetup, HostTakesIn, HostSendsOut, HostSeesStall, Suspend, WakeUp, Reset, deviceVars
  <1>7. CASE UNCHANGED vars
    BY <1>0, <1>7 DEF vars, deviceVars
  <1> QED
    BY <1>3, <1>4, <1>w, <1>5, <1>6, <1>7 DEF Next, Device

LEMMA BusStep == ASSUME TypeOK, [Next]_vars PROVE BusOK'
  <1>0. BusOK
    BY TypeParts
  <1>1. UNCHANGED busVars \/ Effect \/ SetDeviceAddress \/ Suspend \/ WakeUp \/ Reset
    BY Zenon
    DEF Next, Device, World, ReadSetup, VendorRequest, AnswerStream, AnswerByte, TakeStream, SetLater,
        SetConfiguration, ClearSetFeature, Ignore, PipeOnly,
        ClearStatusStage, WriteStream, WriteStreamStatus, ReadStream, ReadStreamStatus, EndRequest,
        HostSetup, HostTakesIn, HostSendsOut, HostSeesStall, vars
  <1>2. CASE UNCHANGED busVars
    BY <1>0, <1>2, Zenon DEF busVars, BusOK
  <1>3. CASE Effect \/ SetDeviceAddress \/ Suspend \/ WakeUp \/ Reset
    BY <1>0, <1>3, Zenon
    DEF Effect, SetDeviceAddress, Suspend, WakeUp, Reset, ConfiguredOrPowered, BusOK, States
  <1> QED
    BY <1>1, <1>2, <1>3

LEMMA SettingsStep == ASSUME TypeOK, [Next]_vars PROVE SettingsOK'
  <1> USE DEF SettingsOK
  <1>0. /\ SettingsOK /\ request.value \in Values /\ {0, 1} \subseteq Values
        /\ received \in Values \union {Undefined}
    BY TypeParts, RequestType, SMT DEF RequestOK, StreamOK, Values
  <1>3. CASE ReadSetup \/ AnswerStream \/ AnswerByte \/ TakeStream \/ SetLater \/ Ignore
    BY <1>0, <1>3 DEF ReadSetup, AnswerStream, AnswerByte, TakeStream, SetLater, Ignore
  <1>8. CASE VendorRequest \/ SetConfiguration \/ ClearSetFeature
    BY <1>0, <1>8 DEF VendorRequest, SetConfiguration, ClearSetFeature, Settings
  <1>4. CASE ClearStatusStage \/ WriteStream \/ WriteStreamStatus \/ ReadStream \/ ReadStreamStatus
    BY <1>0, <1>4
    DEF ClearStatusStage, WriteStream, WriteStreamStatus, ReadStream, ReadStreamStatus
  <1>5. CASE SetDeviceAddress \/ EndRequest
    BY <1>0, <1>5 DEF SetDeviceAddress, EndRequest, ResetServed, Settings
  <1>9. CASE Effect
    BY <1>0, <1>9 DEF Effect, ConfigurationChanged, Settings
  <1>6. CASE World
    BY <1>0, <1>6
    DEF World, HostSetup, HostTakesIn, HostSendsOut, HostSeesStall, Suspend, WakeUp, Reset,
        ResetServed, BusReset, Settings
  <1>7. CASE UNCHANGED vars
    BY <1>0, <1>7 DEF vars
  <1> QED
    BY <1>3, <1>4, <1>5, <1>6, <1>7, <1>8, <1>9 DEF Next, Device

\* The host's record at the start of a transfer.
NewTransfer(r, n) == [host EXCEPT !.stage = DataStage(r), !.asked = r, !.left = n,
                                  !.outcome = "none", !.clean = TRUE, !.before = settings]

LEMMA UpsetType == ASSUME NEW h \in HostType PROVE Upset(h) \in HostType
  <1>1. Untouched \in [Settings -> Values \union {Undefined}]
    BY SMT DEF Untouched, Values
  <1> QED
    BY <1>1 DEF Upset, HostType

LEMMA NewTransferType ==
  ASSUME TypeOK, NEW r \in Requests, NEW n \in Wanted(r)
  PROVE  NewTransfer(r, n) \in HostType
  <1>1. n \in Nat
    BY RequestType, SMT DEF Wanted
  <1>2. DataStage(r) \in {"off", "idle", "dataIn", "dataOut", "statusIn", "statusOut"}
    BY SMT DEF DataStage
  <1>3. host \in HostType /\ settings \in [Settings -> Values \union {Undefined}]
    BY TypeParts DEF HostOK, SettingsOK
  <1> QED
    BY <1>1, <1>2, <1>3 DEF NewTransfer, HostType

LEMMA UpsetFields ==
  ASSUME NEW h \in HostType
  PROVE  /\ ~Upset(h).clean /\ Upset(h).before.endpoints = 0
         /\ Upset(h).stage = h.stage /\ Upset(h).asked = h.asked /\ Upset(h).outcome = h.outcome
  BY DEF Upset, Untouched, HostType, Settings

LEMMA NewTransferFields ==
  ASSUME host \in HostType, NEW r \in Requests, NEW n
  PROVE  /\ NewTransfer(r, n).clean /\ NewTransfer(r, n).before = settings
         /\ NewTransfer(r, n).stage = DataStage(r) /\ NewTransfer(r, n).asked = r
         /\ NewTransfer(r, n).outcome = "none"
  BY DEF NewTransfer, HostType

LEMMA SetupFields ==
  ASSUME TypeOK, NEW r \in Requests, HostSetup(r)
  PROVE  /\ host'.stage = DataStage(r) /\ host'.asked = r /\ host'.outcome = "none"
         /\ host'.clean <=> pc = "poll"
         /\ host'.clean => host'.before = settings
         /\ host'.before.endpoints \in {0, settings.endpoints}
  <1>0. host \in HostType
    BY TypeParts DEF HostOK
  <1>1. PICK n \in Wanted(r) :
          host' = IF pc = "poll" THEN NewTransfer(r, n) ELSE Upset(NewTransfer(r, n))
    BY DEF HostSetup, NewTransfer
  <1>2. NewTransfer(r, n) \in HostType
    BY NewTransferType
  <1>3. CASE pc = "poll"
    BY <1>0, <1>1, <1>3, NewTransferFields
  <1>4. CASE pc # "poll"
    BY <1>0, <1>1, <1>2, <1>4, NewTransferFields, UpsetFields
  <1> QED
    BY <1>3, <1>4

\* What a step leaves of a transfer that goes on.
SameTransfer == /\ host'.asked = host.asked /\ host'.before = host.before
                /\ host'.clean <=> host.clean

LEMMA TakesInFields ==
  ASSUME TypeOK, HostTakesIn
  PROVE  /\ SameTransfer
         /\ \/ /\ host.stage = "dataIn" /\ host'.stage \in {"dataIn", "statusOut"}
               /\ host'.outcome = host.outcome
            \/ host.stage = "statusIn" /\ host'.stage = "idle" /\ host'.outcome = "done"
  <1>0. host \in HostType
    BY TypeParts DEF HostOK
  <1>1. CASE host.stage = "dataIn" /\ host' = [host EXCEPT !.left = host.left - 1]
    BY <1>0, <1>1 DEF SameTransfer, HostType
  <1>2. CASE host.stage = "dataIn" /\ host' = [host EXCEPT !.left = 0, !.stage = "statusOut"]
    BY <1>0, <1>2 DEF SameTransfer, HostType
  <1>3. CASE /\ host.stage = "statusIn"
             /\ host' = [host EXCEPT !.stage = "idle", !.outcome = "done",
                                     !.address = IF host.asked.kind = "setAddress"
                                                   THEN host.asked.value ELSE host.address]
    BY <1>0, <1>3 DEF SameTransfer, HostType
  <1> QED
    BY <1>1, <1>2, <1>3, Zenon DEF HostTakesIn

LEMMA SendsOutFields ==
  ASSUME TypeOK, HostSendsOut
  PROVE  /\ SameTransfer /\ host.stage \in {"dataOut", "statusOut"}
         /\ host'.stage \in {"statusIn", "idle"} /\ host'.outcome \in {host.outcome, "done"}
  <1>0. host \in HostType
    BY TypeParts DEF HostOK
  <1>1. CASE host' = [host EXCEPT !.stage = "statusIn"]
    BY <1>0, <1>1 DEF HostSendsOut, SameTransfer, HostType
  <1>2. CASE host' = [host EXCEPT !.stage = "idle", !.outcome = "done"]
    BY <1>0, <1>2 DEF HostSendsOut, SameTransfer, HostType
  <1> QED
    BY <1>1, <1>2 DEF HostSendsOut

LEMMA SeesStallFields ==
  ASSUME TypeOK, HostSeesStall
  PROVE  SameTransfer /\ host'.stage = "idle" /\ host'.outcome = "stalled"
  BY TypeParts DEF HostOK, HostSeesStall, SameTransfer, HostType

LEMMA UpsetStepFields ==
  ASSUME TypeOK, Suspend \/ Reset
  PROVE  ~host'.clean /\ host'.before.endpoints = 0 /\ host'.stage \in {host.stage, "idle"}
  <1>0. Upset(host) \in HostType /\ host \in HostType
    BY TypeParts, UpsetType DEF HostOK
  <1>1. CASE Suspend
    <2>1. host' = Upset(host)
      BY <1>1 DEF Suspend
    <2> QED
      BY <1>0, <2>1, UpsetFields
  <1>2. CASE Reset
    <2>1. host' = [Upset(host) EXCEPT !.stage = "idle", !.outcome = "none", !.address = 0,
                                      !.asked = NoRequest, !.left = 0]
      BY <1>2 DEF Reset
    <2>2. /\ host'.clean = Upset(host).clean /\ host'.before = Upset(host).before
          /\ host'.stage = "idle"
      BY <1>0, <2>1 DEF HostType
    <2> QED
      BY <1>0, <2>2, UpsetFields
  <1> QED
    BY <1>1, <1>2

LEMMA DeviceKeepsHost == Device => UNCHANGED host
  BY DEF Device, ReadSetup, VendorRequest, AnswerStream, AnswerByte, TakeStream, SetLater,
         SetConfiguration, ClearSetFeature, Ignore, PipeOnly,
         ClearStatusStage, WriteStream, WriteStreamStatus, ReadStream, ReadStreamStatus,
         SetDeviceAddress, Effect, EndRequest

LEMMA HostStep == ASSUME TypeOK, [Next]_vars PROVE HostOK'
  <1> USE DEF HostOK
  <1>0. host \in HostType
    BY TypeParts
  <1>1. CASE Device \/ WakeUp
    BY <1>0, <1>1
    DEF Device, ReadSetup, VendorRequest, AnswerStream, AnswerByte, TakeStream, SetLater,
        SetConfiguration, ClearSetFeature, Ignore, PipeOnly,
        ClearStatusStage, WriteStream, WriteStreamStatus, ReadStream, ReadStreamStatus,
        SetDeviceAddress, Effect, EndRequest, WakeUp
  <1>2. ASSUME NEW r \in Requests, HostSetup(r) PROVE host' \in HostType
    <2>1. PICK n \in Wanted(r) : host' \in {NewTransfer(r, n), Upset(NewTransfer(r, n))}
      BY <1>2 DEF HostSetup, NewTransfer
    <2> QED
      BY <2>1, NewTransferType, UpsetType
  <1>3. CASE HostTakesIn
    <2>1. CASE host.stage = "dataIn" /\ host.left > 1 /\ host' = [host EXCEPT !.left = host.left - 1]
      <3>1. host.left - 1 \in Nat
        BY <1>0, <2>1, SMT DEF HostType
      <3> QED
        BY <1>0, <2>1, <3>1 DEF HostType
    <2>2. CASE host' = [host EXCEPT !.left = 0, !.stage = "statusOut"]
      BY <1>0, <2>2 DEF HostType
    <2>3. CASE host' = [host EXCEPT !.stage = "idle", !.outcome = "done",
                                    !.address = IF host.asked.kind = "setAddress"
                                                  THEN host.asked.value ELSE host.address]
      <3>1. host.asked.value \in Values
        BY <1>0, RequestType DEF HostType
      <3> QED
        BY <1>0, <2>3, <3>1 DEF HostType
    <2> QED
      BY <1>3, <2>1, <2>2, <2>3 DEF HostTakesIn
  <1>4. CASE HostSendsOut
    <2>1. [host EXCEPT !.stage = "statusIn"] \in HostType
      BY <1>0 DEF HostType
    <2>2. [host EXCEPT !.stage = "idle", !.outcome = "done"] \in HostType
      BY <1>0 DEF HostType
    <2> QED
      BY <1>4, <2>1, <2>2 DEF HostSendsOut
  <1>5. CASE HostSeesStall
    BY <1>0, <1>5 DEF HostSeesStall, HostType
  <1>6. CASE Suspend
    BY <1>0, <1>6, UpsetType DEF Suspend
  <1>7. CASE Reset
    <2>1. Upset(host) \in HostType /\ 0 \in Values
      BY <1>0, UpsetType, SMT DEF Values
    <2>2. host' = [Upset(host) EXCEPT !.stage = "idle", !.outcome = "none", !.address = 0,
                                      !.asked = NoRequest, !.left = 0]
      BY <1>7 DEF Reset
    <2> QED
      BY <2>1, <2>2 DEF HostType
  <1>8. CASE UNCHANGED vars
    BY <1>0, <1>8 DEF vars
  <1> QED
    BY <1>1, <1>2, <1>3, <1>4, <1>5, <1>6, <1>7, <1>8 DEF Next, World

----------------------------------------------------------------------------
\* The places.

LEMMA KindsStep == ASSUME KindsOK, [Next]_vars PROVE KindsOK'
  <1> USE DEF KindsOK, Acknowledged, ByteAnswers, ClassSetters, Features, StreamAnswers, StreamTakers, Known
  <1>1. CASE ReadSetup \/ VendorRequest \/ AnswerStream \/ AnswerByte \/ TakeStream \/ SetLater
             \/ SetConfiguration \/ ClearSetFeature \/ Ignore
    BY <1>1
    DEF ReadSetup, VendorRequest, AnswerStream, AnswerByte, TakeStream, SetLater,
        SetConfiguration, ClearSetFeature, Ignore, PipeOnly, Handling
  <1>2. CASE ClearStatusStage \/ WriteStream \/ WriteStreamStatus \/ ReadStream \/ ReadStreamStatus
    BY <1>2
    DEF ClearStatusStage, WriteStream, WriteStreamStatus, ReadStream, ReadStreamStatus, PipeOnly
  <1>3. CASE SetDeviceAddress \/ Effect \/ EndRequest
    BY <1>3 DEF SetDeviceAddress, Effect, EndRequest
  <1>4. CASE World
    BY <1>4
    DEF World, HostSetup, HostTakesIn, HostSendsOut, HostSeesStall, Suspend, WakeUp, Reset, deviceVars
  <1>5. CASE UNCHANGED vars
    BY <1>5 DEF vars, deviceVars
  <1> QED
    BY <1>1, <1>2, <1>3, <1>4, <1>5 DEF Next, Device

\* The parts of PlacesOK.
SendOK      == pc = "write" => toSend > 0
StallOK     == ~(ep.setup /\ ep.stall)
OffOK       == host.stage = "off" => pc = "poll" /\ ~ep.setup /\ ~host.clean
FrozenOK    == host.stage # "off" /\ Unattached => frozen
WaitsOK     == resetWaits => Masked /\ ~host.clean
EndpointsOK == settings.endpoints \in {0, 1} /\ host.before.endpoints \in {0, 1}

LEMMA PlacesParts == PlacesOK <=> SendOK /\ StallOK /\ OffOK /\ FrozenOK /\ WaitsOK /\ EndpointsOK
  BY Zenon DEF PlacesOK, SendOK, StallOK, OffOK, FrozenOK, WaitsOK, EndpointsOK

LEMMA SendStep == ASSUME TypeOK, SendOK, [Next]_vars PROVE SendOK'
  <1>0. request.value \in Nat /\ toSend \in Nat
    BY TypeParts, RequestType DEF RequestOK, StreamOK
  <1>1. CASE AnswerStream
    BY <1>0, <1>1, SMT DEF AnswerStream, SendOK
  <1>2. CASE WriteStream
    BY <1>0, <1>2, SMT DEF WriteStream, SendOK
  <1>3. CASE World \/ UNCHANGED vars
    BY <1>3
    DEF World, HostSetup, HostTakesIn, HostSendsOut, HostSeesStall, Suspend, WakeUp, Reset, deviceVars,
        vars, SendOK
  <1>4. CASE ~(AnswerStream \/ WriteStream \/ World \/ UNCHANGED vars)
    <2>1. pc' # "write"
      BY <1>4, SMT
      DEF Next, Device, ReadSetup, VendorRequest, AnswerByte, TakeStream, SetLater,
          SetConfiguration, ClearSetFeature, Ignore,
          ClearStatusStage, WriteStreamStatus, ReadStream, ReadStreamStatus,
          SetDeviceAddress, Effect, EndRequest
    <2> QED
      BY <2>1 DEF SendOK
  <1> QED
    BY <1>1, <1>2, <1>3, <1>4

LEMMA EndpointsStep == ASSUME TypeOK, EndpointsOK, [Next]_vars PROVE EndpointsOK'
  <1>0. settings \in [Settings -> Values \union {Undefined}] /\ settings.endpoints \in {0, 1}
    BY TypeParts DEF SettingsOK, EndpointsOK
  <1>1. settings'.endpoints \in {0, 1}
    <2>1. CASE ReadSetup \/ AnswerStream \/ AnswerByte \/ TakeStream \/ SetLater \/ Ignore
               \/ ClearStatusStage \/ WriteStream \/ WriteStreamStatus \/ ReadStream \/ ReadStreamStatus
               \/ EndRequest
      BY <1>0, <2>1
      DEF ReadSetup, AnswerStream, AnswerByte, TakeStream, SetLater, Ignore,
          ClearStatusStage, WriteStream, WriteStreamStatus, ReadStream, ReadStreamStatus, EndRequest
    <2>2. CASE VendorRequest \/ SetConfiguration \/ ClearSetFeature
      BY <1>0, <2>2, SMT DEF VendorRequest, SetConfiguration, ClearSetFeature, Handling, Features, Settings
    <2>3. CASE SetDeviceAddress
      <3> DEFINE s == [settings EXCEPT !.address = request.value]
      <3>1. s \in [Settings -> Values \union {Undefined}] /\ s.endpoints = settings.endpoints
        <4>1. request.value \in Values
          BY TypeParts, RequestType DEF RequestOK
        <4> QED
          BY <1>0, <4>1 DEF Settings
      <3>2. settings' = s \/ settings' = ResetServed(s)
        BY <2>3 DEF SetDeviceAddress
      <3> HIDE DEF s
      <3>3. ResetServed(s).endpoints = s.endpoints
        BY <3>1 DEF ResetServed, Settings
      <3> QED
        BY <1>0, <3>1, <3>2, <3>3
    <2>4. CASE Effect
      BY <1>0, <2>4, SMT DEF Effect, ConfigurationChanged, ClassSetters, Field, Settings
    <2>5. CASE World
      BY <1>0, <2>5
      DEF World, HostSetup, HostTakesIn, HostSendsOut, HostSeesStall, Suspend, WakeUp, Reset,
          ResetServed, BusReset, Settings
    <2>6. CASE UNCHANGED vars
      BY <1>0, <2>6 DEF vars
    <2> QED
      BY <2>1, <2>2, <2>3, <2>4, <2>5, <2>6 DEF Next, Device
  <1>2. host'.before.endpoints \in {0, 1}
    <2>0. host \in HostType /\ host.before.endpoints \in {0, 1}
      BY TypeParts DEF HostOK, EndpointsOK
    <2>1. CASE UNCHANGED host
      BY <2>0, <2>1
    <2>2. CASE \E r \in Requests : HostSetup(r)
      BY <1>0, <2>0, <2>2, SetupFields
    <2>3. CASE HostTakesIn \/ HostSendsOut \/ HostSeesStall
      BY <2>0, <2>3, TakesInFields, SendsOutFields, SeesStallFields DEF SameTransfer
    <2>4. CASE Suspend \/ Reset
      BY <2>4, UpsetStepFields
    <2> QED
      BY <2>1, <2>2, <2>3, <2>4, DeviceKeepsHost DEF Next, World, WakeUp, vars
  <1> QED
    BY <1>1, <1>2 DEF EndpointsOK

\* What the helpers do to the flags.
LEMMA FlagFields ==
  ASSUME NEW e \in Flags
  PROVE  /\ /\ ~ClearSETUP(e).setup /\ (ClearSETUP(e).in <=> e.in)
            /\ (ClearSETUP(e).out <=> e.out) /\ (ClearSETUP(e).stall <=> e.stall)
         /\ /\ ClearIN(e).in /\ (ClearIN(e).setup <=> e.setup)
            /\ (ClearIN(e).out <=> e.out) /\ (ClearIN(e).stall <=> e.stall)
         /\ /\ ~ClearOUT(e).out /\ (ClearOUT(e).setup <=> e.setup)
            /\ (ClearOUT(e).in <=> e.in) /\ (ClearOUT(e).stall <=> e.stall)
         /\ /\ Stalled(e).stall /\ (Stalled(e).setup <=> e.setup)
            /\ (Stalled(e).in <=> e.in) /\ (Stalled(e).out <=> e.out)
  <1>1. /\ ~ClearSETUP(e).setup /\ (ClearSETUP(e).in <=> e.in)
        /\ (ClearSETUP(e).out <=> e.out) /\ (ClearSETUP(e).stall <=> e.stall)
    BY DEF ClearSETUP, Flags
  <1>2. /\ ClearIN(e).in /\ (ClearIN(e).setup <=> e.setup)
        /\ (ClearIN(e).out <=> e.out) /\ (ClearIN(e).stall <=> e.stall)
    BY DEF ClearIN, Flags
  <1>3. /\ ~ClearOUT(e).out /\ (ClearOUT(e).setup <=> e.setup)
        /\ (ClearOUT(e).in <=> e.in) /\ (ClearOUT(e).stall <=> e.stall)
    BY DEF ClearOUT, Flags
  <1>4. /\ Stalled(e).stall /\ (Stalled(e).setup <=> e.setup)
        /\ (Stalled(e).in <=> e.in) /\ (Stalled(e).out <=> e.out)
    BY DEF Stalled, Flags
  <1> QED
    BY <1>1, <1>2, <1>3, <1>4

LEMMA FlagTypes == ASSUME NEW e \in Flags PROVE ClearSETUP(e) \in Flags /\ Stalled(e) \in Flags
  <1>1. ClearSETUP(e) \in Flags
    BY DEF ClearSETUP, Flags
  <1>2. Stalled(e) \in Flags
    BY DEF Stalled, Flags
  <1> QED
    BY <1>1, <1>2

\* What a step may do to the flags for SETUP and STALL.
FlagsChange ==
  \/ (ep'.setup <=> ep.setup) /\ (ep'.stall <=> ep.stall)
  \/ ~ep'.setup /\ (ep'.stall <=> ep.stall)
  \/ ~ep'.setup /\ ep'.stall /\ EndRequest
  \/ ~ep'.stall /\ \E r \in Requests : HostSetup(r)
  \/ ~ep'.setup /\ ~ep'.stall /\ (Reset \/ SetDeviceAddress)

LEMMA FlagsChanges == ASSUME TypeOK, [Next]_vars PROVE FlagsChange
  <1>0. ep \in Flags
    BY TypeParts DEF EpOK
  <1> USE DEF FlagsChange
  <1>1. CASE UNCHANGED ep
    BY <1>1
  <1>2. CASE ep' \in {ClearSETUP(ep), ClearIN(ep), ClearOUT(ep), ClearIN(ClearSETUP(ep))}
    BY <1>0, <1>2, FlagFields, FlagTypes
  <1>3. CASE AnswerStream \/ AnswerByte \/ TakeStream \/ SetLater \/ SetConfiguration \/ ClearSetFeature
    BY <1>2, <1>3 DEF AnswerStream, AnswerByte, TakeStream, SetLater, SetConfiguration, ClearSetFeature
  <1>4. CASE ClearStatusStage \/ WriteStream \/ WriteStreamStatus \/ ReadStream \/ ReadStreamStatus
    BY <1>1, <1>2, <1>4
    DEF ClearStatusStage, WriteStream, WriteStreamStatus, ReadStream, ReadStreamStatus
  <1>5. CASE ReadSetup \/ VendorRequest \/ Ignore \/ Effect \/ HostSeesStall \/ Suspend \/ WakeUp
             \/ UNCHANGED vars
    BY <1>1, <1>5 DEF ReadSetup, VendorRequest, Ignore, Effect, HostSeesStall, Suspend, WakeUp, vars
  <1>6. CASE EndRequest
    <2>1. CASE ep.setup
      BY <1>0, <1>6, <2>1, FlagFields, FlagTypes DEF EndRequest
    <2>2. CASE ~ep.setup
      BY <1>1, <1>6, <2>2 DEF EndRequest
    <2> QED
      BY <2>1, <2>2
  <1>7. CASE \E r \in Requests : HostSetup(r)
    <2>1. PICK r \in Requests : HostSetup(r)
      BY <1>7
    <2>2. ~ep'.stall
      <3> HIDE DEF FlagsChange
      <3> QED
        BY <2>1 DEF HostSetup
    <2> QED
      BY <2>1, <2>2
  <1>8. CASE HostTakesIn \/ HostSendsOut
    BY <1>0, <1>8 DEF HostTakesIn, HostSendsOut, Flags
  <1>9. CASE Reset
    <2>1. CASE ~Masked
      BY <1>9, <2>1 DEF Reset
    <2>2. CASE Masked
      BY <1>0, <1>9, <2>2 DEF Reset, Flags
    <2> QED
      BY <2>1, <2>2
  <1>10. CASE SetDeviceAddress
    BY <1>1, <1>10 DEF SetDeviceAddress
  <1> QED
    BY <1>3, <1>4, <1>5, <1>6, <1>7, <1>8, <1>9, <1>10 DEF Next, Device, World

LEMMA StallStep == ASSUME TypeOK, StallOK, [Next]_vars PROVE StallOK'
  BY FlagsChanges DEF FlagsChange, StallOK

LEMMA OffStep == ASSUME TypeOK, OffOK, [Next]_vars PROVE OffOK'
  <1>1. CASE Device
    <2>1. CASE host.stage = "off"
      BY <1>1, <2>1
      DEF OffOK, Device, ReadSetup, VendorRequest, AnswerStream, AnswerByte, TakeStream, SetLater,
          SetConfiguration, ClearSetFeature, Ignore, Handling,
          ClearStatusStage, WriteStream, WriteStreamStatus, ReadStream, ReadStreamStatus,
          SetDeviceAddress, Effect, EndRequest
    <2>2. CASE host.stage # "off"
      BY <1>1, <2>2, DeviceKeepsHost DEF OffOK
    <2> QED
      BY <2>1, <2>2
  <1>2. CASE \E r \in Requests : HostSetup(r)
    <2>1. \A r \in Requests : DataStage(r) # "off"
      BY SMT DEF DataStage
    <2> QED
      BY <1>2, <2>1, SetupFields DEF OffOK
  <1>3. CASE HostTakesIn \/ HostSendsOut \/ HostSeesStall
    BY <1>3, TakesInFields, SendsOutFields, SeesStallFields DEF OffOK
  <1>4. CASE Suspend \/ Reset
    <2>1. host'.stage # "off"
      <3>1. CASE Suspend
        BY <1>4, <3>1, UpsetStepFields DEF Suspend
      <3>2. CASE Reset
        <4>1. Upset(host) \in HostType
          BY TypeParts, UpsetType DEF HostOK
        <4> QED
          BY <3>2, <4>1 DEF Reset, HostType
      <3> QED
        BY <1>4, <3>1, <3>2
    <2> QED
      BY <2>1 DEF OffOK
  <1>5. CASE WakeUp \/ UNCHANGED vars
    BY <1>5 DEF WakeUp, vars, deviceVars, OffOK
  <1> QED
    BY <1>1, <1>2, <1>3, <1>4, <1>5 DEF Next, World

LEMMA FrozenStep == ASSUME TypeOK, OffOK, FrozenOK, [Next]_vars PROVE FrozenOK'
  <1> USE DEF FrozenOK, Unattached
  <1>1. CASE Suspend
    BY <1>1 DEF Suspend
  <1>2. CASE WakeUp
    BY <1>2, SMT DEF WakeUp, ConfiguredOrPowered
  <1>3. CASE Reset
    <2>1. CASE ~Masked
      BY <1>3, <2>1, SMT DEF Reset
    <2>2. CASE Masked
      <3>1. host.stage # "off"
        BY <2>2 DEF OffOK, Masked
      <3>2. deviceState' = deviceState /\ frozen' = frozen
        BY <1>3, <2>2 DEF Reset
      <3> QED
        BY <3>1, <3>2
    <2> QED
      BY <2>1, <2>2
  <1>4. CASE SetDeviceAddress
    BY <1>4, SMT DEF SetDeviceAddress
  <1>5. CASE Effect
    BY <1>5, DeviceKeepsHost, SMT DEF Device, Effect, ConfiguredOrPowered
  <1>6. CASE /\ Device \/ HostTakesIn \/ HostSendsOut \/ HostSeesStall \/ (\E r \in Requests : HostSetup(r))
             /\ ~SetDeviceAddress /\ ~Effect
    <2>1. UNCHANGED busVars
      BY <1>6
      DEF Device, ReadSetup, VendorRequest, AnswerStream, AnswerByte, TakeStream, SetLater,
          SetConfiguration, ClearSetFeature, Ignore, PipeOnly,
          ClearStatusStage, WriteStream, WriteStreamStatus, ReadStream, ReadStreamStatus, EndRequest,
          HostSetup, HostTakesIn, HostSendsOut, HostSeesStall
    <2>2. host.stage = "off" => host'.stage = "off"
      BY <1>6, DeviceKeepsHost DEF HostSetup, HostTakesIn, HostSendsOut, HostSeesStall
    <2> QED
      BY <2>1, <2>2 DEF busVars
  <1>7. CASE UNCHANGED vars
    BY <1>7 DEF vars, busVars
  <1> QED
    BY <1>1, <1>2, <1>3, <1>4, <1>5, <1>6, <1>7 DEF Next, World

LEMMA WaitsStep == ASSUME TypeOK, KindsOK, WaitsOK, [Next]_vars PROVE WaitsOK'
  <1>1. CASE Device
    <2>1. CASE resetWaits
      <3>1. Masked /\ ~host.clean
        BY <2>1 DEF WaitsOK
      <3>2. CASE pc = "status"
        BY <1>1, <3>1, <3>2, DeviceKeepsHost
        DEF WaitsOK, Masked, Device, ReadSetup, VendorRequest, AnswerStream, AnswerByte, TakeStream,
            SetLater, SetConfiguration, ClearSetFeature, Ignore, Handling, PipeOnly,
            ClearStatusStage, ByteAnswers, WriteStream, WriteStreamStatus, ReadStream, ReadStreamStatus,
            SetDeviceAddress, Effect, EndRequest
      <3>3. CASE pc = "address"
        <4>1. ~resetWaits'
          BY <1>1, <3>3, Zenon
          DEF Device, ReadSetup, VendorRequest, AnswerStream, AnswerByte, TakeStream,
              SetLater, SetConfiguration, ClearSetFeature, Ignore, Handling,
              ClearStatusStage, WriteStream, WriteStreamStatus, ReadStream, ReadStreamStatus,
              SetDeviceAddress, Effect, EndRequest
        <4> QED
          BY <4>1 DEF WaitsOK
      <3> QED
        BY <3>1, <3>2, <3>3 DEF Masked
    <2>2. CASE ~resetWaits
      <3>1. ~resetWaits'
        BY <1>1, <2>2, Zenon
        DEF Device, ReadSetup, VendorRequest, AnswerStream, AnswerByte, TakeStream,
            SetLater, SetConfiguration, ClearSetFeature, Ignore, PipeOnly, busVars,
            ClearStatusStage, WriteStream, WriteStreamStatus, ReadStream, ReadStreamStatus,
            SetDeviceAddress, Effect, EndRequest
      <3> QED
        BY <3>1 DEF WaitsOK
    <2> QED
      BY <2>1, <2>2
  <1>2. CASE World
    <2>0. request' = request /\ pc' = pc
      BY <1>2
      DEF World, HostSetup, HostTakesIn, HostSendsOut, HostSeesStall, Suspend, WakeUp, Reset, deviceVars
    <2>1. CASE \E r \in Requests : HostSetup(r)
      <3>1. resetWaits' = resetWaits
        BY <2>1, Zenon DEF HostSetup, busVars
      <3>2. resetWaits => ~host'.clean
        BY <2>1, SetupFields DEF WaitsOK, Masked
      <3> QED
        BY <2>0, <3>1, <3>2, Zenon DEF WaitsOK, Masked
    <2>2. CASE HostTakesIn \/ HostSendsOut \/ HostSeesStall
      <3>1. resetWaits' = resetWaits
        BY <2>2, Zenon DEF HostTakesIn, HostSendsOut, HostSeesStall, busVars
      <3>2. host'.clean <=> host.clean
        BY <2>2, TakesInFields, SendsOutFields, SeesStallFields DEF SameTransfer
      <3> QED
        BY <2>0, <3>1, <3>2, Zenon DEF WaitsOK, Masked
    <2>3. CASE Suspend \/ Reset
      <3>1. resetWaits' = resetWaits \/ Masked
        BY <2>3, Zenon DEF Suspend, Reset
      <3> QED
        BY <2>0, <2>3, <3>1, UpsetStepFields, Zenon DEF WaitsOK, Masked
    <2>4. CASE WakeUp
      BY <2>0, <2>4, Zenon DEF WakeUp, WaitsOK, Masked
    <2> QED
      BY <1>2, <2>1, <2>2, <2>3, <2>4 DEF World
  <1>3. CASE UNCHANGED vars
    BY <1>3, Zenon DEF vars, busVars, deviceVars, WaitsOK, Masked
  <1> QED
    BY <1>1, <1>2, <1>3 DEF Next

LEMMA PlacesStep == ASSUME TypeOK, PlacesOK, KindsOK, [Next]_vars PROVE PlacesOK'
  <1>1. SendOK /\ StallOK /\ OffOK /\ FrozenOK /\ WaitsOK /\ EndpointsOK
    BY PlacesParts
  <1>2. SendOK' /\ StallOK' /\ OffOK' /\ FrozenOK' /\ WaitsOK' /\ EndpointsOK'
    BY <1>1, SendStep, StallStep, OffStep, FrozenStep, WaitsStep, EndpointsStep
  <1> QED
    BY <1>2, PlacesParts, PTL

----------------------------------------------------------------------------
\* Clean transfers.  One goes on, or the host begins one.
GoesOn == host.clean /\ SameTransfer
            /\ (Device \/ HostTakesIn \/ HostSendsOut \/ HostSeesStall \/ WakeUp \/ UNCHANGED vars)
Begins == \E r \in Requests : HostSetup(r) /\ pc = "poll" /\ ~Unattached /\ UNCHANGED deviceState

LEMMA CleanOrigin == ASSUME IInv, [Next]_vars, host'.clean PROVE GoesOn \/ Begins
  <1>0. TypeOK /\ FrozenOK
    BY PlacesParts DEF IInv
  <1>1. CASE Device \/ WakeUp \/ UNCHANGED vars
    BY <1>1, DeviceKeepsHost DEF GoesOn, SameTransfer, WakeUp, vars
  <1>2. CASE HostTakesIn \/ HostSendsOut \/ HostSeesStall
    BY <1>0, <1>2, TakesInFields, SendsOutFields, SeesStallFields DEF GoesOn, SameTransfer
  <1>3. CASE Suspend \/ Reset
    BY <1>0, <1>3, UpsetStepFields
  <1>4. ASSUME NEW r \in Requests, HostSetup(r) PROVE Begins
    <2>1. pc = "poll"
      BY <1>0, <1>4, SetupFields
    <2>2. ~Unattached /\ UNCHANGED deviceState
      BY <1>0, <1>4 DEF HostSetup, FrozenOK, busVars
    <2> QED
      BY <1>4, <2>1, <2>2 DEF Begins
  <1> QED
    BY <1>1, <1>2, <1>3, <1>4 DEF Next, World

\* The bus is there.
LEMMA AttachedStep == ASSUME IInv, CleanOK, [Next]_vars, host'.clean PROVE ~Unattached'
  <1> USE DEF Unattached
  <1>1. CASE Begins
    BY <1>1 DEF Begins
  <1>2. CASE GoesOn
    <2>0. ~Unattached
      BY <1>2 DEF GoesOn, CleanOK, Clean
    <2>1. CASE Effect \/ WakeUp
      BY <2>0, <2>1, SMT DEF Effect, WakeUp, ConfiguredOrPowered
    <2>2. CASE SetDeviceAddress
      BY <2>2, SMT DEF SetDeviceAddress
    <2>3. CASE GoesOn /\ ~Effect /\ ~WakeUp /\ ~SetDeviceAddress
      <3>1. UNCHANGED deviceState
        BY <2>3, Zenon
        DEF GoesOn, Device, ReadSetup, VendorRequest, AnswerStream, AnswerByte, TakeStream, SetLater,
            SetConfiguration, ClearSetFeature, Ignore, PipeOnly, busVars,
            ClearStatusStage, WriteStream, WriteStreamStatus, ReadStream, ReadStreamStatus, EndRequest,
            HostTakesIn, HostSendsOut, HostSeesStall, vars
      <3> QED
        BY <2>0, <3>1
    <2> QED
      BY <1>2, <2>1, <2>2, <2>3
  <1> QED
    BY <1>1, <1>2, CleanOrigin

\* What a step of the device does to the place and the request.
Starts == pc = "handle" /\ pc' \notin {"poll", "handle"}
Passes == pc \notin {"poll", "handle", "end"} /\ pc' \notin {"poll", "handle"}
LEMMA DevicePlaces ==
  ASSUME Device
  PROVE  \/ ReadSetup
         \/ (Starts \/ Passes) /\ UNCHANGED request
         \/ EndRequest
  BY DEF Starts, Passes, Device, ReadSetup, VendorRequest, AnswerStream, AnswerByte, TakeStream, SetLater,
         SetConfiguration, ClearSetFeature, Ignore, PipeOnly, Handling,
         ClearStatusStage, WriteStream, WriteStreamStatus, ReadStream, ReadStreamStatus,
         SetDeviceAddress, Effect

LEMMA WorldKeepsPlace ==
  ASSUME HostTakesIn \/ HostSendsOut \/ HostSeesStall \/ WakeUp \/ UNCHANGED vars
  PROVE  UNCHANGED deviceVars /\ UNCHANGED settings
  BY DEF HostTakesIn, HostSendsOut, HostSeesStall, WakeUp, vars

\* The device works on what the host has asked for.
LEMMA AskedStep ==
  ASSUME IInv, CleanOK, [Next]_vars, host'.clean, pc' # "poll"
  PROVE  request' = host'.asked
  <1>1. CASE Begins
    BY <1>1 DEF Begins, HostSetup, deviceVars
  <1>2. CASE GoesOn
    <2>0. pc # "poll" => request = host.asked
      BY <1>2 DEF GoesOn, CleanOK, Clean
    <2>1. CASE Device
      BY <1>2, <2>0, <2>1, DevicePlaces DEF GoesOn, SameTransfer, Starts, Passes, ReadSetup, EndRequest
    <2>2. CASE ~Device
      BY <1>2, <2>0, <2>2, WorldKeepsPlace DEF GoesOn, SameTransfer, deviceVars
    <2> QED
      BY <2>1, <2>2
  <1> QED
    BY <1>1, <1>2, CleanOrigin

\* Nothing happens to a packet that waits.
LEMMA WaitingStep ==
  ASSUME IInv, CleanOK, [Next]_vars, host'.clean, Waiting'
  PROVE  ~ep'.in /\ ~ep'.stall /\ host'.outcome = "none"
  <1>0. TypeOK /\ ep \in Flags
    BY TypeParts DEF IInv, EpOK
  <1>1. CASE Begins
    <2>1. PICK r \in Requests : HostSetup(r)
      BY <1>1 DEF Begins
    <2>2. host'.outcome = "none"
      BY <1>0, <2>1, SetupFields
    <2>3. ~ep'.in /\ ~ep'.stall
      BY <2>1 DEF HostSetup
    <2> QED
      BY <2>2, <2>3
  <1>2. CASE GoesOn
    <2>0. Waiting => ~ep.in /\ ~ep.stall /\ host.outcome = "none"
      BY <1>2 DEF GoesOn, CleanOK, Clean
    <2>1. CASE Device
      <3>1. ReadSetup
        <4>1. CASE EndRequest
          <5>1. ~ep'.setup
            BY <1>0, <4>1, FlagFields, FlagTypes DEF EndRequest
          <5> QED
            BY <5>1 DEF Waiting
        <4> QED
          BY <2>1, <4>1, DevicePlaces DEF Starts, Passes, Waiting
      <3> QED
        BY <2>0, <2>1, <3>1, DeviceKeepsHost DEF ReadSetup, Waiting
    <2>2. CASE HostTakesIn \/ HostSendsOut
      <3>1. Waiting
        BY <1>0, <2>2 DEF HostTakesIn, HostSendsOut, Waiting, deviceVars, Flags
      <3>2. ep.setup /\ ~ep.in
        BY <2>0, <3>1 DEF Waiting
      <3> QED
        BY <2>2, <3>2 DEF HostTakesIn, HostSendsOut
    <2>3. CASE HostSeesStall
      BY <2>0, <2>3 DEF HostSeesStall, Waiting, deviceVars
    <2>4. CASE WakeUp \/ UNCHANGED vars
      BY <2>0, <2>4 DEF WakeUp, vars, Waiting, deviceVars
    <2> QED
      BY <1>2, <2>1, <2>2, <2>3, <2>4 DEF GoesOn
  <1> QED
    BY <1>1, <1>2, CleanOrigin

\* What is read is what the host has sent.
LEMMA ReceivedStep ==
  ASSUME IInv, CleanOK, [Next]_vars, host'.clean,
         pc' \in {"readStatus", "effect"}, request'.kind = "setCurrent",
         host'.asked.kind # "vendor"
  PROVE  received' = host'.asked.value
  <1>1. CASE Begins
    BY <1>1 DEF Begins, HostSetup, deviceVars
  <1>2. CASE GoesOn
    <2>0. /\ pc \in {"readStatus", "effect"} /\ request.kind = "setCurrent" => received = host.asked.value
          /\ ~Unattached /\ (pc # "poll" => request = host.asked)
          /\ pc = "read" /\ host.asked.kind # "vendor" => ~ep.setup
      <3>1. Clean
        BY <1>2 DEF GoesOn, CleanOK
      <3>2. pc = "read" /\ host.asked.kind # "vendor" => ~ep.setup
        <4>1. pc = "read" => Known(request)
          BY DEF IInv, KindsOK
        <4> QED
          BY <3>1, <4>1 DEF Clean, Handled, Waiting
      <3> QED
        BY <3>1, <3>2 DEF Clean
    <2>1. CASE Device
      <3>1. /\ ReadStream \/ ReadStreamStatus \/ ClearStatusStage
            /\ request' = request
        BY <2>1
        DEF Device, ReadSetup, VendorRequest, AnswerStream, AnswerByte, TakeStream, SetLater,
            SetConfiguration, ClearSetFeature, Ignore, PipeOnly,
            ClearStatusStage, WriteStream, WriteStreamStatus, ReadStream, ReadStreamStatus,
            SetDeviceAddress, Effect, EndRequest
      <3>2. ~ClearStatusStage
        BY <3>1 DEF ClearStatusStage, IInv, KindsOK, ByteAnswers, Acknowledged, ClassSetters, Features
      <3>3. CASE ReadStream
        BY <1>2, <2>0, <3>3 DEF ReadStream, GoesOn, SameTransfer
      <3>4. CASE ReadStreamStatus
        BY <1>2, <2>0, <3>1, <3>4 DEF ReadStreamStatus, GoesOn, SameTransfer
      <3> QED
        BY <3>1, <3>2, <3>3, <3>4
    <2>2. CASE ~Device
      BY <1>2, <2>0, <2>2, WorldKeepsPlace DEF GoesOn, SameTransfer, deviceVars
    <2> QED
      BY <2>1, <2>2
  <1> QED
    BY <1>1, <1>2, CleanOrigin

\* What is known of a clean transfer that goes on, of any request but the vendor's.
LEMMA CleanFacts ==
  ASSUME IInv, GoesOn, host.asked.kind # "vendor"
  PROVE  /\ Clean /\ Progress /\ Handled /\ Refused /\ Answered
         /\ pc # "poll" => request = host.asked
         /\ pc = "handle" => ep.setup /\ Waiting
         /\ ep \in Flags /\ host \in HostType
         /\ settings \in [Settings -> Values \union {Undefined}]
         /\ ~resetWaits
  <1>1. Clean /\ Progress /\ Handled /\ Refused /\ Answered
    BY DEF IInv, CleanOK, GoesOn, Clean
  <1>2. ~resetWaits
    BY PlacesParts DEF IInv, WaitsOK, GoesOn
  <1>3. /\ ep \in Flags /\ host \in HostType
        /\ settings \in [Settings -> Values \union {Undefined}]
    BY TypeParts DEF IInv, EpOK, HostOK, SettingsOK
  <1> QED
    BY <1>1, <1>2, <1>3 DEF Clean, Progress, Waiting

\* The packet that waits to be handled, over a step of the device.
LEMMA DeviceWaiting ==
  ASSUME IInv, Device, GoesOn, host.asked.kind # "vendor"
  PROVE  /\ Waiting' <=> ReadSetup
         /\ ReadSetup => Waiting /\ UNCHANGED <<ep, settings>> /\ pc' = "handle"
  <1>1. ReadSetup => Waiting /\ Waiting' /\ UNCHANGED <<ep, settings>> /\ pc' = "handle"
    BY DEF ReadSetup, Waiting
  <1>2. EndRequest => ~Waiting'
    BY CleanFacts, FlagFields, FlagTypes DEF EndRequest, Waiting
  <1>3. Starts \/ Passes => ~Waiting'
    BY DEF Starts, Passes, Waiting
  <1> QED
    BY <1>1, <1>2, <1>3, DevicePlaces

\* Settings as the first part of a handler leaves them.
LEMMA FirstPart ==
  ASSUME IInv, Device, GoesOn, host.asked.kind # "vendor", pc = "handle"
  PROVE  settings' = CASE ~Known(host.asked) -> host.before
                       [] Known(host.asked) /\ host.asked.kind \in Features -> Done(host.before, host.asked)
                       [] OTHER -> Stored(host.before, host.asked)
  <1> DEFINE r == host.asked
             b == host.before
  <1>0. /\ request = r /\ settings = b /\ b.endpoints \in {0, 1}
        /\ b \in [Settings -> Values \union {Undefined}]
    BY CleanFacts, PlacesParts DEF Progress, IInv, EndpointsOK
  <1>1. CASE ReadSetup \/ VendorRequest \/ EndRequest
    BY <1>0, <1>1 DEF ReadSetup, VendorRequest, EndRequest, Handling
  <1>2. CASE ClearStatusStage \/ WriteStream \/ WriteStreamStatus \/ ReadStream \/ ReadStreamStatus
             \/ SetDeviceAddress \/ Effect
    BY <1>2 DEF ClearStatusStage, WriteStream, WriteStreamStatus, ReadStream, ReadStreamStatus,
                SetDeviceAddress, Effect
  <1>3. CASE AnswerStream \/ AnswerByte \/ TakeStream \/ SetLater
    <2>1. /\ settings' = b /\ r.kind \notin Features /\ r.kind # "setConfiguration"
          /\ Known(r)
      BY <1>0, <1>3
      DEF AnswerStream, AnswerByte, TakeStream, SetLater, Handling, Known,
          StreamAnswers, ByteAnswers, StreamTakers, ClassSetters, Features
    <2> QED
      BY <2>1 DEF Stored
  <1>4. CASE SetConfiguration
    <2>1. settings' = Stored(b, r) /\ r.kind \notin Features /\ Known(r)
      BY <1>0, <1>4 DEF SetConfiguration, Handling, Stored, Features, Known
    <2> QED
      BY <2>1
  <1>5. CASE ClearSetFeature
    <2>1. r.kind \in Features /\ Known(r)
      BY <1>0, <1>5 DEF ClearSetFeature, Handling, Known, Features
    <2>2. settings' = Done(b, r)
      <3>1. CASE r.kind = "wakeup"
        BY <1>0, <1>5, <3>1 DEF ClearSetFeature, Done
      <3>2. CASE r.kind = "halt"
        BY <1>0, <1>5, <3>2 DEF ClearSetFeature, Done
      <3> QED
        BY <2>1, <3>1, <3>2 DEF Features
    <2> QED
      BY <2>1, <2>2
  <1>6. CASE Ignore
    BY <1>0, <1>6 DEF Ignore
  <1> QED
    BY <1>1, <1>2, <1>3, <1>4, <1>5, <1>6 DEF Device

\* Settings as the rest of a handler leaves them: what has been stored becomes what
\* has been asked for by the time the handler returns.
LEMMA SecondPart ==
  ASSUME IInv, Device, GoesOn, host.asked.kind # "vendor", pc \notin {"poll", "handle", "end"}
  PROVE  /\ Known(host.asked)
         /\ pc' = "end" => settings' = Done(host.before, host.asked)
         /\ pc' # "end" => settings' = settings
  <1> DEFINE r == host.asked
             b == host.before
  <1>0. /\ request = r /\ Known(r) /\ b \in [Settings -> Values \union {Undefined}]
        /\ settings = IF r.kind \in Features THEN Done(b, r) ELSE Stored(b, r)
        /\ settings \in [Settings -> Values \union {Undefined}]
    BY CleanFacts DEF Progress, IInv, KindsOK, HostType
  <1>1. r.kind \in StreamAnswers \union ByteAnswers \union {"setReport"} => settings = Done(b, r)
    BY <1>0 DEF StreamAnswers, ByteAnswers, Features, Stored, Done
  <1>2. CASE ClearStatusStage
    BY <1>0, <1>1, <1>2 DEF ClearStatusStage
  <1>3. CASE WriteStream \/ WriteStreamStatus
    BY <1>0, <1>1, <1>3 DEF WriteStream, WriteStreamStatus, IInv, KindsOK
  <1>4. CASE ReadStream \/ ReadStreamStatus
    BY <1>0, <1>4 DEF ReadStream, ReadStreamStatus
  <1>5. CASE SetDeviceAddress
    <2>1. r.kind = "setAddress" /\ ~resetWaits
      BY <1>0, <1>5, CleanFacts DEF SetDeviceAddress, IInv, KindsOK
    <2>2. settings = b
      BY <1>0, <2>1 DEF Features, Stored
    <2>3. settings' = [b EXCEPT !.address = r.value] /\ pc' = "end"
      BY <1>0, <1>5, <2>1, <2>2 DEF SetDeviceAddress
    <2> QED
      BY <1>0, <2>1, <2>3 DEF Done
  <1>6. CASE Effect
    <2>0. r.kind \in StreamTakers \union ClassSetters \union Features \union {"setConfiguration"}
      BY <1>0, <1>6 DEF Effect, IInv, KindsOK, Acknowledged
    <2>1. CASE r.kind = "setConfiguration"
      <3>1. settings = [b EXCEPT !.configuration = r.value]
        BY <1>0, <2>1 DEF Features, Stored
      <3>2. settings' = ConfigurationChanged
        BY <1>0, <1>6, <2>1 DEF Effect, ClassSetters
      <3>3. settings' = [settings EXCEPT !.endpoints = 1, !.halt = 0, !.protocol = 1, !.idle = 1, !.interface = 0]
        BY <3>2 DEF ConfigurationChanged
      <3>4. settings' = [b EXCEPT !.configuration = r.value, !.endpoints = 1,
                                  !.halt = 0, !.protocol = 1, !.idle = 1, !.interface = 0]
        BY <1>0, <3>1, <3>3
      <3> QED
        BY <1>0, <1>6, <2>1, <3>4 DEF Effect, Done
    <2>2. CASE r.kind \in ClassSetters
      <3>1. settings = b
        BY <1>0, <2>2 DEF ClassSetters, Features, Stored
      <3>2. settings' = [b EXCEPT ![Field[r.kind]] = r.value]
        BY <1>0, <1>6, <2>2, <3>1 DEF Effect, ClassSetters
      <3>3. ASSUME r.kind = "setProtocol" PROVE settings' = Done(b, r)
        <4>1. Field[r.kind] = "protocol"
          BY <3>3 DEF Field
        <4>2. settings' = [b EXCEPT !.protocol = r.value]
          BY <3>2, <4>1
        <4> QED
          BY <3>3, <4>2 DEF Done
      <3>4. ASSUME r.kind = "setIdle" PROVE settings' = Done(b, r)
        <4>1. Field[r.kind] = "idle"
          BY <3>4 DEF Field
        <4>2. settings' = [b EXCEPT !.idle = r.value]
          BY <3>2, <4>1
        <4> QED
          BY <3>4, <4>2 DEF Done
      <3>5. ASSUME r.kind = "setInterface" PROVE settings' = Done(b, r)
        <4>1. Field[r.kind] = "interface"
          BY <3>5 DEF Field
        <4>2. settings' = [b EXCEPT !.interface = r.value]
          BY <3>2, <4>1
        <4> QED
          BY <3>5, <4>2 DEF Done
      <3> QED
        BY <1>0, <1>6, <2>2, <3>3, <3>4, <3>5 DEF Effect, ClassSetters
    <2>3. CASE r.kind = "setCurrent"
      <3>1. settings = b /\ received = r.value
        BY <1>0, <1>6, <2>3, CleanFacts DEF Effect, Clean, Features, Stored
      <3>2. settings' = [b EXCEPT !.rate = r.value]
        BY <1>0, <1>6, <2>3, <3>1 DEF Effect, ClassSetters
      <3> QED
        BY <1>0, <1>6, <2>3, <3>2 DEF Effect, Done
    <2>4. CASE r.kind \in Features \union {"setReport"}
      BY <1>0, <1>1, <1>6, <2>4 DEF Effect, Features, ClassSetters
    <2> QED
      BY <2>0, <2>1, <2>2, <2>3, <2>4 DEF StreamTakers
  <1>7. CASE ReadSetup \/ VendorRequest \/ AnswerStream \/ AnswerByte \/ TakeStream \/ SetLater
             \/ SetConfiguration \/ ClearSetFeature \/ Ignore \/ EndRequest
    BY <1>7 DEF ReadSetup, VendorRequest, AnswerStream, AnswerByte, TakeStream, SetLater,
                SetConfiguration, ClearSetFeature, Ignore, EndRequest, Handling
  <1> QED
    BY <1>2, <1>3, <1>4, <1>5, <1>6, <1>7 DEF Device

\* What is done in a clean transfer has been asked for.
LEMMA ProgressStep ==
  ASSUME IInv, [Next]_vars, host'.clean, host'.asked.kind # "vendor"
  PROVE  Progress'
  <1>1. CASE Begins
    <2>1. PICK r \in Requests : HostSetup(r)
      BY <1>1 DEF Begins
    <2>2. pc = "poll" /\ pc' = "poll" /\ settings' = settings /\ host'.before = settings
      BY <1>1, <2>1, SetupFields DEF Begins, HostSetup, deviceVars, IInv
    <2>3. ep'.setup
      BY <2>1 DEF HostSetup
    <2> QED
      BY <2>2, <2>3 DEF Progress, Waiting
  <1>2. CASE GoesOn /\ Device
    <2>0. /\ host' = host /\ host.asked.kind # "vendor" /\ Progress /\ Refused
          /\ pc # "poll" => request = host.asked
      BY <1>2, DeviceKeepsHost, CleanFacts
    <2>1. CASE ReadSetup
      <3>1. Waiting /\ Waiting' /\ ep' = ep /\ settings' = settings /\ pc' = "handle"
        BY <1>2, <2>0, <2>1, DeviceWaiting
      <3> QED
        BY <2>0, <3>1 DEF Progress, Waiting
    <2>2. CASE EndRequest
      <3>1. ~Waiting' /\ pc = "end" /\ pc' = "poll" /\ settings' = settings
        <4>1. ~ReadSetup
          BY <2>2 DEF EndRequest, ReadSetup
        <4> QED
          BY <1>2, <2>0, <2>2, <4>1, DeviceWaiting DEF EndRequest
      <3> QED
        BY <2>0, <3>1 DEF Progress, Waiting
    <2>3. CASE Starts
      <3>1. settings' = CASE ~Known(host.asked) -> host.before
                          [] Known(host.asked) /\ host.asked.kind \in Features -> Done(host.before, host.asked)
                          [] OTHER -> Stored(host.before, host.asked)
        BY <1>2, <2>0, <2>3, FirstPart DEF Starts
      <3>2. pc' \notin {"poll", "handle"} /\ (pc' = "end" <=> ~Known(host.asked))
        <4>1. pc' = "end" <=> ~Known(request)
          BY <1>2, <2>3
          DEF Starts, Device, ReadSetup, VendorRequest, AnswerStream, AnswerByte, TakeStream, SetLater,
              SetConfiguration, ClearSetFeature, Ignore, Handling, Known,
              StreamAnswers, ByteAnswers, StreamTakers, ClassSetters, Features,
              ClearStatusStage, WriteStream, WriteStreamStatus, ReadStream, ReadStreamStatus,
              SetDeviceAddress, Effect, EndRequest
        <4> QED
          BY <2>0, <2>3, <4>1 DEF Starts
      <3> QED
        BY <2>0, <3>1, <3>2 DEF Progress, Waiting
    <2>4. CASE Passes
      <3>1. /\ Known(host.asked)
            /\ pc' = "end" => settings' = Done(host.before, host.asked)
            /\ pc' # "end" => settings' = settings
            /\ pc \notin {"poll", "handle", "end"} /\ pc' \notin {"poll", "handle"}
        BY <1>2, <2>0, <2>4, SecondPart DEF Passes
      <3> QED
        BY <2>0, <3>1 DEF Progress, Waiting
    <2> QED
      BY <1>2, <2>1, <2>2, <2>3, <2>4, DevicePlaces
  <1>3. CASE GoesOn /\ ~Device
    <2>0. /\ host'.asked = host.asked /\ host'.before = host.before
          /\ pc' = pc /\ settings' = settings
      BY <1>3, WorldKeepsPlace DEF GoesOn, SameTransfer, deviceVars
    <2>1. Progress /\ ep \in Flags
      BY <1>3, <2>0, CleanFacts
    <2>2. ep'.setup <=> ep.setup
      BY <1>3, <2>1 DEF GoesOn, HostTakesIn, HostSendsOut, HostSeesStall, WakeUp, vars, Flags
    <2> QED
      BY <2>0, <2>1, <2>2 DEF Progress, Waiting
  <1> QED
    BY <1>1, <1>2, <1>3, CleanOrigin

\* A step of the device that leaves the endpoint's SETUP and STALL flags.
LEMMA PassesFlags ==
  ASSUME IInv, Device, GoesOn, host.asked.kind # "vendor", Passes
  PROVE  (ep'.setup <=> ep.setup) /\ (ep'.stall <=> ep.stall)
  <1>0. ep \in Flags /\ ~resetWaits
    BY CleanFacts
  <1>1. CASE ClearStatusStage \/ WriteStream \/ WriteStreamStatus \/ ReadStream \/ ReadStreamStatus
    BY <1>0, <1>1, FlagFields
    DEF ClearStatusStage, WriteStream, WriteStreamStatus, ReadStream, ReadStreamStatus
  <1>2. CASE SetDeviceAddress \/ Effect
    BY <1>0, <1>2 DEF SetDeviceAddress, Effect
  <1>3. CASE ReadSetup \/ VendorRequest \/ AnswerStream \/ AnswerByte \/ TakeStream \/ SetLater
             \/ SetConfiguration \/ ClearSetFeature \/ Ignore \/ EndRequest
    BY <1>3 DEF Passes, ReadSetup, VendorRequest, AnswerStream, AnswerByte, TakeStream, SetLater,
                SetConfiguration, ClearSetFeature, Ignore, EndRequest, Handling
  <1> QED
    BY <1>1, <1>2, <1>3 DEF Device

\* A handler takes the packet out of the bank; a request without one leaves it there.
LEMMA StartsFlags ==
  ASSUME IInv, Device, GoesOn, host.asked.kind # "vendor", Starts
  PROVE  /\ Known(request) => ~ep'.setup /\ (ep'.stall <=> ep.stall)
         /\ ~Known(request) => Ignore /\ ep' = ep /\ pc' = "end"
  <1>0. ep \in Flags /\ request = host.asked
    BY CleanFacts DEF Starts
  <1>1. CASE AnswerStream \/ AnswerByte \/ TakeStream \/ SetLater \/ SetConfiguration \/ ClearSetFeature
    <2>1. ep' \in {ClearSETUP(ep), ClearIN(ClearSETUP(ep))}
      BY <1>1 DEF AnswerStream, AnswerByte, TakeStream, SetLater, SetConfiguration, ClearSetFeature
    <2>2. ~ep'.setup /\ (ep'.stall <=> ep.stall)
      BY <1>0, <2>1, FlagFields, FlagTypes
    <2>3. Known(request)
      BY <1>1
      DEF AnswerStream, AnswerByte, TakeStream, SetLater, SetConfiguration, ClearSetFeature, Handling,
          Known, StreamAnswers, ByteAnswers, StreamTakers, ClassSetters, Features
    <2> QED
      BY <2>2, <2>3
  <1>2. CASE Ignore
    BY <1>2 DEF Ignore
  <1>3. CASE ReadSetup \/ VendorRequest \/ EndRequest \/ ClearStatusStage \/ WriteStream
             \/ WriteStreamStatus \/ ReadStream \/ ReadStreamStatus \/ SetDeviceAddress \/ Effect
    BY <1>0, <1>3 DEF Starts, ReadSetup, VendorRequest, EndRequest, Handling, ClearStatusStage, WriteStream,
                      WriteStreamStatus, ReadStream, ReadStreamStatus, SetDeviceAddress, Effect
  <1> QED
    BY <1>1, <1>2, <1>3 DEF Device

\* A request that has a handler is never stalled.
LEMMA HandledStep ==
  ASSUME IInv, [Next]_vars, host'.clean, host'.asked.kind # "vendor", Known(host'.asked)
  PROVE  ~ep'.stall /\ host'.outcome # "stalled" /\ (ep'.setup => Waiting')
  <1>1. CASE Begins
    <2>1. PICK r \in Requests : HostSetup(r)
      BY <1>1 DEF Begins
    <2>2. host'.outcome = "none" /\ pc' = "poll"
      BY <1>1, <2>1, SetupFields DEF Begins, HostSetup, deviceVars, IInv
    <2>3. ~ep'.stall
      BY <2>1 DEF HostSetup
    <2> QED
      BY <2>2, <2>3 DEF Waiting
  <1>2. CASE GoesOn /\ Device
    <2>0. /\ host' = host /\ host.asked.kind # "vendor" /\ ep \in Flags /\ Known(host.asked)
          /\ ~ep.stall /\ host.outcome # "stalled" /\ (ep.setup => Waiting)
          /\ pc # "poll" => request = host.asked
      BY <1>2, DeviceKeepsHost, CleanFacts DEF Handled
    <2>1. CASE ReadSetup
      BY <1>2, <2>0, <2>1, DeviceWaiting
    <2>2. CASE EndRequest
      BY <2>0, <2>2 DEF EndRequest, Waiting
    <2>3. CASE Starts
      BY <1>2, <2>0, <2>3, StartsFlags DEF Starts
    <2>4. CASE Passes
      BY <1>2, <2>0, <2>4, PassesFlags DEF Passes, Waiting
    <2> QED
      BY <1>2, <2>1, <2>2, <2>3, <2>4, DevicePlaces
  <1>3. CASE GoesOn /\ ~Device
    <2>0. host'.asked = host.asked /\ pc' = pc
      BY <1>3, WorldKeepsPlace DEF GoesOn, SameTransfer, deviceVars
    <2>1. ep \in Flags /\ ~ep.stall /\ host.outcome # "stalled" /\ (ep.setup => Waiting)
      BY <1>3, <2>0, CleanFacts DEF Handled
    <2>2. (ep'.setup <=> ep.setup) /\ (ep'.stall <=> ep.stall)
      BY <1>3, <2>1 DEF GoesOn, HostTakesIn, HostSendsOut, HostSeesStall, WakeUp, vars, Flags
    <2>3. host'.outcome # "stalled"
      <3>1. CASE HostTakesIn \/ HostSendsOut
        BY <2>1, <3>1, TakesInFields, SendsOutFields DEF IInv
      <3>2. CASE WakeUp \/ UNCHANGED vars
        BY <2>1, <3>2 DEF WakeUp, vars
      <3>3. ~HostSeesStall
        BY <2>1 DEF HostSeesStall
      <3> QED
        BY <1>3, <3>1, <3>2, <3>3 DEF GoesOn
    <2> QED
      BY <2>0, <2>1, <2>2, <2>3 DEF Waiting
  <1> QED
    BY <1>1, <1>2, <1>3, CleanOrigin

\* One that has none is never answered.
LEMMA RefusedStep ==
  ASSUME IInv, [Next]_vars, host'.clean, host'.asked.kind # "vendor"
  PROVE  Refused'
  <1>1. CASE Begins
    <2>1. PICK r \in Requests : HostSetup(r)
      BY <1>1 DEF Begins
    <2>2. host'.outcome = "none" /\ pc' = "poll"
      BY <1>1, <2>1, SetupFields DEF Begins, HostSetup, deviceVars, IInv
    <2>3. ~ep'.in /\ ep'.setup
      BY <2>1 DEF HostSetup
    <2> QED
      BY <2>2, <2>3 DEF Refused
  <1>2. CASE GoesOn /\ Device
    <2>0. /\ host' = host /\ host.asked.kind # "vendor" /\ ep \in Flags /\ Refused
          /\ pc # "poll" => request = host.asked
      BY <1>2, DeviceKeepsHost, CleanFacts
    <2>1. CASE ReadSetup
      BY <1>2, <2>0, <2>1, DeviceWaiting DEF Refused, Waiting
    <2>2. CASE EndRequest
      BY <2>0, <2>2, FlagFields, FlagTypes DEF EndRequest, Refused
    <2>3. CASE Starts
      <3>1. request = host.asked
        BY <2>0, <2>3 DEF Starts
      <3>2. ~Known(host.asked) => ep' = ep /\ pc' = "end" /\ pc = "handle"
        BY <1>2, <2>0, <2>3, <3>1, StartsFlags DEF Starts
      <3> QED
        BY <2>0, <3>2 DEF Refused
    <2>4. CASE Passes
      BY <1>2, <2>0, <2>4, SecondPart DEF Passes, Refused
    <2> QED
      BY <1>2, <2>1, <2>2, <2>3, <2>4, DevicePlaces
  <1>3. CASE GoesOn /\ ~Device
    <2>0. host'.asked = host.asked /\ pc' = pc
      BY <1>3, WorldKeepsPlace DEF GoesOn, SameTransfer, deviceVars
    <2>1. Refused
      BY <1>3, <2>0, CleanFacts
    <2>2. CASE HostTakesIn \/ HostSendsOut
      BY <2>0, <2>1, <2>2 DEF HostTakesIn, HostSendsOut, Refused
    <2>3. CASE HostSeesStall
      BY <2>0, <2>1, <2>3, SeesStallFields DEF HostSeesStall, Refused, IInv
    <2>4. CASE WakeUp \/ UNCHANGED vars
      BY <2>1, <2>4 DEF WakeUp, vars, deviceVars, Refused
    <2> QED
      BY <1>3, <2>2, <2>3, <2>4 DEF GoesOn
  <1> QED
    BY <1>1, <1>2, <1>3, CleanOrigin

\* SET_ADDRESS is answered before the address is taken.
LEMMA AnsweredStep ==
  ASSUME IInv, [Next]_vars, host'.clean, host'.asked.kind # "vendor"
  PROVE  Answered'
  <1> SUFFICES ASSUME host'.asked.kind = "setAddress" PROVE Answered'
    BY DEF Answered
  <1> USE DEF Answered
  <1>1. CASE Begins
    <2>1. PICK r \in Requests : HostSetup(r)
      BY <1>1 DEF Begins
    <2>2. host'.stage = DataStage(r) /\ r = host'.asked /\ pc' = "poll"
      BY <1>1, <2>1, SetupFields DEF Begins, HostSetup, deviceVars, IInv
    <2>3. DataStage(r) = "statusIn"
      BY <2>2 DEF DataStage, ByteAnswers, StreamAnswers, StreamTakers
    <2>4. ~ep'.in
      BY <2>1 DEF HostSetup
    <2> QED
      BY <2>2, <2>3, <2>4
  <1>2. CASE GoesOn /\ Device
    <2>0. /\ host' = host /\ host.asked.kind = "setAddress" /\ ep \in Flags /\ Answered
          /\ pc # "poll" => request = host.asked
      BY <1>2, DeviceKeepsHost, CleanFacts
    <2>1. CASE ReadSetup
      BY <1>2, <2>0, <2>1, DeviceWaiting
    <2>2. CASE EndRequest
      <3>1. ~Waiting'
        BY <1>2, <2>0, <2>2, DeviceWaiting DEF EndRequest, ReadSetup
      <3> QED
        BY <2>0, <2>2, <3>1 DEF EndRequest
    <2>3. CASE Starts
      <3>0. request.kind = "setAddress" /\ Waiting
        BY <1>2, <2>0, <2>3, CleanFacts DEF Starts
      <3>1. SetLater
        BY <1>2, <2>3, <3>0
        DEF Starts, Device, ReadSetup, VendorRequest, AnswerStream, AnswerByte, TakeStream,
            SetConfiguration, ClearSetFeature, Ignore, Handling, Known,
            StreamAnswers, ByteAnswers, StreamTakers, Features,
            ClearStatusStage, WriteStream, WriteStreamStatus, ReadStream, ReadStreamStatus,
            SetDeviceAddress, Effect, EndRequest
      <3>2. pc' = "status" /\ ~ep'.in
        BY <2>0, <3>0, <3>1, FlagFields DEF SetLater
      <3> QED
        BY <2>0, <3>0, <3>2 DEF Waiting
    <2>4. CASE Passes
      <3>0. request.kind = "setAddress"
        BY <2>0, <2>4 DEF Passes
      <3>1. ClearStatusStage \/ SetDeviceAddress
        BY <1>2, <2>4, <3>0
        DEF IInv, KindsOK, StreamAnswers, StreamTakers, Acknowledged, ClassSetters, Features,
            Passes, Device, ReadSetup, VendorRequest, AnswerStream, AnswerByte, TakeStream, SetLater,
            SetConfiguration, ClearSetFeature, Ignore, Handling,
            WriteStream, WriteStreamStatus, ReadStream, ReadStreamStatus, Effect, EndRequest
      <3>2. CASE ClearStatusStage
        BY <2>0, <3>0, <3>2, FlagFields DEF ClearStatusStage, ByteAnswers, Waiting
      <3>3. CASE SetDeviceAddress
        BY <2>0, <3>3 DEF SetDeviceAddress, Waiting
      <3> QED
        BY <3>1, <3>2, <3>3
    <2> QED
      BY <1>2, <2>1, <2>2, <2>3, <2>4, DevicePlaces
  <1>3. CASE GoesOn /\ ~Device
    <2>0. host'.asked = host.asked /\ pc' = pc
      BY <1>3, WorldKeepsPlace DEF GoesOn, SameTransfer, deviceVars
    <2>1. Answered /\ Handled /\ Known(host.asked) /\ ep \in Flags
      BY <1>3, <2>0, CleanFacts DEF Known
    <2>2. CASE HostTakesIn
      <3>1. host'.stage = "idle" /\ host'.outcome = "done" /\ ep.in
        BY <2>0, <2>1, <2>2, TakesInFields DEF HostTakesIn, IInv
      <3>2. ep'.setup <=> ep.setup
        BY <2>1, <2>2 DEF HostTakesIn, Flags
      <3> QED
        BY <2>0, <2>1, <3>1, <3>2 DEF Waiting
    <2>3. CASE HostSendsOut \/ HostSeesStall
      BY <2>0, <2>1, <2>3 DEF HostSendsOut, HostSeesStall, Handled
    <2>4. CASE WakeUp \/ UNCHANGED vars
      BY <2>0, <2>1, <2>4 DEF WakeUp, vars, Waiting
    <2> QED
      BY <1>3, <2>2, <2>3, <2>4 DEF GoesOn
  <1> QED
    BY <1>1, <1>2, <1>3, CleanOrigin

LEMMA CleanStep == ASSUME IInv, [Next]_vars PROVE CleanOK'
  <1> SUFFICES ASSUME host'.clean PROVE Clean'
    BY DEF CleanOK
  <1>0. CleanOK
    BY DEF IInv
  <1>1. ~Unattached' /\ (pc' # "poll" => request' = host'.asked)
    BY <1>0, AttachedStep, AskedStep
  <1>2. Waiting' => ~ep'.in /\ ~ep'.stall /\ host'.outcome = "none"
    BY <1>0, WaitingStep
  <1>3. host'.asked.kind # "vendor" =>
          /\ pc' \in {"readStatus", "effect"} /\ request'.kind = "setCurrent" =>
               received' = host'.asked.value
          /\ Progress' /\ Refused' /\ Answered'
    BY <1>0, ReceivedStep, ProgressStep, RefusedStep, AnsweredStep
  <1>4. host'.asked.kind # "vendor" => Handled'
    BY HandledStep DEF Handled
  <1>5. host'.asked.kind = "vendor" => ~(pc' \in {"readStatus", "effect"} /\ request'.kind = "setCurrent")
    BY <1>1
  <1> QED
    BY <1>1, <1>2, <1>3, <1>4, <1>5 DEF Clean

----------------------------------------------------------------------------
\* The theorems.

LEMMA InitIInv == Init => IInv
  <1> SUFFICES ASSUME Init PROVE IInv
    OBVIOUS
  <1>1. EpOK /\ RequestOK /\ StreamOK /\ BusOK
    BY DEF Init, EpOK, Flags, RequestOK, Places, StreamOK, BusOK, States
  <1>2. SettingsOK /\ settings.endpoints = 0
    BY DEF Init, SettingsOK, Values, Settings
  <1>3. HostOK
    BY <1>2, SMT DEF Init, HostOK, HostType, SettingsOK, Values
  <1>4. PlacesOK /\ KindsOK /\ CleanOK
    BY <1>2 DEF Init, PlacesOK, KindsOK, CleanOK
  <1> QED
    BY <1>1, <1>2, <1>3, <1>4, TypeParts DEF IInv

LEMMA NextIInv == IInv /\ [Next]_vars => IInv'
  <1> SUFFICES ASSUME IInv, [Next]_vars PROVE IInv'
    OBVIOUS
  <1>1. TypeOK /\ PlacesOK /\ KindsOK
    BY DEF IInv
  <1>2. EpOK' /\ RequestOK' /\ StreamOK' /\ BusOK' /\ SettingsOK' /\ HostOK'
    BY <1>1, EpStep, RequestStep, StreamStep, BusStep, SettingsStep, HostStep
  <1>3. TypeOK'
    BY <1>2, TypeParts, PTL
  <1>4. PlacesOK' /\ KindsOK' /\ CleanOK'
    BY <1>1, PlacesStep, KindsStep, CleanStep
  <1> QED
    BY <1>3, <1>4 DEF IInv

\* The inductive invariant: where the handler is, which kind of request it is
\* working on and, for a transfer nothing has interfered with, how much of what the
\* host has asked for is done and what the endpoint and the host know of it.
THEOREM Invariance == Spec => []IInv
  <1>1. Init => IInv
    BY InitIInv
  <1>2. IInv /\ [Next]_vars => IInv'
    BY NextIInv
  <1> QED
    BY <1>1, <1>2, PTL DEF Spec

\* Endpoint, handler, streams, settings and the host's transfer keep their types,
\* whatever the requests: no stream sends more packets than it has
\* (Template_Endpoint_Control_W.c:45-100).
THEOREM TypeCorrect == Spec => []TypeOK
  <1>1. IInv => TypeOK
    BY DEF IInv
  <1> QED
    BY <1>1, Invariance, PTL

\* Every request but the vendor's is done as a whole or refused as a whole, for every
\* set of requests a host may make: DeviceStandardReq.c:49-120,
\* HIDClassDevice.c:40-136, AudioClassDevice.c:40-168.
THEOREM RequestsCorrect == Spec => []RequestsAreAtomic
  <1>1. IInv => RequestsAreAtomic
    <2> SUFFICES ASSUME IInv, Over, host.asked.kind # "vendor"
                 PROVE  IF Known(host.asked)
                          THEN host.outcome = "done" /\ settings = Done(host.before, host.asked)
                          ELSE host.outcome = "stalled" /\ settings = host.before
      BY DEF RequestsAreAtomic
    <2>1. Clean /\ Progress /\ Handled /\ Refused
      BY DEF IInv, CleanOK, Over, Clean
    <2>2. ~Waiting /\ settings = IF Known(host.asked) THEN Done(host.before, host.asked) ELSE host.before
      BY <2>1 DEF Clean, Over, Progress
    <2>3. host.outcome \in {"done", "stalled"}
      BY TypeParts DEF IInv, HostOK, HostType, Over
    <2> QED
      BY <2>1, <2>2, <2>3 DEF Handled, Refused
  <1> QED
    BY <1>1, Invariance, PTL

\* The address changes after the host has had its answer at the old one
\* (DeviceStandardReq.c:128-134), or the transfer has been upset, or it is a reset's 0.
THEOREM AddressCorrect == Spec => AddressAfterStatus
  <1>1. IInv /\ [Next]_vars =>
          [(pc = "address" /\ settings'.address # settings.address)
              => host.outcome = "done" \/ ~host.clean \/ settings'.address = 0]_vars
    <2> SUFFICES ASSUME IInv, [Next]_vars, pc = "address",
                        settings'.address # settings.address, host.clean
                 PROVE  host.outcome = "done" \/ settings'.address = 0
      OBVIOUS
    <2>0. request.kind = "setAddress" /\ request = host.asked /\ Answered
      BY DEF IInv, KindsOK, CleanOK, Clean
    <2>1. CASE SetDeviceAddress
      BY <2>0, <2>1 DEF SetDeviceAddress, Answered
    <2>2. CASE Reset
      <3>1. settings \in [Settings -> Values \union {Undefined}]
        BY TypeParts DEF IInv, SettingsOK
      <3>2. settings' \in {ResetServed(BusReset(settings)), BusReset(settings)}
        BY <2>2 DEF Reset
      <3>3. /\ BusReset(settings) \in [Settings -> Values \union {Undefined}]
            /\ BusReset(settings).address = 0
        BY <3>1 DEF BusReset, Values, Settings
      <3>4. ResetServed(BusReset(settings)).address = 0
        BY <3>3 DEF ResetServed, Settings
      <3> QED
        BY <3>2, <3>3, <3>4
    <2>3. CASE ~SetDeviceAddress /\ ~Reset
      <3>1. UNCHANGED settings
        BY <2>3
        DEF Next, Device, World, ReadSetup, VendorRequest, AnswerStream, AnswerByte, TakeStream, SetLater,
            SetConfiguration, ClearSetFeature, Ignore, Handling,
            ClearStatusStage, WriteStream, WriteStreamStatus, ReadStream, ReadStreamStatus, Effect,
            EndRequest, HostSetup, HostTakesIn, HostSendsOut, HostSeesStall, Suspend, WakeUp, vars
      <3> QED
        BY <3>1
    <2> QED
      BY <2>1, <2>2, <2>3
  <1> QED
    BY <1>1, Invariance, PTL DEF Spec, AddressAfterStatus
=============================================================================
