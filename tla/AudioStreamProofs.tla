------------------------- MODULE AudioStreamProofs -------------------------
(***************************************************************************)
(* Theorems about the microphone stream and the endpoints, for all         *)
(* outputs, rates, timers and packet sizes that the assumptions of         *)
(* AudioStream allow.                                                      *)
(***************************************************************************)
EXTENDS AudioStream, ByteTheorems

\* The places where the main loop accesses the endpoint it has selected.
AccessPlaces == {"check", "write", "clear", "setup", "interface", "number",
                 "writeJoystick", "readAudio", "rewriteAudio", "writeAudio"}

\* Where a reset has taken the selection away from the main loop the device has no
\* address, and gets none before the main loop has selected again.
LostIsReset == ~held /\ pc \in AccessPlaces => ~addressed /\ deviceState # "Configured"

\* So it is with what the main loop then does to endpoint 0, until a request or
\* another reset puts it right.
Damaged       == (controlIn /\ ~late) \/ types["control"] # "control"
DamageIsReset == Damaged => /\ ~addressed /\ deviceState # "Configured"
                            /\ pc # "number" /\ pc # "configured"

\* The configuration's number is stored after a reset only if late says so.
LateIsOvertaken ==
  /\ pc = "number" => ~late
  /\ pc = "status" /\ ~held => late \/ (~addressed /\ deviceState # "Configured")

IInv == /\ TypeOK /\ StreamHoldsSamples
        /\ SelectionHeld /\ LostIsReset /\ LateIsOvertaken /\ DamageIsReset

----------------------------------------------------------------------------
Bytes   == 0 .. ByteBase - 1
Samples == 0 .. ByteBase * ByteBase - 1

LEMMA FromBytes == ASSUME NEW high \in Bytes, NEW low \in Bytes
                   PROVE  high * ByteBase + low \in Samples
  BY WordOfBytes, SampleAssumption DEF Bytes, Samples

LEMMA ToBytes == ASSUME NEW sample \in Samples
                 PROVE  /\ High(sample) \in Bytes /\ Low(sample) \in Bytes
                        /\ sample = High(sample) * ByteBase + Low(sample)
  BY BytesOfWord, SampleAssumption DEF High, Low, Bytes, Samples

LEMMA CompareInRange == ASSUME NEW r \in Nat
                        PROVE  Compare(r) \in 0 .. TimerBase - 1
  <1>1. CASE r = 0
    BY <1>1, TimerAssumption, SMT DEF Compare
  <1>2. CASE r # 0
    <2>1. Ticks \div r - 1 \in Int
      BY <1>2, TimerAssumption, SMT
    <2> QED
      BY <2>1, <1>2, TimerAssumption, SMT DEF Compare
  <1> QED
    BY <1>1, <1>2

----------------------------------------------------------------------------
\* The types.

\* The parts of TypeOK.
PlacesOK  == /\ pc \in HidPlaces \union UsbPlaces \union ConfigurePlaces \union SamplePlaces
             /\ selected \in Endpoints /\ prevEndpoint \in Endpoints
             /\ types \in [Endpoints -> Endpoints \union {"off"}]
             /\ config \in Endpoints \union {"off"}
StateOK   == deviceState \in {"Unattached", "Default", "Configured"}
FlagsOK   == /\ addressed \in BOOLEAN /\ suspi \in BOOLEAN /\ frozen \in BOOLEAN /\ held \in BOOLEAN
             /\ late \in BOOLEAN /\ interfaceEnabled \in BOOLEAN /\ timer \in BOOLEAN
             /\ hidBank \in BOOLEAN /\ controlIn \in BOOLEAN
TimerOK   == rate \in Rates \union {OfferedRate} /\ compare \in 0 .. TimerBase - 1
SamplesOK == /\ audioSample \in Samples
             /\ outputs \in Seq(Outputs \union {0}) /\ Len(outputs) = 2
BanksOK   == /\ fifo \in Seq({"sample", "report"}) /\ Len(fifo) <= PacketSize
             /\ queued \in 0 .. Banks

LEMMA TypeParts == TypeOK <=> PlacesOK /\ StateOK /\ FlagsOK /\ TimerOK /\ SamplesOK /\ BanksOK
  BY Zenon DEF TypeOK, PlacesOK, StateOK, FlagsOK, TimerOK, SamplesOK, BanksOK, Samples

LEMMA TypeInit == Init => TypeOK
  <1> SUFFICES ASSUME Init PROVE TypeOK
    OBVIOUS
  <1>1. PlacesOK /\ StateOK
    BY DEF Init, PlacesOK, StateOK, Endpoints, HidPlaces
  <1>2. FlagsOK
    BY Zenon DEF Init, FlagsOK
  <1>3. TimerOK
    BY TimerAssumption, SMT DEF Init, TimerOK
  <1>4. SamplesOK
    <2>1. 0 \in Bytes
      BY SampleAssumption, SMT DEF Bytes
    <2>2. 0 * ByteBase + 0 \in Samples
      BY <2>1, FromBytes
    <2>3. 0 * ByteBase + 0 = 0
      BY SampleAssumption, SMT
    <2> QED
      BY <2>2, <2>3, SMT DEF Init, SamplesOK
  <1>5. BanksOK
    BY PacketAssumption, SMT DEF Init, BanksOK, Banks
  <1> QED
    BY <1>1, <1>2, <1>3, <1>4, <1>5, TypeParts

LEMMA PlacesStep == ASSUME TypeOK, [Next]_vars PROVE PlacesOK'
  <1> USE DEF PlacesOK, Endpoints, HidPlaces, UsbPlaces, ConfigurePlaces, SamplePlaces
  <1>0. PlacesOK
    BY TypeParts
  <1>1. CASE HidTask
    BY <1>0, <1>1 DEF HidTask, HidSkip, HidSelect, HidCheck, HidScan, HidWrite, HidClear,
                      Select, NoUsb, MainOnly
  <1>2. CASE UsbTask
    BY <1>0, <1>2 DEF UsbTask, UsbSkip, UsbSave, UsbSelect, NoRequest, Request, SetAddress,
                      ReadRequest, ClearStatusStage, SetInterface, SetRate, UsbRestore, Select, NoUsb, MainOnly
  <1>3. CASE Configure
    BY <1>0, <1>3 DEF Configure, StoreNumber, ClearConfigurationStatus, ClearStatusStage,
            ChooseState, StoreState, SelectToConfigure, ReadConfiguration,
                      WriteConfiguration, ClearState, Next1, Configuring, Select
  <1>4. CASE Filter \/ Store
    BY <1>0, <1>4 DEF Filter, Store, Next1, NoUsb, MainOnly
  <1>5. CASE SampleInterrupt \/ World
    BY <1>0, <1>5 DEF SampleInterrupt, SampleOnly, World, Suspend, WakeUp, Reset, EndpointsReset,
                      HostTakesPacket, HostTakesReport, HostOnly, mainVars
  <1>6. CASE UNCHANGED vars
    BY <1>0, <1>6 DEF vars, mainVars
  <1> QED
    BY <1>1, <1>2, <1>3, <1>4, <1>5, <1>6 DEF Next, Main

LEMMA StateStep == ASSUME TypeOK, [Next]_vars PROVE StateOK'
  <1> USE DEF StateOK
  <1>0. StateOK
    BY TypeParts
  <1>1. CASE HidTask
    BY <1>0, <1>1
    DEF HidTask, HidSkip, HidSelect, HidCheck, HidScan, HidWrite, HidClear, Select, ClearIN,
       NoUsb, MainOnly, mainVars, busVars, timerVars, sampleVars, bankVars
  <1>2. CASE UsbTask
    BY <1>0, <1>2
    DEF UsbTask, UsbSkip, UsbSave, UsbSelect, NoRequest, Request, SetAddress,
       ReadRequest, ClearStatusStage, SetInterface, SetRate, UsbRestore,
       Select, NoUsb, MainOnly, mainVars, busVars, timerVars, sampleVars, bankVars
  <1>3. CASE Configure
    BY <1>0, <1>3
    DEF Configure, StoreNumber, ClearConfigurationStatus, ClearStatusStage,
        ChooseState, StoreState, SelectToConfigure, ReadConfiguration,
       WriteConfiguration, ClearState, Next1, Configuring, Select,
       mainVars, busVars, timerVars, sampleVars, bankVars
  <1>4. CASE Filter \/ Store
    BY <1>0, <1>4
    DEF Filter, Store, Next1, NoUsb, MainOnly, mainVars, busVars, timerVars, sampleVars, bankVars
  <1>5. CASE SampleInterrupt
    BY <1>0, <1>5
    DEF SampleInterrupt, SampleOnly, WriteSample16, ReadyForNextSample, Free,
       mainVars, busVars, timerVars, sampleVars, bankVars
  <1>6. CASE World
    BY <1>0, <1>6
    DEF World, Suspend, WakeUp, Reset, EndpointsReset,
       HostTakesPacket, HostTakesReport, HostOnly, Connect, mainVars, busVars, timerVars, sampleVars, bankVars
  <1>7. CASE UNCHANGED vars
    BY <1>0, <1>7 DEF vars, mainVars, busVars, timerVars, sampleVars, bankVars
  <1> QED
    BY <1>1, <1>2, <1>3, <1>4, <1>5, <1>6, <1>7 DEF Next, Main

LEMMA FlagsStep == ASSUME TypeOK, [Next]_vars PROVE FlagsOK'
  <1> USE DEF FlagsOK
  <1>0. FlagsOK
    BY TypeParts
  <1>1. CASE HidTask
    BY <1>0, <1>1, ZenonT(40)
    DEF HidTask, HidSkip, HidSelect, HidCheck, HidScan, HidWrite, HidClear, Select, ClearIN,
       NoUsb, MainOnly, mainVars, busVars, timerVars, sampleVars, bankVars
  <1>c. ASSUME ClearStatusStage
        PROVE  /\ controlIn' \in BOOLEAN
               /\ UNCHANGED <<addressed, suspi, frozen, held, late, timer, hidBank>>
    <2>1. /\ controlIn' = (controlIn \/ (~held /\ deviceState # "Unattached"))
          /\ UNCHANGED <<addressed, suspi, frozen, held, late, timer, hidBank>>
      BY <1>c, Zenon DEF ClearStatusStage, busVars, timerVars
    <2>2. (controlIn \/ (~held /\ deviceState # "Unattached")) \in BOOLEAN
      BY Zenon
    <2> QED
      BY <2>1, <2>2, Zenon
  <1>2. CASE UsbTask
    <2>1. CASE \E enabled \in BOOLEAN : SetInterface(enabled)
      <3>1. PICK enabled \in BOOLEAN : SetInterface(enabled)
        BY <2>1
      <3>2. ClearStatusStage /\ interfaceEnabled' = enabled
        BY <3>1, Zenon DEF SetInterface
      <3> QED
        BY <1>0, <1>c, <3>2, Zenon
    <2>2. CASE ~ \E enabled \in BOOLEAN : SetInterface(enabled)
      BY <1>0, <1>2, <2>2, ZenonT(40)
      DEF UsbTask, UsbSkip, UsbSave, UsbSelect, NoRequest, Request, SetAddress,
          ReadRequest, SetRate, UsbRestore,
          Select, NoUsb, MainOnly, mainVars, busVars, timerVars, sampleVars, bankVars
    <2> QED
      BY <2>1, <2>2
  <1>3. CASE Configure
    <2>1. CASE \E number \in {0, 1} : StoreNumber(number)
      <3>1. PICK number \in {0, 1} : StoreNumber(number)
        BY <2>1
      <3>2. /\ addressed' = (addressed \/ number # 0) /\ late' = (~held /\ number # 0)
            /\ UNCHANGED <<suspi, frozen, held, interfaceEnabled, timer, hidBank, controlIn>>
        BY <3>1, Zenon DEF StoreNumber, timerVars, bankVars
      <3>3. (addressed \/ number # 0) \in BOOLEAN /\ (~held /\ number # 0) \in BOOLEAN
        BY Zenon
      <3> QED
        BY <1>0, <3>2, <3>3, Zenon
    <2>2. CASE ClearConfigurationStatus
      <3>1. ClearStatusStage /\ interfaceEnabled' = interfaceEnabled
        BY <2>2, Zenon DEF ClearConfigurationStatus
      <3> QED
        BY <1>0, <1>c, <3>1, Zenon
    <2>3. CASE ChooseState \/ StoreState \/ SelectToConfigure \/ ReadConfiguration
                 \/ WriteConfiguration \/ ClearState
      BY <1>0, <2>3, ZenonT(40)
      DEF ChooseState, StoreState, SelectToConfigure, ReadConfiguration,
          WriteConfiguration, ClearState, Next1, Configuring, Select,
          mainVars, busVars, timerVars, sampleVars, bankVars
    <2> QED
      BY <1>3, <2>1, <2>2, <2>3 DEF Configure
  <1>4. CASE Filter \/ Store
    BY <1>0, <1>4, Zenon
    DEF Filter, Store, Next1, NoUsb, MainOnly, mainVars, busVars, timerVars, sampleVars, bankVars
  <1>5. CASE SampleInterrupt
    BY <1>0, <1>5, Zenon
    DEF SampleInterrupt, SampleOnly, WriteSample16, ReadyForNextSample, Free,
       mainVars, busVars, timerVars, sampleVars, bankVars
  <1>6. CASE World
    BY <1>0, <1>6, Zenon
    DEF World, Suspend, WakeUp, Reset, EndpointsReset,
       HostTakesPacket, HostTakesReport, HostOnly, Connect, mainVars, busVars, timerVars, sampleVars, bankVars
  <1>7. CASE UNCHANGED vars
    BY <1>0, <1>7, Zenon DEF vars, mainVars, busVars, timerVars, sampleVars, bankVars
  <1> QED
    BY <1>1, <1>2, <1>3, <1>4, <1>5, <1>6, <1>7 DEF Next, Main

LEMMA TimerStep == ASSUME TypeOK, [Next]_vars PROVE TimerOK'
  <1> USE DEF TimerOK
  <1>0. TimerOK
    BY TypeParts
  <1>1. Compare(rate) \in 0 .. TimerBase - 1
    BY <1>0, CompareInRange, TimerAssumption
  <1>2. ASSUME NEW r \in Rates PROVE r \in Nat /\ Compare(r) \in 0 .. TimerBase - 1
    BY CompareInRange, TimerAssumption
  <1>3. CASE HidTask \/ Configure \/ Filter \/ Store
    BY <1>0, <1>3, Zenon
    DEF HidTask, HidSkip, HidSelect, HidCheck, HidScan, HidWrite, HidClear,
        Configure, StoreNumber, ClearConfigurationStatus, ClearStatusStage,
            ChooseState, StoreState, SelectToConfigure, ReadConfiguration,
        WriteConfiguration, ClearState, Next1, Configuring,
        Filter, Store, NoUsb, MainOnly, timerVars
  <1>4. CASE UsbTask
    <2>1. CASE \E r \in Rates : SetRate(r)
      BY <1>2, <2>1 DEF SetRate
    <2>2. CASE ~ \E r \in Rates : SetRate(r)
      BY <1>0, <1>4, <2>2, Zenon
      DEF UsbTask, UsbSkip, UsbSave, UsbSelect, NoRequest, Request, SetAddress,
          ReadRequest, ClearStatusStage, SetInterface, UsbRestore,
          NoUsb, MainOnly, timerVars
    <2> QED
      BY <2>1, <2>2
  <1>5. CASE SampleInterrupt
    BY <1>0, <1>5, Zenon DEF SampleInterrupt, SampleOnly, timerVars
  <1>6. CASE World
    BY <1>0, <1>1, <1>6
    DEF World, Suspend, WakeUp, Reset, EndpointsReset,
        HostTakesPacket, HostTakesReport, HostOnly, Connect, timerVars
  <1>7. CASE UNCHANGED vars
    BY <1>0, <1>7, Zenon DEF vars, timerVars
  <1> QED
    BY <1>3, <1>4, <1>5, <1>6, <1>7 DEF Next, Main

LEMMA SamplesStep == ASSUME TypeOK, [Next]_vars PROVE SamplesOK'
  <1> USE DEF SamplesOK
  <1>0. SamplesOK
    BY TypeParts
  <1>1. outputs[2] \in Outputs \union {0}
    BY <1>0, SMT
  <1>2. Outputs \union {0} \subseteq Samples
    <2>1. ByteBase * ByteBase > 0
      BY Multiply, SampleAssumption, SMT
    <2> QED
      BY <2>1, SampleAssumption, SMT DEF Samples
  <1>3. CASE HidTask \/ UsbTask \/ Configure
    BY <1>0, <1>3, Zenon
    DEF HidTask, HidSkip, HidSelect, HidCheck, HidScan, HidWrite, HidClear,
        UsbTask, UsbSkip, UsbSave, UsbSelect, NoRequest, Request, SetAddress,
        ReadRequest, ClearStatusStage, SetInterface, SetRate, UsbRestore,
        Configure, StoreNumber, ClearConfigurationStatus, ClearStatusStage,
            ChooseState, StoreState, SelectToConfigure, ReadConfiguration,
        WriteConfiguration, ClearState, Next1, Configuring,
        NoUsb, MainOnly, sampleVars
  <1>4. CASE Filter
    BY <1>0, <1>1, <1>4, SMT DEF Filter
  <1>5. CASE Store
    <2>1. outputs[2] \in Samples /\ audioSample \in Samples
      BY <1>0, <1>1, <1>2
    <2>2. /\ High(outputs[2]) \in Bytes /\ Low(outputs[2]) \in Bytes
          /\ High(audioSample) \in Bytes /\ Low(audioSample) \in Bytes
      BY <2>1, ToBytes, Zenon
    <2>3. /\ High(outputs[2]) * ByteBase + Low(audioSample) \in Samples
          /\ High(audioSample) * ByteBase + Low(outputs[2]) \in Samples
      BY <2>2, FromBytes, Zenon
    <2>4. audioSample' \in Samples
      BY <1>5, <2>1, <2>3, Zenon DEF Store
    <2> QED
      BY <1>0, <1>5, <2>4 DEF Store
  <1>6. CASE SampleInterrupt
    BY <1>0, <1>6, Zenon DEF SampleInterrupt, SampleOnly, sampleVars
  <1>7. CASE World
    BY <1>0, <1>7, Zenon
    DEF World, Suspend, WakeUp, Reset, EndpointsReset,
        HostTakesPacket, HostTakesReport, HostOnly, sampleVars
  <1>8. CASE UNCHANGED vars
    BY <1>0, <1>8, Zenon DEF vars, sampleVars
  <1> QED
    BY <1>3, <1>4, <1>5, <1>6, <1>7, <1>8 DEF Next, Main

\* What a step may do to the audio endpoint's banks.
BanksKept   == UNCHANGED <<fifo, queued>>
BankFull    == queued < Banks /\ fifo' = <<>> /\ queued' = queued + 1
BankFilled  == /\ queued < Banks /\ Len(fifo) + 1 # PacketSize
               /\ fifo' = Append(fifo, "sample") /\ queued' = queued
BanksReset  == fifo' = <<>> /\ queued' = 0
PacketTaken == queued > 0 /\ queued' = queued - 1 /\ fifo' = fifo

LEMMA AudioBanks ==
  ASSUME SelectionHeld, [Next]_vars
  PROVE  BanksKept \/ BankFull \/ BankFilled \/ BanksReset \/ PacketTaken
  <1> USE DEF BanksKept
  <1>1. CASE HidTask
    <2>1. CASE HidWrite \/ HidClear
      <3>1. selected # "audio"
        BY <2>1, SMT DEF HidWrite, HidClear, SelectionHeld, Meant
      <3> QED
        BY <2>1, <3>1, Zenon DEF HidWrite, HidClear, ClearIN
    <2>2. CASE HidSkip \/ HidSelect \/ HidCheck \/ HidScan
      BY <2>2, Zenon DEF HidSkip, HidSelect, HidCheck, HidScan, bankVars
    <2> QED
      BY <1>1, <2>1, <2>2 DEF HidTask
  <1>2. CASE UsbTask
    BY <1>2, Zenon
    DEF UsbTask, UsbSkip, UsbSave, UsbSelect, NoRequest, Request, SetAddress,
        ReadRequest, ClearStatusStage, SetInterface, SetRate, UsbRestore,
        bankVars
  <1>3. CASE Configure
    BY <1>3, Zenon
    DEF Configure, StoreNumber, ClearConfigurationStatus, ClearStatusStage,
        ChooseState, StoreState, SelectToConfigure, ReadConfiguration,
        WriteConfiguration, ClearState, Next1, Configuring, bankVars, BanksReset
  <1>4. CASE Filter \/ Store
    BY <1>4, Zenon DEF Filter, Store, bankVars
  <1>5. CASE SampleInterrupt
    <2>1. CASE ReadyForNextSample
      <3>1. queued < Banks
        BY <2>1, SMT DEF ReadyForNextSample, Free
      <3> QED
        BY <1>5, <2>1, <3>1, Zenon DEF SampleInterrupt, WriteSample16, BankFull, BankFilled
    <2>2. CASE ~ReadyForNextSample
      BY <1>5, <2>2, Zenon DEF SampleInterrupt, bankVars
    <2> QED
      BY <2>1, <2>2
  <1>6. CASE World
    BY <1>6, Zenon
    DEF World, Suspend, WakeUp, Reset, EndpointsReset,
        HostTakesPacket, HostTakesReport, HostOnly, bankVars, BanksReset, PacketTaken
  <1>7. CASE UNCHANGED vars
    BY <1>7, Zenon DEF vars, bankVars
  <1> QED
    BY <1>1, <1>2, <1>3, <1>4, <1>5, <1>6, <1>7 DEF Next, Main

LEMMA BanksStep == ASSUME TypeOK, SelectionHeld, StreamHoldsSamples, [Next]_vars
                   PROVE  BanksOK' /\ StreamHoldsSamples'
  <1>0. BanksOK
    BY TypeParts
  <1>1. PacketSize \in Nat \ {0}
    BY PacketAssumption
  <1>2. CASE BanksKept \/ PacketTaken
    BY <1>0, <1>1, <1>2, SMT DEF BanksKept, PacketTaken, BanksOK, Banks, StreamHoldsSamples
  <1>3. CASE BankFull \/ BanksReset
    <2>1. fifo' = <<>> /\ queued' \in 0 .. Banks
      BY <1>0, <1>3, SMT DEF BankFull, BanksReset, BanksOK, Banks
    <2>2. /\ <<>> \in Seq({"sample", "report"}) /\ Len(<<>>) = 0
          /\ "report" \notin {<<>>[i] : i \in 1 .. 0}
      BY SMT
    <2> QED
      BY <1>1, <2>1, <2>2, SMT DEF BanksOK, StreamHoldsSamples
  <1>4. CASE BankFilled
    <2>1. /\ fifo' \in Seq({"sample", "report"}) /\ Len(fifo') = Len(fifo) + 1
          /\ \A i \in 1 .. Len(fifo') : fifo'[i] = IF i <= Len(fifo) THEN fifo[i] ELSE "sample"
      BY <1>0, <1>4, SMT DEF BankFilled, BanksOK
    <2>2. "report" \notin {fifo'[i] : i \in 1 .. Len(fifo')}
      BY <2>1, <1>0, SMT DEF StreamHoldsSamples, BanksOK
    <2> QED
      BY <1>0, <1>1, <1>4, <2>1, <2>2, SMT DEF BankFilled, BanksOK, Banks, StreamHoldsSamples
  <1> QED
    BY AudioBanks, <1>2, <1>3, <1>4

----------------------------------------------------------------------------
\* The selected endpoint and what a reset may do to it.

LEMMA SelectionStep == ASSUME TypeOK, SelectionHeld, [Next]_vars PROVE SelectionHeld'
  <1> USE DEF SelectionHeld, Meant
  <1>0. PlacesOK
    BY TypeParts
  <1>p. PlacesOK'
    BY PlacesStep
  <1>1. CASE HidTask
    BY <1>0, <1>p, <1>1
    DEF HidTask, HidSkip, HidSelect, HidCheck, HidScan, HidWrite, HidClear, Select, NoUsb, PlacesOK, Endpoints
  <1>2. CASE UsbTask
    BY <1>0, <1>p, <1>2
    DEF UsbTask, UsbSkip, UsbSave, UsbSelect, NoRequest, Request, SetAddress,
        ReadRequest, ClearStatusStage, SetInterface, SetRate, UsbRestore,
        Select, NoUsb, PlacesOK, Endpoints
  <1>3. CASE Configure
    BY <1>0, <1>p, <1>3
    DEF Configure, StoreNumber, ClearConfigurationStatus, ClearStatusStage,
        ChooseState, StoreState, SelectToConfigure, ReadConfiguration,
        WriteConfiguration, ClearState, Next1, Configuring, Select, PlacesOK, Endpoints
  <1>4. CASE Filter \/ Store
    BY <1>0, <1>p, <1>4 DEF Filter, Store, Next1, PlacesOK, Endpoints
  <1>5. CASE SampleInterrupt
    BY <1>0, <1>5, Zenon DEF SampleInterrupt, SampleOnly, mainVars
  <1>6. CASE World
    BY <1>0, <1>6, Zenon
    DEF World, Suspend, WakeUp, Reset, EndpointsReset,
        HostTakesPacket, HostTakesReport, HostOnly, mainVars
  <1>7. CASE UNCHANGED vars
    BY <1>0, <1>7, Zenon DEF vars, mainVars
  <1> QED
    BY <1>1, <1>2, <1>3, <1>4, <1>5, <1>6, <1>7 DEF Next, Main

LEMMA LostStep == ASSUME TypeOK, LostIsReset, [Next]_vars PROVE LostIsReset'
  <1> USE DEF LostIsReset, AccessPlaces
  <1>1. CASE HidTask
    BY <1>1
    DEF HidTask, HidSkip, HidSelect, HidCheck, HidScan, HidWrite, HidClear, Select,
        NoUsb, MainOnly, busVars
  <1>2. CASE UsbTask
    BY <1>2
    DEF UsbTask, UsbSkip, UsbSave, UsbSelect, NoRequest, Request, SetAddress,
        ReadRequest, ClearStatusStage, SetInterface, SetRate, UsbRestore,
        Select, NoUsb, MainOnly, busVars
  <1>3. CASE Configure
    BY <1>3
    DEF Configure, StoreNumber, ClearConfigurationStatus, ClearStatusStage,
        ChooseState, StoreState, SelectToConfigure, ReadConfiguration,
        WriteConfiguration, ClearState, Next1, Configuring, Select
  <1>4. CASE Filter \/ Store
    BY <1>4 DEF Filter, Store, Next1
  <1>5. CASE SampleInterrupt
    BY <1>5, Zenon DEF SampleInterrupt, SampleOnly, mainVars, busVars
  <1>6. CASE World
    BY <1>6
    DEF World, Suspend, WakeUp, Reset, EndpointsReset,
        HostTakesPacket, HostTakesReport, HostOnly, mainVars, busVars
  <1>7. CASE UNCHANGED vars
    BY <1>7, Zenon DEF vars, mainVars, busVars
  <1> QED
    BY <1>1, <1>2, <1>3, <1>4, <1>5, <1>6, <1>7 DEF Next, Main

LEMMA LateStep == ASSUME TypeOK, LostIsReset, LateIsOvertaken, [Next]_vars
                  PROVE  LateIsOvertaken'
  <1> USE DEF LateIsOvertaken
  <1>1. CASE HidTask
    BY <1>1 DEF HidTask, HidSkip, HidSelect, HidCheck, HidScan, HidWrite, HidClear
  <1>2. CASE UsbTask
    BY <1>2
    DEF UsbTask, UsbSkip, UsbSave, UsbSelect, NoRequest, Request, SetAddress,
        ReadRequest, SetInterface, SetRate, UsbRestore
  <1>3. CASE Configure
    <2>1. CASE \E number \in {0, 1} : StoreNumber(number)
      <3>1. PICK number \in {0, 1} : StoreNumber(number)
        BY <2>1
      <3>2. /\ pc = "number" /\ pc' = "status" /\ held' = held /\ deviceState' = deviceState
            /\ addressed' = (addressed \/ number # 0) /\ late' = (~held /\ number # 0)
        BY <3>1, Zenon DEF StoreNumber, Next1
      <3> QED
        BY <3>2 DEF LostIsReset, AccessPlaces
    <2>2. CASE ~ \E number \in {0, 1} : StoreNumber(number)
      BY <1>3, <2>2
      DEF Configure, ClearConfigurationStatus, ChooseState, StoreState, SelectToConfigure,
          ReadConfiguration, WriteConfiguration, ClearState, Next1
    <2> QED
      BY <2>1, <2>2
  <1>4. CASE Filter \/ Store
    BY <1>4 DEF Filter, Store, Next1
  <1>5. CASE SampleInterrupt
    BY <1>5, Zenon DEF SampleInterrupt, SampleOnly, mainVars, busVars
  <1>6. CASE World
    BY <1>6
    DEF World, Suspend, WakeUp, Reset, EndpointsReset,
        HostTakesPacket, HostTakesReport, HostOnly, mainVars, busVars
  <1>7. CASE UNCHANGED vars
    BY <1>7, Zenon DEF vars, mainVars, busVars
  <1> QED
    BY <1>1, <1>2, <1>3, <1>4, <1>5, <1>6, <1>7 DEF Next, Main

LEMMA DamageStep ==
  ASSUME TypeOK, SelectionHeld, LostIsReset, LateIsOvertaken, DamageIsReset, [Next]_vars
  PROVE  DamageIsReset'
  <1> USE DEF DamageIsReset, Damaged
  <1>0. PlacesOK
    BY TypeParts
  <1>1. CASE HidTask
    <2>1. CASE HidClear
      <3>1. CASE selected = "control"
        <4>1. pc = "clear" /\ ~held
          BY <2>1, <3>1, SMT DEF HidClear, SelectionHeld, Meant
        <4>2. ~addressed /\ deviceState # "Configured"
          BY <4>1 DEF LostIsReset, AccessPlaces
        <4>3. pc' = "usb" /\ addressed' = addressed /\ deviceState' = deviceState
          BY <2>1, Zenon DEF HidClear, NoUsb, MainOnly, busVars
        <4> QED
          BY <4>2, <4>3
      <3>2. CASE selected # "control"
        <4>1. pc' = "usb" /\ types' = types
          BY <2>1, Zenon DEF HidClear, NoUsb
        <4>l. late' = late
          BY <2>1, Zenon DEF HidClear, NoUsb
        <4>2. controlIn' => controlIn
          BY <2>1, <3>2, Zenon DEF HidClear, ClearIN
        <4>3. addressed' = addressed /\ deviceState' = deviceState
          BY <2>1, Zenon DEF HidClear, NoUsb, MainOnly, busVars
        <4> QED
          BY <4>1, <4>l, <4>2, <4>3
      <3> QED
        BY <3>1, <3>2
    <2>2. CASE HidSkip \/ HidSelect \/ HidCheck \/ HidScan \/ HidWrite
      BY <2>2
      DEF HidSkip, HidSelect, HidCheck, HidScan, HidWrite, NoUsb, MainOnly, busVars, bankVars
    <2> QED
      BY <1>1, <2>1, <2>2 DEF HidTask
  <1>2. CASE UsbTask
    <2>1. CASE Request
      BY <2>1 DEF Request
    <2>3. CASE \E enabled \in BOOLEAN : SetInterface(enabled)
      <3>1. pc = "interface" /\ pc' = "restore" /\ UNCHANGED <<types, late, addressed, deviceState>>
        BY <2>3, Zenon DEF SetInterface, ClearStatusStage, busVars
      <3>2. controlIn' = (controlIn \/ (~held /\ deviceState # "Unattached"))
        BY <2>3, Zenon DEF SetInterface, ClearStatusStage
      <3>3. ~held => ~addressed /\ deviceState # "Configured"
        BY <3>1 DEF LostIsReset, AccessPlaces
      <3> QED
        BY <3>1, <3>2, <3>3
    <2>2. CASE UsbSkip \/ UsbSave \/ UsbSelect \/ NoRequest \/ UsbRestore
      BY <2>2
      DEF UsbSkip, UsbSave, UsbSelect, NoRequest, UsbRestore, NoUsb, MainOnly, busVars, bankVars
    <2> QED
      BY <1>2, <2>1, <2>2, <2>3 DEF UsbTask, SetAddress, ReadRequest, SetRate
  <1>3. CASE Configure
    <2>1. CASE WriteConfiguration
      <3>1. CASE selected = "control"
        <4>1. pc \in AccessPlaces /\ ~held
          BY <2>1, <3>1, SMT DEF WriteConfiguration, Next1, SelectionHeld, Meant, AccessPlaces
        <4>2. ~addressed /\ deviceState # "Configured"
          BY <4>1 DEF LostIsReset
        <4>3. pc' \notin {"number", "configured"} /\ addressed' = addressed /\ deviceState' = deviceState
          BY <2>1, SMT DEF WriteConfiguration, Next1, Configuring
        <4> QED
          BY <4>2, <4>3
      <3>2. CASE selected # "control"
        <4>1. types'["control"] = types["control"] /\ pc' \notin {"number", "configured"}
          BY <1>0, <2>1, <3>2, SMT DEF WriteConfiguration, Next1, PlacesOK, Endpoints
        <4>2. UNCHANGED <<controlIn, late>> /\ addressed' = addressed /\ deviceState' = deviceState
          BY <2>1, Zenon DEF WriteConfiguration, Configuring
        <4> QED
          BY <4>1, <4>2
      <3> QED
        BY <3>1, <3>2
    <2>2. CASE ChooseState \/ StoreState \/ SelectToConfigure \/ ReadConfiguration \/ ClearState
      BY <2>2
      DEF ChooseState, StoreState, SelectToConfigure, ReadConfiguration, ClearState, Next1,
          Configuring, bankVars
    <2>3. CASE \E number \in {0, 1} : StoreNumber(number)
      <3>1. /\ pc = "number" /\ pc' = "status" /\ controlIn' = controlIn
            /\ types' = types
        BY <2>3, Zenon DEF StoreNumber, Next1, bankVars
      <3> QED
        BY <3>1 DEF LateIsOvertaken
    <2>4. CASE ClearConfigurationStatus
      <3>1. /\ pc = "status" /\ pc' = "choose" /\ UNCHANGED <<types, late, addressed, deviceState>>
            /\ controlIn' = (controlIn \/ (~held /\ deviceState # "Unattached"))
        BY <2>4, Zenon DEF ClearConfigurationStatus, ClearStatusStage, Next1, busVars
      <3> QED
        BY <3>1 DEF LateIsOvertaken
    <2> QED
      BY <1>3, <2>1, <2>2, <2>3, <2>4 DEF Configure
  <1>4. CASE Filter \/ Store
    BY <1>4 DEF Filter, Store, Next1, NoUsb, MainOnly, busVars, bankVars
  <1>5. CASE SampleInterrupt
    BY <1>5, Zenon DEF SampleInterrupt, WriteSample16, SampleOnly, mainVars, busVars, bankVars
  <1>6. CASE World
    BY <1>6
    DEF World, Suspend, WakeUp, Reset, EndpointsReset,
        HostTakesPacket, HostTakesReport, HostOnly, mainVars, busVars, bankVars, Endpoints
  <1>7. CASE UNCHANGED vars
    BY <1>7, Zenon DEF vars, mainVars, busVars, bankVars
  <1> QED
    BY <1>1, <1>2, <1>3, <1>4, <1>5, <1>6, <1>7 DEF Next, Main

----------------------------------------------------------------------------
\* The timer's period.

\* A running timer has the compare value of the rate that is set.
CompareIsRate == timer => compare = Compare(rate)

LEMMA CutToWidth == ASSUME NEW d \in Nat
                    PROVE  ((d - 1) % TimerBase) + 1 = d <=> d >= 1 /\ d <= TimerBase
  <1>1. TimerBase \in Nat /\ TimerBase > 1
    BY TimerAssumption
  <1>2. (d - 1) % TimerBase \in 0 .. TimerBase - 1
    BY <1>1, SMT
  <1>3. CASE d >= 1 /\ d <= TimerBase
    <2>1. (d - 1) % TimerBase = d - 1
      BY <1>1, <1>3, SMT
    <2> QED
      BY <1>3, <2>1, SMT
  <1>4. CASE ~(d >= 1 /\ d <= TimerBase)
    BY <1>1, <1>2, <1>4, SMT
  <1> QED
    BY <1>3, <1>4

LEMMA QuotientPositive == ASSUME NEW r \in Nat \ {0}
                          PROVE  Ticks \div r \in Nat /\ (Ticks \div r >= 1 <=> r <= Ticks)
  <1>1. Ticks \in Nat
    BY TimerAssumption
  <1>2. /\ Ticks \div r \in Nat /\ (Ticks \div r) * r <= Ticks
        /\ Ticks < (Ticks \div r) * r + r
    BY <1>1, SMT
  <1>3. CASE Ticks \div r >= 1
    <2>1. 1 * r <= (Ticks \div r) * r
      BY <1>2, <1>3, Multiply
    <2> QED
      BY <1>1, <1>2, <1>3, <2>1, SMT
  <1>4. CASE ~(Ticks \div r >= 1)
    <2>1. Ticks \div r = 0
      BY <1>2, <1>4, SMT
    <2> QED
      BY <1>1, <1>2, <1>4, <2>1, SMT
  <1> QED
    BY <1>3, <1>4

LEMMA PeriodFits == TimerOK /\ CompareIsRate => TimerFollowsRate
  <1> SUFFICES ASSUME TimerOK, compare = Compare(rate)
               PROVE  rate # 0 /\ compare + 1 = Ticks \div rate
                        <=> rate <= Ticks /\ rate # 0 /\ Ticks \div rate <= TimerBase
    BY DEF CompareIsRate, TimerFollowsRate
  <1>1. CASE rate # 0
    <2>1. rate \in Nat \ {0}
      BY <1>1, TimerAssumption DEF TimerOK
    <2>2. compare = (Ticks \div rate - 1) % TimerBase
      BY <1>1 DEF Compare
    <2> QED
      BY <1>1, <2>1, <2>2, QuotientPositive, CutToWidth
  <1> QED
    BY <1>1

LEMMA CompareStep == ASSUME CompareIsRate, [Next]_vars PROVE CompareIsRate'
  <1> USE DEF CompareIsRate
  <1>1. CASE HidTask \/ Configure \/ Filter \/ Store
    BY <1>1, Zenon
    DEF HidTask, HidSkip, HidSelect, HidCheck, HidScan, HidWrite, HidClear,
        Configure, StoreNumber, ClearConfigurationStatus, ClearStatusStage,
        ChooseState, StoreState, SelectToConfigure, ReadConfiguration,
        WriteConfiguration, ClearState, Next1, Configuring,
        Filter, Store, NoUsb, MainOnly, timerVars, Compare
  <1>2. CASE UsbTask
    <2>1. CASE \E r \in Rates : SetRate(r)
      BY <2>1 DEF SetRate, Compare
    <2>2. CASE ~ \E r \in Rates : SetRate(r)
      BY <1>2, <2>2, Zenon
      DEF UsbTask, UsbSkip, UsbSave, UsbSelect, NoRequest, Request, SetAddress,
          ReadRequest, ClearStatusStage, SetInterface, UsbRestore,
          NoUsb, MainOnly, timerVars, Compare
    <2> QED
      BY <2>1, <2>2
  <1>3. CASE SampleInterrupt
    BY <1>3, Zenon DEF SampleInterrupt, SampleOnly, timerVars, Compare
  <1>4. CASE World
    BY <1>4
    DEF World, Suspend, WakeUp, Reset, EndpointsReset,
        HostTakesPacket, HostTakesReport, HostOnly, Connect, timerVars, Compare
  <1>5. CASE UNCHANGED vars
    BY <1>5, Zenon DEF vars, timerVars, Compare
  <1> QED
    BY <1>1, <1>2, <1>3, <1>4, <1>5 DEF Next, Main

----------------------------------------------------------------------------
\* The sample.

\* The sample is the filter's last output, or has none, one or both of its bytes when
\* they are being stored.
SampleIsStored ==
  /\ pc = "store"     => audioSample = outputs[1]
  /\ pc = "storeRest" => audioSample \in {High(outputs[2]) * ByteBase + Low(outputs[1]),
                                         High(outputs[1]) * ByteBase + Low(outputs[2])}
  /\ pc \notin {"store", "storeRest"} => audioSample = outputs[2]

LEMMA Halves == ASSUME NEW new \in Samples, NEW old \in Samples
                PROVE  LET mixed == High(new) * ByteBase + Low(old)
                       IN  /\ High(new) = High(old) => mixed = old
                           /\ mixed - new \in -(ByteBase - 1) .. ByteBase - 1
  <1>1. /\ Low(new) \in Bytes /\ Low(old) \in Bytes
        /\ High(new) \in Bytes /\ High(old) \in Bytes
    BY ToBytes
  <1>2. /\ new = High(new) * ByteBase + Low(new)
        /\ old = High(old) * ByteBase + Low(old)
    BY ToBytes
  <1>3. High(new) * ByteBase \in Int
    BY <1>1, SampleAssumption, SMT DEF Bytes
  <1>4. (High(new) * ByteBase + Low(old)) - (High(new) * ByteBase + Low(new))
          \in -(ByteBase - 1) .. ByteBase - 1
    BY <1>1, <1>3, SampleAssumption, SMT DEF Bytes
  <1> QED
    BY <1>2, <1>4

LEMMA OutputsAreSamples == SamplesOK => /\ outputs[1] \in Samples /\ outputs[2] \in Samples
                                        /\ audioSample \in Samples
  <1>1. Outputs \union {0} \subseteq Samples
    <2>1. ByteBase * ByteBase > 0
      BY Multiply, SampleAssumption, SMT
    <2> QED
      BY <2>1, SampleAssumption, SMT DEF Samples
  <1> QED
    BY <1>1, SMT DEF SamplesOK

LEMMA NearOutput == SamplesOK /\ SampleIsStored => SampleNearOutput
  <1> SUFFICES ASSUME SamplesOK, SampleIsStored PROVE SampleNearOutput
    OBVIOUS
  <1>0. outputs[1] \in Samples /\ outputs[2] \in Samples
    BY OutputsAreSamples
  <1>1. CASE audioSample = High(outputs[2]) * ByteBase + Low(outputs[1])
    BY <1>0, <1>1, Halves DEF SampleNearOutput
  <1>2. CASE audioSample = High(outputs[1]) * ByteBase + Low(outputs[2])
    BY <1>0, <1>2, Halves DEF SampleNearOutput
  <1>3. CASE audioSample \in {outputs[1], outputs[2]}
    BY <1>3 DEF SampleNearOutput
  <1> QED
    BY <1>1, <1>2, <1>3 DEF SampleIsStored

LEMMA SampleStep == ASSUME TypeOK, SampleIsStored, [Next]_vars PROVE SampleIsStored'
  <1> USE DEF SampleIsStored
  <1>0. SamplesOK
    BY TypeParts
  <1>1. CASE HidTask \/ UsbTask \/ Configure
    <2>1. pc' \notin {"store", "storeRest"} /\ pc \notin {"store", "storeRest"}
      BY <1>1
      DEF HidTask, HidSkip, HidSelect, HidCheck, HidScan, HidWrite, HidClear,
          UsbTask, UsbSkip, UsbSave, UsbSelect, NoRequest, Request, SetAddress,
          ReadRequest, ClearStatusStage, SetInterface, SetRate, UsbRestore,
          Configure, StoreNumber, ClearConfigurationStatus, ChooseState, StoreState,
          SelectToConfigure, ReadConfiguration, WriteConfiguration, ClearState, Next1
    <2>2. UNCHANGED sampleVars
      BY <1>1, Zenon
      DEF HidTask, HidSkip, HidSelect, HidCheck, HidScan, HidWrite, HidClear,
          UsbTask, UsbSkip, UsbSave, UsbSelect, NoRequest, Request, SetAddress,
          ReadRequest, ClearStatusStage, SetInterface, SetRate, UsbRestore,
          Configure, StoreNumber, ClearConfigurationStatus, ChooseState, StoreState,
          SelectToConfigure, ReadConfiguration, WriteConfiguration, ClearState, Configuring,
          sampleVars
    <2> QED
      BY <2>1, <2>2, Zenon DEF sampleVars
  <1>2. CASE Filter
    <2>1. PICK w \in Outputs : outputs' = <<outputs[2], w>>
      BY <1>2, Zenon DEF Filter
    <2>2. pc = "filter" /\ pc' = "store" /\ audioSample' = audioSample
      BY <1>2, Zenon DEF Filter
    <2> QED
      BY <2>1, <2>2
  <1>3. CASE Store
    <2>1. outputs' = outputs
      BY <1>3, Zenon DEF Store
    <2>2. CASE pc = "store"
      <3>1. /\ pc' = "storeRest"
            /\ audioSample' \in {High(outputs[2]) * ByteBase + Low(audioSample),
                                 High(audioSample) * ByteBase + Low(outputs[2])}
        BY <1>3, <2>2 DEF Store, Next1
      <3> QED
        BY <2>1, <2>2, <3>1
    <2>3. CASE pc # "store"
      <3>1. pc' = "hid" /\ audioSample' = outputs[2]
        BY <1>3, <2>3 DEF Store, Next1
      <3> QED
        BY <2>1, <3>1
    <2> QED
      BY <2>2, <2>3
  <1>4. CASE SampleInterrupt \/ World
    BY <1>4, Zenon
    DEF SampleInterrupt, SampleOnly, World, Suspend, WakeUp, Reset, EndpointsReset,
        HostTakesPacket, HostTakesReport, HostOnly, mainVars, sampleVars
  <1>5. CASE UNCHANGED vars
    BY <1>5, Zenon DEF vars, mainVars, sampleVars
  <1> QED
    BY <1>1, <1>2, <1>3, <1>4, <1>5 DEF Next, Main

----------------------------------------------------------------------------
\* The configuration of the audio endpoint.

\* What Endpoint_ConfigureEndpoint_Prv writes last is the audio endpoint's.
ConfigIsAudio == pc = "writeAudio" => config = "audio"

LEMMA ConfigStep == ASSUME ConfigIsAudio, [Next]_vars PROVE ConfigIsAudio'
  <1> USE DEF ConfigIsAudio
  <1>1. CASE HidTask
    BY <1>1 DEF HidTask, HidSkip, HidSelect, HidCheck, HidScan, HidWrite, HidClear
  <1>2. CASE UsbTask
    BY <1>2
    DEF UsbTask, UsbSkip, UsbSave, UsbSelect, NoRequest, Request, SetAddress,
        ReadRequest, SetInterface, SetRate, UsbRestore
  <1>3. CASE Configure
    BY <1>3
    DEF Configure, StoreNumber, ClearConfigurationStatus, ChooseState, StoreState,
        SelectToConfigure, ReadConfiguration, WriteConfiguration, ClearState, Next1
  <1>4. CASE Filter \/ Store
    BY <1>4 DEF Filter, Store, Next1
  <1>5. CASE SampleInterrupt \/ World
    BY <1>5, Zenon
    DEF SampleInterrupt, SampleOnly, World, Suspend, WakeUp, Reset, EndpointsReset,
        HostTakesPacket, HostTakesReport, HostOnly, mainVars
  <1>6. CASE UNCHANGED vars
    BY <1>6, Zenon DEF vars, mainVars
  <1> QED
    BY <1>1, <1>2, <1>3, <1>4, <1>5, <1>6 DEF Next, Main

LEMMA ReadyStep == ASSUME IInv, ConfigIsAudio, [Next]_vars, Ready, ~WakeUp PROVE Ready'
  <1> USE DEF Ready, ConfigurePlaces
  <1>0. PlacesOK /\ SelectionHeld /\ LostIsReset
    BY TypeParts DEF IInv
  <1>1. CASE HidTask
    BY <1>1
    DEF HidTask, HidSkip, HidSelect, HidCheck, HidScan, HidWrite, HidClear,
        NoUsb, MainOnly, busVars
  <1>2. CASE UsbTask
    BY <1>2
    DEF UsbTask, UsbSkip, UsbSave, UsbSelect, NoRequest, Request, SetAddress,
        ReadRequest, ClearStatusStage, SetInterface, SetRate, UsbRestore,
        NoUsb, MainOnly, busVars
  <1>3. CASE Configure
    <2>1. CASE WriteConfiguration
      <3>1. CASE pc = "writeAudio" /\ deviceState = "Configured"
        <4>1. held
          BY <1>0, <3>1 DEF LostIsReset, AccessPlaces
        <4>2. selected = "audio"
          BY <1>0, <3>1, <4>1, SMT DEF SelectionHeld, Meant
        <4>3. types' = [types EXCEPT !["audio"] = "audio"]
          BY <2>1, <3>1, <4>2 DEF WriteConfiguration, ConfigIsAudio
        <4> QED
          BY <1>0, <4>3 DEF PlacesOK, Endpoints
      <3>2. CASE pc = "writeAudio" /\ deviceState # "Configured"
        <4>1. deviceState' = deviceState
          BY <2>1, Zenon DEF WriteConfiguration
        <4> QED
          BY <3>2, <4>1
      <3>3. CASE pc # "writeAudio"
        BY <2>1, <3>3, SMT DEF WriteConfiguration, Next1
      <3> QED
        BY <3>1, <3>2, <3>3
    <2>2. CASE ~WriteConfiguration
      BY <1>3, <2>2
      DEF Configure, StoreNumber, ClearConfigurationStatus, ChooseState, StoreState,
          SelectToConfigure, ReadConfiguration, ClearState, Next1
    <2> QED
      BY <2>1, <2>2
  <1>4. CASE Filter \/ Store
    BY <1>4 DEF Filter, Store, Next1, NoUsb, MainOnly, busVars
  <1>5. CASE SampleInterrupt
    BY <1>5, Zenon DEF SampleInterrupt, SampleOnly, mainVars, busVars
  <1>6. CASE World
    BY <1>6
    DEF World, Suspend, Reset, EndpointsReset,
        HostTakesPacket, HostTakesReport, HostOnly, mainVars, busVars
  <1>7. CASE UNCHANGED vars
    BY <1>7, Zenon DEF vars, mainVars, busVars
  <1> QED
    BY <1>1, <1>2, <1>3, <1>4, <1>5, <1>6, <1>7 DEF Next, Main

----------------------------------------------------------------------------
\* The theorems.

LEMMA InitIInv == Init => IInv
  <1> SUFFICES ASSUME Init PROVE IInv
    OBVIOUS
  <1>1. TypeOK
    BY TypeInit
  <1>2. pc = "hid" /\ selected = "control" /\ types["control"] = "control" /\ fifo = <<>>
    BY SMT DEF Init, Endpoints
  <1>3. SelectionHeld
    BY <1>2 DEF SelectionHeld, Meant, Endpoints
  <1>4. LostIsReset
    BY <1>2 DEF LostIsReset, AccessPlaces
  <1>5. DamageIsReset
    <2>1. ~controlIn
      BY Zenon DEF Init
    <2> QED
      BY <1>2, <2>1 DEF DamageIsReset, Damaged
  <1>7. LateIsOvertaken
    BY <1>2 DEF LateIsOvertaken
  <1>6. StreamHoldsSamples
    BY <1>2, PacketAssumption, SMT DEF StreamHoldsSamples
  <1> QED
    BY <1>1, <1>3, <1>4, <1>5, <1>6, <1>7 DEF IInv

\* What a reset takes away from the main loop, and what the main loop then does to
\* endpoint 0, is confined to a device that has no address, or to one that late marks.
THEOREM Invariance == Spec => []IInv
  <1>1. Init => IInv
    BY InitIInv
  <1>2. IInv /\ [Next]_vars => IInv'
    <2> SUFFICES ASSUME IInv, [Next]_vars PROVE IInv'
      OBVIOUS
    <2>1. /\ TypeOK /\ StreamHoldsSamples
          /\ SelectionHeld /\ LostIsReset /\ LateIsOvertaken /\ DamageIsReset
      BY DEF IInv
    <2>2. TypeOK'
      BY <2>1, PlacesStep, StateStep, FlagsStep, TimerStep, SamplesStep, BanksStep, TypeParts, PTL
    <2> QED
      BY <2>1, <2>2, SelectionStep, LostStep, LateStep, DamageStep, BanksStep DEF IInv
  <1> QED
    BY <1>1, <1>2, PTL DEF Spec

\* The endpoints, the device's state, the sample and the packets keep their types.
THEOREM TypeCorrect == Spec => []TypeOK
  <1>1. IInv => TypeOK
    BY DEF IInv
  <1> QED
    BY <1>1, Invariance, PTL

\* The main loop accesses the endpoint it means to or, after a reset, endpoint 0.
THEOREM SelectionCorrect == Spec => []SelectionHeld
  <1>1. IInv => SelectionHeld
    BY DEF IInv
  <1> QED
    BY <1>1, Invariance, PTL

\* Endpoint 0 of a configured device is a control endpoint that holds no packet
\* nobody asked for, although the main loop may have written to it by mistake; the
\* exception is a device that a reset has overtaken in its SET_CONFIGURATION.
THEOREM ControlCorrect == Spec => []ControlIntact
  <1>1. IInv => ControlIntact
    BY DEF IInv, DamageIsReset, Damaged, ControlIntact
  <1> QED
    BY <1>1, Invariance, PTL

\* The audio endpoint holds samples only, less than a packet of them, and none
\* when the host has not taken two packets.
THEOREM StreamCorrect == Spec => []StreamHoldsSamples
  <1>1. IInv => StreamHoldsSamples
    BY DEF IInv
  <1> QED
    BY <1>1, Invariance, PTL

\* The sample timer runs at the rate the host has set exactly when that rate's period
\* fits the timer.
THEOREM TimerCorrect == Spec => []TimerFollowsRate
  <1>1. Init => CompareIsRate
    BY Zenon DEF Init, CompareIsRate
  <1>2. CompareIsRate /\ [Next]_vars => CompareIsRate'
    BY CompareStep
  <1>3. TypeOK /\ CompareIsRate => TimerFollowsRate
    BY TypeParts, PeriodFits
  <1> QED
    BY <1>1, <1>2, <1>3, TypeCorrect, PTL DEF Spec

\* A sample the interrupt finds half stored is an output of the filter, or within one
\* step of the high byte of one when two outputs in a row differ in that byte.
THEOREM SampleCorrect == Spec => []SampleNearOutput
  <1>1. Init => SampleIsStored
    BY DEF Init, SampleIsStored
  <1>2. TypeOK /\ SampleIsStored /\ [Next]_vars => SampleIsStored'
    BY SampleStep
  <1>3. TypeOK /\ SampleIsStored => SampleNearOutput
    BY TypeParts, NearOutput
  <1> QED
    BY <1>1, <1>2, <1>3, TypeCorrect, PTL DEF Spec

\* No step but a wake-up leaves a device Configured, and out of its configuration's
\* steps, without its audio endpoint: no reset, wherever it falls, does.
THEOREM UnreadyCorrect == Spec => UnreadyByWakeUp
  <1>1. Init => ConfigIsAudio
    BY DEF Init, ConfigIsAudio
  <1>2. ConfigIsAudio /\ [Next]_vars => ConfigIsAudio'
    BY ConfigStep
  <1>3. IInv /\ ConfigIsAudio /\ [Next]_vars => [Ready /\ ~Ready' => WakeUp]_vars
    BY ReadyStep
  <1> QED
    BY <1>1, <1>2, <1>3, Invariance, PTL DEF Spec, UnreadyByWakeUp
============================================================================
