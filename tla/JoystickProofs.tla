-------------------------- MODULE JoystickProofs ---------------------------
(***************************************************************************)
(* Theorems about the buttons and the HID class driver, for all buttons    *)
(* and idle periods that the assumptions of Joystick allow.                *)
(***************************************************************************)
EXTENDS Joystick, ByteTheorems

----------------------------------------------------------------------------
\* The idle count and its bytes.

ByteValues == 0 .. ByteBase - 1

LEMMA IdleBytes == ASSUME NEW n \in Idle
                   PROVE  /\ High(n) \in ByteValues /\ Low(n) \in ByteValues
                          /\ n = High(n) * ByteBase + Low(n)
  BY BytesOfWord, IdleAssumption DEF High, Low, Idle, ByteValues

LEMMA BytesIdle == ASSUME NEW high \in ByteValues, NEW low \in ByteValues
                   PROVE  Bytes(high, low) \in Idle
  BY WordOfBytes, IdleAssumption DEF Bytes, Idle, ByteValues

LEMMA DecrementedIdle == ASSUME NEW n \in Idle PROVE Decremented(n) \in Idle
  <1>1. CASE n = 0
    BY <1>1 DEF Decremented
  <1>2. CASE n # 0
    <2>1. /\ n \in Int /\ 0 < n /\ n <= ByteBase * ByteBase - 1
          /\ ByteBase * ByteBase \in Int
      BY <1>2, IdleAssumption, SMT DEF Idle
    <2> QED
      BY <2>1, SMT DEF Decremented, Idle
  <1> QED
    BY <1>1, <1>2

\* Whatever a torn write leaves is an idle count.
LEMMA TornWritesIdle == ASSUME NEW old \in Idle, NEW new \in Idle, NEW left \in TornWrites(old, new)
                        PROVE  left \in Idle
  <1> DEFINE lowFirst == Bytes(High(old), Low(new))
             highFirst == Bytes(High(new), Low(old))
  <1>1. lowFirst \in Idle /\ highFirst \in Idle
    BY IdleBytes, BytesIdle
  <1>2. Decremented(lowFirst) \in Idle /\ Decremented(highFirst) \in Idle /\ Decremented(new) \in Idle
    BY <1>1, DecrementedIdle
  <1>3. /\ Bytes(High(new), Low(Decremented(lowFirst))) \in Idle
        /\ Bytes(High(Decremented(highFirst)), Low(new)) \in Idle
    BY <1>2, IdleBytes, BytesIdle
  <1> QED
    BY <1>2, <1>3 DEF TornWrites

\* A torn read of a count is zero with nothing left, a millisecond left, or a one in
\* the high byte and nothing in the low one.
LEMMA TornReadZero == ASSUME NEW n \in Idle, 0 \in TornReads(n)
                      PROVE  n \in {0, 1, ByteBase}
  <1>b. ByteBase \in Nat /\ ByteBase > 1 /\ n \in Nat
    BY IdleAssumption, SMT DEF Idle
  <1>d. CASE n # 0
    <2>1. Decremented(n) = n - 1 /\ n - 1 \in Idle
      BY <1>b, <1>d, DecrementedIdle, SMT DEF Decremented
    <2>2. /\ High(n) \in ByteValues /\ Low(n) \in ByteValues
          /\ n = High(n) * ByteBase + Low(n)
      BY IdleBytes
    <2>3. /\ High(n - 1) \in ByteValues /\ Low(n - 1) \in ByteValues
          /\ n - 1 = High(n - 1) * ByteBase + Low(n - 1)
      BY <2>1, IdleBytes
    <2>4. ASSUME NEW high \in ByteValues, NEW low \in ByteValues, Bytes(high, low) = 0
          PROVE  high = 0 /\ low = 0
      <3>1. CASE high = 0
        BY <1>b, <2>4, <3>1, SMT DEF Bytes, ByteValues
      <3>2. CASE high # 0
        <4>1. 1 * ByteBase <= high * ByteBase /\ high * ByteBase \in Nat
          BY <1>b, <3>2, Multiply, SMT DEF ByteValues
        <4> QED
          BY <1>b, <2>4, <4>1, SMT DEF Bytes, ByteValues
      <3> QED
        BY <3>1, <3>2
    <2>5. CASE n - 1 = 0
      BY <1>b, <2>5, SMT
    <2>6. CASE Bytes(High(n - 1), Low(n)) = 0
      <3>1. High(n - 1) = 0 /\ Low(n) = 0
        BY <2>2, <2>3, <2>4, <2>6
      <3>2. n - 1 = Low(n - 1) /\ n = High(n) * ByteBase
        BY <1>b, <2>2, <2>3, <3>1, SMT DEF ByteValues
      <3>3. n <= ByteBase
        BY <1>b, <2>3, <3>2, SMT DEF ByteValues
      <3>4. CASE High(n) >= 2
        <4>1. 2 * ByteBase <= High(n) * ByteBase
          BY <1>b, <2>2, <3>4, Multiply, SMT DEF ByteValues
        <4> QED
          BY <1>b, <3>2, <3>3, <4>1, SMT
      <3>5. CASE High(n) = 1
        BY <1>b, <3>2, <3>5, SMT
      <3>6. CASE High(n) = 0
        BY <1>b, <1>d, <3>2, <3>6, SMT
      <3> QED
        BY <2>2, <3>4, <3>5, <3>6, SMT DEF ByteValues
    <2>7. CASE Bytes(High(n), Low(n - 1)) = 0
      <3>1. High(n) = 0 /\ Low(n - 1) = 0
        BY <2>2, <2>3, <2>4, <2>7
      <3>2. n = Low(n) /\ n - 1 = High(n - 1) * ByteBase
        BY <1>b, <2>2, <2>3, <3>1, SMT DEF ByteValues
      <3>3. CASE High(n - 1) >= 1
        <4>1. 1 * ByteBase <= High(n - 1) * ByteBase
          BY <1>b, <2>3, <3>3, Multiply, SMT DEF ByteValues
        <4> QED
          BY <1>b, <2>2, <3>2, <4>1, SMT DEF ByteValues
      <3>4. CASE High(n - 1) = 0
        BY <1>b, <3>2, <3>4, SMT
      <3> QED
        BY <2>3, <3>3, <3>4, SMT DEF ByteValues
    <2> QED
      BY <1>d, <2>1, <2>5, <2>6, <2>7 DEF TornReads
  <1> QED
    BY <1>d

----------------------------------------------------------------------------
\* The types.

\* The parts of TypeOK.
StateOK   == /\ deviceState \in {"Unattached", "Default", "Configured"} /\ enumerated \in BOOLEAN
             /\ pc \in {"hid", "send", "usb", "answer", "status", "vain", "main"}
FramesOK  == frame \in 0 .. FrameMod - 1 /\ prevFrameNum \in 0 .. FrameMod - 1
ReportsOK == /\ pressed \in SUBSET Buttons
             /\ report \in Report /\ prevButtonMask \in Report /\ buttonChange \in Report
             /\ prevReport \in Report /\ hostReport \in Report
             /\ \E r \in Report : bank \in {{}, {r}}
IdleOK    == idleCount \in Idle /\ idleMS \in Idle

LEMMA TypeParts == TypeOK <=> StateOK /\ FramesOK /\ ReportsOK /\ IdleOK
  BY Zenon DEF TypeOK, StateOK, FramesOK, ReportsOK, IdleOK

LEMMA ZeroIdle == 0 \in Idle /\ IdleDefault \in Idle /\ IdleRequests \subseteq Idle
  <1>1. 1 * 1 <= ByteBase * ByteBase
    <2>1. 1 * ByteBase <= ByteBase * ByteBase
      BY Multiply, IdleAssumption, SMT
    <2> QED
      BY <2>1, IdleAssumption, SMT
  <1> QED
    BY <1>1, IdleAssumption, SMT DEF Idle

LEMMA TypeInit == Init => TypeOK
  <1> SUFFICES ASSUME Init PROVE TypeOK
    OBVIOUS
  <1>1. StateOK
    BY Zenon DEF Init, StateOK
  <1>2. FramesOK
    BY FrameAssumption, SMT DEF Init, FramesOK
  <1>3. ReportsOK
    <2>1. {} \in Report
      BY DEF Report
    <2> QED
      BY <2>1, Zenon DEF Init, ReportsOK
  <1>4. IdleOK
    BY ZeroIdle DEF Init, IdleOK
  <1> QED
    BY <1>1, <1>2, <1>3, <1>4, TypeParts

LEMMA StateStep == ASSUME StateOK, [Next]_vars PROVE StateOK'
  <1> USE DEF StateOK
  <1>1. CASE HidTask
    BY <1>1, Zenon
    DEF HidTask, TaskSkip, TaskScan, TaskSend, TaskSendInterrupted, Finish, busVars
  <1>2. CASE UsbTask
    BY <1>2, Zenon
    DEF UsbTask, UsbIdle, GetReport, SetConfiguration, SetIdle, AnswerEnds, AnswerCutOff,
        busVars
  <1>3. CASE AnswerAborted \/ MainPass
    BY <1>3, Zenon DEF AnswerAborted, MainPass, busVars
  <1>4. CASE World
    BY <1>4, Zenon
    DEF World, Finger, StartOfFrame, HostPoll, HostTakesAnswer, HostGivesUp, Suspend, WakeUp,
        Reset, busVars
  <1>5. CASE UNCHANGED vars
    BY <1>5, Zenon DEF vars, busVars
  <1> QED
    BY <1>1, <1>2, <1>3, <1>4, <1>5 DEF Next

LEMMA FramesStep == ASSUME FramesOK, [Next]_vars PROVE FramesOK'
  <1> USE DEF FramesOK
  <1>0. (frame + 1) % FrameMod \in 0 .. FrameMod - 1 /\ 0 \in 0 .. FrameMod - 1
    BY FrameAssumption, SMT
  <1>1. CASE HidTask
    BY <1>0, <1>1, Zenon
    DEF HidTask, TaskSkip, TaskScan, TaskSend, TaskSendInterrupted, Finish, busVars, driverVars
  <1>2. CASE UsbTask
    BY <1>0, <1>2, Zenon
    DEF UsbTask, UsbIdle, GetReport, SetConfiguration, SetIdle, AnswerEnds, AnswerCutOff,
        busVars, driverVars
  <1>3. CASE AnswerAborted \/ MainPass
    BY <1>3, Zenon DEF AnswerAborted, MainPass, busVars, driverVars
  <1>4. CASE World
    BY <1>0, <1>4, Zenon
    DEF World, Finger, StartOfFrame, HostPoll, HostTakesAnswer, HostGivesUp, Suspend, WakeUp,
        Reset, busVars, driverVars
  <1>5. CASE UNCHANGED vars
    BY <1>5, Zenon DEF vars, busVars, driverVars
  <1> QED
    BY <1>1, <1>2, <1>3, <1>4, <1>5 DEF Next

LEMMA ReportsStep == ASSUME ReportsOK, [Next]_vars PROVE ReportsOK'
  <1> USE DEF ReportsOK
  <1>0. Scanned \in Report /\ Scanned \ prevButtonMask \in Report /\ {} \in Report
    BY DEF Scanned, Report, Pins
  <1>1. CASE HidTask
    <2>1. CASE TaskSkip
      BY <2>1, Zenon DEF TaskSkip, scanVars, driverVars
    <2>2. CASE TaskScan
      BY <1>0, <2>2, Zenon DEF TaskScan, CreateHIDReport, driverVars
    <2>3. CASE TaskSend \/ TaskSendInterrupted
      <3>1. /\ prevReport' = report /\ report' = {}
            /\ UNCHANGED <<pressed, prevButtonMask, buttonChange, hostReport>>
            /\ bank' \in {bank, {report}}
        BY <2>3, Zenon DEF TaskSend, TaskSendInterrupted, Finish
      <3> QED
        BY <1>0, <3>1, Zenon
    <2> QED
      BY <1>1, <2>1, <2>2, <2>3 DEF HidTask
  <1>2. CASE UsbTask
    BY <1>0, <1>2, Zenon
    DEF UsbTask, UsbIdle, GetReport, CreateHIDReport, SetConfiguration, SetIdle,
        AnswerEnds, AnswerCutOff, scanVars, driverVars
  <1>3. CASE AnswerAborted \/ MainPass
    BY <1>0, <1>3, Zenon DEF AnswerAborted, MainPass, scanVars, driverVars
  <1>4. CASE World
    <2>1. CASE \E b \in Buttons : Finger(b)
      <3>1. pressed' \in SUBSET Buttons
        BY <2>1 DEF Finger
      <3> QED
        BY <2>1, <3>1, Zenon DEF Finger, scanVars, driverVars
    <2>2. CASE HostPoll
      <3>1. hostReport' \in Report /\ bank' = {}
        BY <2>2 DEF HostPoll
      <3> QED
        BY <2>2, <3>1, Zenon DEF HostPoll, scanVars, driverVars
    <2>3. CASE StartOfFrame \/ HostTakesAnswer \/ HostGivesUp \/ Suspend \/ WakeUp \/ Reset
      BY <2>3, Zenon
      DEF StartOfFrame, HostTakesAnswer, HostGivesUp, Suspend, WakeUp, Reset, scanVars, driverVars
    <2> QED
      BY <1>4, <2>1, <2>2, <2>3 DEF World
  <1>5. CASE UNCHANGED vars
    BY <1>5, Zenon DEF vars, scanVars, driverVars
  <1> QED
    BY <1>1, <1>2, <1>3, <1>4, <1>5 DEF Next

LEMMA IdleStep == ASSUME IdleOK, [Next]_vars PROVE IdleOK'
  <1> USE DEF IdleOK
  <1>0. Decremented(idleMS) \in Idle
    BY DecrementedIdle
  <1>1. CASE HidTask
    <2>1. CASE TaskSkip \/ TaskScan
      BY <2>1, Zenon DEF TaskSkip, TaskScan, driverVars
    <2>2. CASE TaskSend
      BY <2>2, Zenon DEF TaskSend, Finish
    <2>3. CASE TaskSendInterrupted
      <3>1. CASE \E seen \in TornReads(idleMS) : Finish(seen, idleCount, Decremented(idleMS))
        BY <1>0, <3>1, Zenon DEF Finish
      <3>2. CASE \E left \in TornWrites(idleMS, idleCount) :
                    Finish(idleMS, left, Decremented(idleMS))
        <4>1. PICK left \in TornWrites(idleMS, idleCount) :
                     Finish(idleMS, left, Decremented(idleMS))
          BY <3>2
        <4>2. left \in Idle
          BY TornWritesIdle
        <4> QED
          BY <1>0, <4>1, <4>2, Zenon DEF Finish
      <3> QED
        BY <2>3, <3>1, <3>2 DEF TaskSendInterrupted
    <2> QED
      BY <1>1, <2>1, <2>2, <2>3 DEF HidTask
  <1>2. CASE UsbTask
    BY <1>2, ZeroIdle, Zenon
    DEF UsbTask, UsbIdle, GetReport, SetConfiguration, SetIdle, AnswerEnds, AnswerCutOff, driverVars
  <1>3. CASE AnswerAborted \/ MainPass
    BY <1>3, Zenon DEF AnswerAborted, MainPass, driverVars
  <1>4. CASE World
    BY <1>0, <1>4, Zenon
    DEF World, Finger, StartOfFrame, HostPoll, HostTakesAnswer, HostGivesUp, Suspend, WakeUp,
        Reset, driverVars
  <1>5. CASE UNCHANGED vars
    BY <1>5, Zenon DEF vars, driverVars
  <1> QED
    BY <1>1, <1>2, <1>3, <1>4, <1>5 DEF Next

----------------------------------------------------------------------------
\* The repetition of a report.

\* The bank is free from the gate to the end of the HID task.
BankIsFree == pc = "send" => bank = {}

LEMMA BankInit == Init => BankIsFree
  BY Zenon DEF Init, BankIsFree

LEMMA BankStep == ASSUME BankIsFree, [Next]_vars PROVE BankIsFree'
  <1> USE DEF BankIsFree
  <1>1. CASE HidTask
    BY <1>1
    DEF HidTask, TaskSkip, TaskScan, HidReady, TaskSend, TaskSendInterrupted, Finish
  <1>2. CASE UsbTask \/ AnswerAborted \/ MainPass
    BY <1>2 DEF UsbTask, UsbIdle, GetReport, SetConfiguration, SetIdle, AnswerEnds, AnswerCutOff,
               AnswerAborted, MainPass
  <1>3. CASE World
    BY <1>3, Zenon
    DEF World, Finger, StartOfFrame, HostPoll, HostTakesAnswer, HostGivesUp, Suspend, WakeUp, Reset
  <1>4. CASE UNCHANGED vars
    BY <1>4, Zenon DEF vars
  <1> QED
    BY <1>1, <1>2, <1>3, <1>4 DEF Next

LEMMA RepeatStep == ASSUME TypeOK, BankIsFree, [Next]_vars,
                           pc = "send", bank' # bank, report = prevReport
                    PROVE  idleMS \in {0, 1, ByteBase}
  <1>b. bank = {}
    BY DEF BankIsFree
  <1>0. idleMS \in Idle
    BY DEF TypeOK
  <1>1. CASE HidTask
    <2>1. CASE TaskSkip \/ TaskScan
      BY <2>1 DEF TaskSkip, TaskScan
    <2>2. CASE TaskSend
      BY <2>2 DEF TaskSend, Finish, Sending
    <2>3. CASE TaskSendInterrupted
      <3>1. CASE \E seen \in TornReads(idleMS) : Finish(seen, idleCount, Decremented(idleMS))
        <4>1. 0 \in TornReads(idleMS)
          BY <3>1 DEF Finish, Sending
        <4> QED
          BY <1>0, <4>1, TornReadZero
      <3>2. CASE \E left \in TornWrites(idleMS, idleCount) :
                    Finish(idleMS, left, Decremented(idleMS))
        BY <3>2 DEF Finish, Sending
      <3> QED
        BY <2>3, <3>1, <3>2 DEF TaskSendInterrupted
    <2> QED
      BY <1>1, <2>1, <2>2, <2>3 DEF HidTask
  <1>2. CASE UsbTask \/ AnswerAborted \/ MainPass
    BY <1>2 DEF UsbTask, UsbIdle, GetReport, SetConfiguration, SetIdle, AnswerEnds, AnswerCutOff,
               AnswerAborted, MainPass
  <1>3. CASE World
    BY <1>b, <1>3, Zenon
    DEF World, Finger, StartOfFrame, HostPoll, HostTakesAnswer, HostGivesUp, Suspend, WakeUp, Reset
  <1>4. CASE UNCHANGED vars
    BY <1>4, Zenon DEF vars
  <1> QED
    BY <1>1, <1>2, <1>3, <1>4 DEF Next

----------------------------------------------------------------------------
\* What the host is told.

\* What a GET_REPORT is sending is what the driver has saved.
AnswerIsSaved == pc = "answer" => report = prevReport

LEMMA AnswerInit == Init => AnswerIsSaved
  BY Zenon DEF Init, AnswerIsSaved

LEMMA AnswerStep == ASSUME AnswerIsSaved, [Next]_vars PROVE AnswerIsSaved'
  <1> USE DEF AnswerIsSaved
  <1>1. CASE HidTask
    BY <1>1 DEF HidTask, TaskSkip, TaskScan, TaskSend, TaskSendInterrupted, Finish
  <1>2. CASE UsbTask \/ AnswerAborted \/ MainPass
    BY <1>2 DEF UsbTask, UsbIdle, GetReport, SetConfiguration, SetIdle, AnswerEnds, AnswerCutOff,
               AnswerAborted, MainPass
  <1>3. CASE World
    BY <1>3, Zenon
    DEF World, Finger, StartOfFrame, HostPoll, HostTakesAnswer, HostGivesUp, Suspend, WakeUp,
        Reset, scanVars, driverVars
  <1>4. CASE UNCHANGED vars
    BY <1>4, Zenon DEF vars, scanVars, driverVars
  <1> QED
    BY <1>1, <1>2, <1>3, <1>4 DEF Next

\* Whatever the idle count reads as, a report that differs from the last one is sent.
LEMMA FinishTells ==
  ASSUME BankIsFree, HostIsTold, pc = "send",
         NEW seen, NEW sent, NEW kept, Finish(seen, sent, kept)
  PROVE  HostIsTold' \/ ~enumerated'
  <1>1. bank = {} /\ hostReport = prevReport
    <2>1. bank = {} /\ pc # "answer"
      BY DEF BankIsFree
    <2> QED
      BY <2>1, Zenon DEF HostIsTold
  <1>2. prevReport' = report /\ hostReport' = hostReport /\ enumerated' = enumerated
    BY Zenon DEF Finish
  <1>3. CASE enumerated /\ Sending(seen)
    <2>1. bank' = {report}
      BY <1>3, Zenon DEF Finish
    <2> QED
      BY <1>2, <2>1 DEF HostIsTold
  <1>4. CASE ~Sending(seen)
    <2>1. report = prevReport
      BY <1>4, Zenon DEF Sending
    <2>2. bank' = {}
      BY <1>1, <1>4, Zenon DEF Finish
    <2> QED
      BY <1>1, <1>2, <2>1, <2>2 DEF HostIsTold
  <1>5. CASE ~enumerated
    BY <1>2, <1>5
  <1> QED
    BY <1>3, <1>4, <1>5

LEMMA ToldStep ==
  ASSUME BankIsFree, AnswerIsSaved, HostIsTold, [Next]_vars
  PROVE  \/ HostIsTold'
         \/ ~enumerated'
         \/ bank # {} /\ (SetConfiguration \/ HostTakesAnswer)
         \/ pc = "answer" /\ (HostGivesUp \/ AnswerCutOff)
  <1>0. ASSUME prevReport' = prevReport, bank' = bank, hostReport' = hostReport, pc # "answer"
        PROVE  HostIsTold'
    BY <1>0, Zenon DEF HostIsTold
  <1>1. CASE HidTask
    <2>1. CASE TaskSkip \/ TaskScan
      <3>1. pc # "answer"
        BY <2>1 DEF TaskSkip, TaskScan
      <3> QED
        BY <1>0, <2>1, <3>1, Zenon DEF TaskSkip, TaskScan, driverVars
    <2>2. CASE TaskSend \/ TaskSendInterrupted
      BY <2>2, FinishTells, Zenon DEF TaskSend, TaskSendInterrupted
    <2> QED
      BY <1>1, <2>1, <2>2 DEF HidTask
  <1>2. CASE GetReport
    BY <1>2, Zenon DEF GetReport, HostIsTold
  <1>3. CASE HostTakesAnswer
    <2>1. CASE bank # {}
      BY <1>3, <2>1
    <2>2. CASE bank = {}
      <3>1. hostReport' = prevReport' /\ bank' = {}
        BY <1>3, <2>2, Zenon DEF HostTakesAnswer, AnswerIsSaved, driverVars
      <3> QED
        BY <3>1, Zenon DEF HostIsTold
    <2> QED
      BY <2>1, <2>2
  <1>4. CASE SetConfiguration
    <2>1. CASE bank # {}
      BY <1>4, <2>1
    <2>2. CASE bank = {}
      <3>1. pc # "answer"
        BY <1>4 DEF SetConfiguration
      <3>2. hostReport = prevReport
        BY <2>2, <3>1, Zenon DEF HostIsTold
      <3>3. bank' = {} /\ hostReport' = prevReport'
        BY <1>4, <3>2, Zenon DEF SetConfiguration
      <3> QED
        BY <3>3, Zenon DEF HostIsTold
    <2> QED
      BY <2>1, <2>2
  <1>5. CASE HostGivesUp \/ AnswerCutOff
    <2>1. CASE pc = "answer"
      BY <1>5, <2>1
    <2>2. CASE pc # "answer"
      BY <1>0, <1>5, <2>2, Zenon DEF HostGivesUp, AnswerCutOff, driverVars
    <2> QED
      BY <2>1, <2>2
  <1>6. CASE \/ UsbIdle \/ (\E i \in IdleRequests : SetIdle(i))
             \/ AnswerEnds \/ AnswerAborted \/ MainPass
    <2>1. pc # "answer"
      BY <1>6 DEF UsbIdle, SetIdle, AnswerEnds, AnswerAborted, MainPass
    <2> QED
      BY <1>0, <1>6, <2>1, Zenon
      DEF UsbIdle, SetIdle, AnswerEnds, AnswerAborted, MainPass, driverVars
  <1>7. CASE HostPoll
    <2>1. CASE pc = "answer"
      BY <1>7, <2>1, Zenon DEF HostPoll, HostIsTold
    <2>2. CASE pc # "answer"
      <3>1. bank = {prevReport} /\ hostReport' \in bank
        BY <1>7, <2>2, Zenon DEF HostPoll, HostIsTold
      <3>2. hostReport' = prevReport
        BY <3>1
      <3> QED
        BY <1>7, <3>2, Zenon DEF HostPoll, HostIsTold, driverVars
    <2> QED
      BY <2>1, <2>2
  <1>8. CASE Reset
    BY <1>8, Zenon DEF Reset
  <1>9. CASE \/ (\E b \in Buttons : Finger(b)) \/ StartOfFrame \/ Suspend \/ WakeUp
             \/ UNCHANGED vars
    <2>1. /\ prevReport' = prevReport /\ bank' = bank /\ hostReport' = hostReport
          /\ pc' = pc
      BY <1>9, Zenon DEF Finger, StartOfFrame, Suspend, WakeUp, vars, driverVars
    <2> QED
      BY <2>1, Zenon DEF HostIsTold
  <1> QED
    BY <1>1, <1>2, <1>3, <1>4, <1>5, <1>6, <1>7, <1>8, <1>9 DEF Next, UsbTask, World

----------------------------------------------------------------------------
\* The theorems.

LEMMA TypeStep == ASSUME TypeOK, [Next]_vars PROVE TypeOK'
  <1>1. StateOK /\ FramesOK /\ ReportsOK /\ IdleOK
    BY TypeParts
  <1>2. StateOK' /\ FramesOK' /\ ReportsOK' /\ IdleOK'
    BY <1>1, StateStep, FramesStep, ReportsStep, IdleStep
  <1> QED
    BY <1>2, TypeParts, PTL

\* Reports are sets of pins, idle counts fit their 16 bits, also when they are read and
\* written in halves, and the endpoint's bank holds one report or none.
THEOREM TypeCorrect == Spec => []TypeOK
  BY TypeInit, TypeStep, PTL DEF Spec

\* An unchanged report is repeated when the idle count is at its end, or reads as if it
\* were because the frame interrupt falls between its bytes, a one and a zero.
THEOREM RepeatCorrect == Spec => RepeatsNearIdle
  <1>1. Init => BankIsFree
    BY BankInit
  <1>2. BankIsFree /\ [Next]_vars => BankIsFree'
    BY BankStep
  <1>3. TypeOK /\ BankIsFree /\ [Next]_vars
          => [(pc = "send" /\ bank' # bank /\ report = prevReport)
                => idleMS \in {0, 1, ByteBase}]_vars
    BY RepeatStep
  <1> QED
    BY <1>1, <1>2, <1>3, TypeCorrect, PTL DEF Spec, RepeatsNearIdle

\* What the driver believes told is with the host or on its way, unless a reset, a
\* SET_CONFIGURATION, an older report in the bank or a GET_REPORT that the host does not
\* see through has taken it (HIDClassDevice.c:60-72, 175-195).
THEOREM ToldCorrect == Spec => ReportsAreTold
  <1>1. Init => BankIsFree /\ AnswerIsSaved
    BY BankInit, AnswerInit
  <1>2. BankIsFree /\ AnswerIsSaved /\ [Next]_vars => BankIsFree' /\ AnswerIsSaved'
    BY BankStep, AnswerStep
  <1>3. BankIsFree /\ AnswerIsSaved /\ [Next]_vars
          => [HostIsTold => \/ HostIsTold'
                            \/ ~enumerated'
                            \/ bank # {} /\ (SetConfiguration \/ HostTakesAnswer)
                            \/ pc = "answer" /\ (HostGivesUp \/ AnswerCutOff)]_vars
    BY ToldStep
  <1> QED
    BY <1>1, <1>2, <1>3, PTL DEF Spec, ReportsAreTold

----------------------------------------------------------------------------
(***************************************************************************)
(* What a scan of the buttons returns, for every content of the expander's *)
(* registers before it: the controller may restart without the expander.   *)
(***************************************************************************)
Chips == [X!Registers -> SUBSET X!Pins]

LEMMA SentOne ==
  ASSUME NEW chip \in Chips, NEW a \in X!Registers, NEW byte \in SUBSET X!Pins
  PROVE  /\ X!Sent(chip, a, <<byte>>) \in Chips
         /\ \A r \in X!Registers : X!Sent(chip, a, <<byte>>)[r] = IF r = a THEN byte ELSE chip[r]
  BY SMT DEF Chips, X!Sent, X!Registers

LEMMA SentTwo ==
  ASSUME NEW chip \in Chips, NEW a \in X!Registers,
         NEW b0 \in SUBSET X!Pins, NEW b1 \in SUBSET X!Pins
  PROVE  /\ X!Sent(chip, a, <<b0, b1>>) \in Chips
         /\ \A r \in X!Registers : X!Sent(chip, a, <<b0, b1>>)[r] =
              IF r = a THEN b0 ELSE IF r = a + 1 THEN b1 ELSE chip[r]
  BY SMT DEF Chips, X!Sent, X!Registers

LEMMA SentFour ==
  ASSUME NEW chip \in Chips, NEW a \in X!Registers,
         NEW b0 \in SUBSET X!Pins, NEW b1 \in SUBSET X!Pins,
         NEW b2 \in SUBSET X!Pins, NEW b3 \in SUBSET X!Pins
  PROVE  /\ X!Sent(chip, a, <<b0, b1, b2, b3>>) \in Chips
         /\ \A r \in X!Registers : X!Sent(chip, a, <<b0, b1, b2, b3>>)[r] =
              IF r = a THEN b0 ELSE IF r = a + 1 THEN b1
              ELSE IF r = a + 2 THEN b2 ELSE IF r = a + 3 THEN b3 ELSE chip[r]
  BY SMT DEF Chips, X!Sent, X!Registers

\* What the registers of bank 0 hold when the pins are read.
LEMMA Configured ==
  ASSUME NEW chip \in Chips
  PROVE  LET set == X!GPIOWrite(X!GPIOInit(chip), 0, {0})
         IN  set[X!IODIR] = X!ButtonPins /\ set[X!IPOL] = X!Pins /\ set[X!GPPU] = X!ButtonPins /\ set[X!GPIO] = {0}
  <1> DEFINE directions == X!Sent(chip, X!IODIR, <<X!ButtonPins, {}, X!Pins, X!Pins>>)
             pulled     == X!Sent(directions, X!GPPU, <<X!ButtonPins, {}>>)
             high       == X!Sent(pulled, X!GPIO, <<X!Pins>>)
             set        == X!Sent(high, X!GPIO, <<{0}>>)
  <1>1. {X!IODIR, X!IPOL, X!GPPU, X!GPIO} \subseteq X!Registers
    BY SMT DEF X!IODIR, X!IPOL, X!GPPU, X!GPIO, X!Registers
  <1>2. {X!ButtonPins, {}, X!Pins, {0}} \subseteq SUBSET X!Pins
    BY SMT DEF X!ButtonPins, X!Pins
  <1>3. directions \in Chips /\ directions[X!IODIR] = X!ButtonPins /\ directions[X!IPOL] = X!Pins
    BY <1>1, <1>2, SentFour, SMT DEF X!IODIR, X!IPOL
  <1> HIDE DEF directions
  <1>4. pulled \in Chips /\ pulled[X!IODIR] = X!ButtonPins /\ pulled[X!IPOL] = X!Pins /\ pulled[X!GPPU] = X!ButtonPins
    BY <1>1, <1>2, <1>3, SentTwo, SMT DEF X!IODIR, X!IPOL, X!GPPU
  <1> HIDE DEF pulled
  <1>5. high \in Chips /\ high[X!IODIR] = X!ButtonPins /\ high[X!IPOL] = X!Pins /\ high[X!GPPU] = X!ButtonPins
    BY <1>1, <1>2, <1>4, SentOne, SMT DEF X!IODIR, X!IPOL, X!GPPU, X!GPIO
  <1> HIDE DEF high
  <1>6. set[X!IODIR] = X!ButtonPins /\ set[X!IPOL] = X!Pins /\ set[X!GPPU] = X!ButtonPins /\ set[X!GPIO] = {0}
    BY <1>1, <1>2, <1>5, SentOne, SMT DEF X!IODIR, X!IPOL, X!GPPU, X!GPIO
  <1>7. X!GPIOWrite(X!GPIOInit(chip), 0, {0}) = set
    BY SMT DEF X!GPIOWrite, X!GPIOInit, X!GPIOSetDir, set, high, pulled, directions, X!GPIO
  <1> QED
    BY <1>6, <1>7

\* A scan reads the buttons that are down, and the row pins as 1, although the
\* latch of pin 0 is written with a one and all pins are read inverted
\* (mcp23s17.c:6-47, wheel-display.c:138-139): nothing that was in the expander's
\* registers before shows.
THEOREM ScanReadsButtons ==
  \A chip \in Chips, down \in SUBSET X!ButtonPins : X!Scan(chip, down) = down \union X!DrivenPins
  <1> SUFFICES ASSUME NEW chip \in Chips, NEW down \in SUBSET X!ButtonPins
               PROVE  X!Scan(chip, down) = down \union X!DrivenPins
    OBVIOUS
  <1> DEFINE set == X!GPIOWrite(X!GPIOInit(chip), 0, {0})
  <1>1. set[X!IODIR] = X!ButtonPins /\ set[X!IPOL] = X!Pins /\ set[X!GPPU] = X!ButtonPins /\ set[X!GPIO] = {0}
    BY Configured
  <1>2. X!Scan(chip, down) = X!GPIORead(set, 0, X!Grounded(set, down))
    BY Zenon DEF X!Scan
  <1> HIDE DEF set
  <1>3. \A grounded : X!High(set, 0, grounded) = X!ButtonPins \ grounded
    <2>1. X!IODIR + 0 = X!IODIR /\ X!GPPU + 0 = X!GPPU /\ X!GPIO + 0 = X!GPIO
      BY SMT DEF X!IODIR, X!GPPU, X!GPIO
    <2>2. X!ButtonPins \subseteq X!Pins /\ 0 \in X!ButtonPins
      BY SMT DEF X!ButtonPins, X!Pins
    <2>3. \A i \in X!Pins \ X!ButtonPins : i # 0
      BY <2>2
    <2> QED
      BY <1>1, <2>1, <2>2, <2>3 DEF X!High
  <1>4. X!Grounded(set, down) = down
    <2>1. X!DrivenPins \intersect (X!ButtonPins \ {}) = {}
      BY SMT DEF X!DrivenPins, X!ButtonPins
    <2> QED
      BY <1>3, <2>1 DEF X!Grounded
  <1>5. X!GPIORead(set, 0, down) = X!Pins \ (X!ButtonPins \ down)
    <2>1. X!IPOL + 0 = X!IPOL
      BY SMT DEF X!IPOL
    <2>2. X!ButtonPins \subseteq X!Pins
      BY SMT DEF X!ButtonPins, X!Pins
    <2> QED
      BY <1>1, <1>3, <2>1, <2>2 DEF X!GPIORead
  <1>6. X!Pins \ (X!ButtonPins \ down) = down \union X!DrivenPins
    <2>1. \A i \in X!Pins : i \in X!ButtonPins \/ i \in X!DrivenPins
      BY SMT DEF X!Pins, X!ButtonPins, X!DrivenPins
    <2>2. X!ButtonPins \subseteq X!Pins /\ X!DrivenPins \subseteq X!Pins /\ X!ButtonPins \intersect X!DrivenPins = {}
      BY SMT DEF X!Pins, X!ButtonPins, X!DrivenPins
    <2> QED
      BY <2>1, <2>2
  <1> QED
    BY <1>2, <1>4, <1>5, <1>6
============================================================================
