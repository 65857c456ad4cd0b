# Wheel Display in TLA+

The firmware drives the display, the LEDs and the buttons of a racing wheel on
an AVR at90usb162. A PC writes game data to it with USB vendor requests; two of
the wheel's buttons rotate what the rows of the 128x64 LCD show; the buttons are
also a USB joystick, and a microphone is a USB audio source. This directory
models the parts whose correctness depends on state and order, checks them with
TLC and proves their safety properties with TLAPS.

## The system

`main` (wheel-display.c) is one endless loop; interrupts cut into it.

| Part | State | Operations | Speaks to |
|---|---|---|---|
| Host's values (wheel-display.c) | `data[32]`, `updatePending` | vendor request in `EVENT_USB_Device_ControlRequest` | called by the USB task |
| Rows and buttons (wheel-display.c) | `lcdtypes[7]`, `buttonChange` | the button branch and the update branch of `main` | labels, LEDs, backlight |
| Labels (lcd.c) | `labels[14]` | `LCDinit`, `LCDProcessMessage`, `LCDupdate` | LCD |
| LCD (lcd.c, ks0108.c) | two display controllers | `LCD_writestring`, `LCD_writechar_*`, `ks0108_*` | pins |
| Joystick (wheel-display.c, LUFA HID class) | `prevButtonMask`, `buttonChange`, `PrevReportINBuffer`, frame number, idle count | `CreateHIDReport`, `HID_Device_USBTask`, `GET_REPORT`, `SET_IDLE` | GPIO over SPI, host |
| USB core (LUFA) | `USB_DeviceState`, configuration, the endpoints and the selected one | `ISR(USB_GEN_vect)`, `USB_USBTask`, standard requests | everything |
| Audio (wheel-display.c, LUFA audio class) | `audioSample`, sampling rate, timer, stream switch | `ISR(TIMER0_COMPA_vect)`, interface and endpoint requests | selected endpoint |
| Port expander, SPI (mcp23s17.c, spi.c) | the expander's registers | `GPIOInit`, `GPIOWrite`, `GPIORead` | scan, LEDs |
| Converter, noise filter (mcp3204.c, nlms.c) | noise floors; `x`, `n`, `w`, `p`, `leak` | `ADCinit`, `ADCGetValue`, `nlms` | `audioSample` |

What is hard here, part by part, and what makes the part correct:

* **Labels.** A label's type is kept in five bits that are only ever ORed
  (`SET_TYPE`), its change test looks at another label's number, a header is too
  long for its buffer. After every update the display should nevertheless name
  and show what the rows are set to. This is a question of long sequences of
  presses and writes.
* **LCD.** Texts cross between two controllers with wrapping column counters, are
  cleaned up by the width of the last one, and after the overrun are drawn at
  places nobody has chosen. The display should show its labels and nothing else.
* **Rows and buttons.** The edge of a press is found by a scan in the HID task
  and used later in the loop, by a branch that does not clear it; another caller
  may scan in between. A press should rotate a row once.
* **Joystick.** The driver saves a report before it sends it, shares a 16-bit
  counter with an interrupt, and loses its endpoint at a bus reset. The host
  should still learn what is pressed.
* **Host's values.** No word may be lost between a request and the display.
* **USB core.** A control request is handled in one go, with waits for the host
  in the middle of it, some with interrupts off, while resets and suspends come at
  any time and the host may begin another transfer. A request should take effect
  as a whole or be refused, and no wait should outlive its cause.
* **Audio.** The main loop and two interrupts share one register for the selected
  endpoint; one of the interrupts does not give it back. Reports, samples and
  configurations should still reach the endpoints they are meant for. The sample is
  stored in two bytes, the timer's period computed from whatever the host asks for.
* **Filter.** Fixed-point arithmetic in 16 bits, with a step of the wrong sign and a
  power estimate that only decays. It should not divide by zero or cut its output.

## Modules

| Module | Models | Correspondence |
|---|---|---|
| `Message` | message.h, headers.h, the macros of lcd.h | A five-bit type is the set of its bits, so `|` is union and a meta byte is a subset of 0..7. Texts of headers are represented by their types. |
| `Panel` | `data[]`, `lcdtypes[]`, `labels[]`, screen, LEDs, backlight | `ControlRequest` is one vendor request, `MainLoop` the button and update branches of one pass. `ProcessGear`, `ProcessHeader`, `ProcessValue` are the three parts of `LCDProcessMessage`, `ScreenNow` and `Drawn` are `LCDupdate` with `LCD_writestring`. |
| `Dashboard` | what the display promises | No labels or flags: two shifting rows, headings, readings. |
| `Lcd` | the two controllers under `LCD_writestring`, `LCD_writechar_8/16`, `LCD_writegear`, `ks0108_clear_range` | A text is the widths of its glyphs; `Starts` goes through it as the loop of `LCD_writestring` does, `Layout` says which columns it covers, `Write` is one call. |
| `Display` | `Panel` with the pixels of `Lcd` | `Pass` is `Panel`'s pass, and `Updated` draws the flagged labels in the order of `LCDupdate`. |
| `Joystick` | the scan, the HID class driver, the bus | `pc` is the loop's place. `TaskScan` and `TaskSend` are the two halves of `HID_Device_USBTask`; `TaskSendInterrupted` is the second half with the frame interrupt inside one of its 16-bit accesses. `GetReport`, `SetIdle`, `SetConfiguration` are the requests; a `GetReport` waits in its stream until `AnswerEnds`, `AnswerCutOff` or `AnswerAborted`, the three ways the stream returns. `StartOfFrame`, `Suspend`, `WakeUp`, `Reset` the branches of `ISR(USB_GEN_vect)`. |
| `Expander` | the MCP23S17's registers | `Sent` is one transfer; `Scan` is what the scan of the buttons reads after `GPIOInit`. An assumption of `Joystick` takes it from here. |
| `WheelDisplay` | the whole loop | Instances of `Joystick` and `Panel` that share `buttonChange`; the history variable `owed` holds the edges found and not yet acted on. |
| `ControlPipe` | control transfers: the control endpoint, `USB_ControlRequest`, device state, what requests set, the host | `ReadSetup` is `USB_DeviceTask`, one action per sort of handler (`AnswerStream`, `AnswerByte`, `TakeStream`, `SetLater`, `SetConfiguration`, `ClearSetFeature`, `VendorRequest`, `Ignore`) runs up to its first wait, one per wait (`ClearStatusStage`, `WriteStream`, `ReadStream`, ...) ends it, `Effect`, `SetDeviceAddress` and `EndRequest` are what follows. `Suspend`, `WakeUp`, `Reset` are the branches of `ISR(USB_GEN_vect)`; `Host*` is the host. |
| `AudioStream` | the selected endpoint, the endpoints' configuration and banks, the sample timer and its interrupt | `pc` is the loop's place. `Hid*` are the accesses of `HID_Device_USBTask`, `Usb*` those of `USB_DeviceTask`, `StoreNumber` to `StoreState` the steps of `USB_Device_SetConfiguration`, `SelectToConfigure` to `ClearState` those of `EVENT_USB_Device_ConfigurationChanged`, `Filter` and `Store` the loop's last line; `SampleInterrupt` is `ISR(TIMER0_COMPA_vect)`, `Suspend`, `WakeUp`, `Reset` are the branches of `ISR(USB_GEN_vect)`. |
| `Nlms` | nlms.c | `Nlms(voice, noise, wide)` is one call. |
| `Sampling` | `Nlms` with the noise floors of `ADCinit` | `ReadFloor` is an iteration of `ADCinit`, `Sample` the loop's last line. |
| `*Proofs` | | The theorems about `Panel`, `Joystick`, `WheelDisplay`, `ControlPipe`, `AudioStream`, `Sampling`, `Display`; those about `Expander` are in `JoystickProofs`. |
| `ByteTheorems` | | Lemmas about words of two bytes, for `Joystick` and `AudioStream`. |
| `MC*` | | The instances for TLC. |

How the data are abstracted:

* A label's text is the type it names (headers) or the word it formats (times);
  a number drawn is the number. Behind it, `ink` remembers which of the five
  number cells still hold a character of an earlier number, because the code
  draws all five (lcd.c:249). What those digits are is of no matter to `Panel`; `Display`
  keeps them (`digits`), since their widths decide where a text ends.
* A heading "is" a type when it begins with its name. After "fuel need" the
  letters "oap" follow, the overrun that has been drawn as well.
* `placed` says whether the value label still has the x and y of `LCDinit`. A
  displaced value is drawn from column 97 on, in whatever page the right
  controller has selected, because the page command is then invalid.
* `screen` holds what each label has last drawn at its own place. Whether something
  else has been drawn over it is the question of `Display`, where a column of pixels
  is the label and the content it was drawn for; a glyph is its width.
* The words a host may write to a row are at most 15 bits (src/README:7-12 gives
  15 bits to the longest), and times have one digit of tenths (`Fits`). Beyond
  that, numbers are drawn as negative and time texts do not fit their buffer.
* In `Joystick` and `AudioStream` the states Addressed, Powered and Default are one.
  A report is the set of pins that read 1, and the SPI transfer of a scan is
  atomic: no interrupt handler uses the bus.
* In `ControlPipe` a packet carries no data but the value a host sets; a request
  with a data stage to the device has one packet, a descriptor as many as it takes,
  the empty one after a full one included. A SETUP packet empties the bank and ends
  a STALL, as the controller does. Addresses the host sets are not 0, the default
  idle period of 500 is 1. `USB_ControlRequest` and the buffers are forgotten when
  a request ends, since nobody reads them before the next one has written them.
* `host.clean` tells whether a transfer has been left alone: the device was in its
  loop when it began and no reset or suspend has come since. `host.before` is what
  requests had set when it began. Both are history variables.
* `AudioStream` divides the main loop where it reads or sets the selected endpoint or
  the sample, and between the steps of a configuration. Requests that have nothing to
  do with endpoints or the timer, the waits of those that have, and the stages of the
  address and of the rate are left to `ControlPipe`. What the bank of an endpoint
  holds is a sequence of origins, `"sample"` or `"report"`. The registers of an
  endpoint's configuration are written in one step.
* `held` (no reset since the main loop has last selected an endpoint), `late` (a reset
  has overtaken the last SET_CONFIGURATION), `outputs` (the filter's last two) and
  `owed` are history variables.
* In `Sampling` the microphones give a finite signal during `ADCinit` and another one,
  over and over, after it. `Nlms` is exact: it has the widths of nlms.c, with an int
  of 16 bits. Where the C arithmetic overflows an int (`w[i] - leak`), a build may keep
  the difference or its low 16 bits; the variable `wide` is either.
* `Panel` has no interleaving inside a pass because no interrupt handler touches
  its variables. `Joystick` splits the HID task where an interrupt can change
  what it reads, between the scan and the rest and inside the accesses to
  `IdleMSRemaining`.

Facts about the build that the models rest on: the at90usb162 is a series-2 AVR, so a
suspend is a disconnection and a wake-up a connection; `-funsigned-char` makes
`SPI_MasterTransmit`'s bytes unsigned, so that readings of the converter are exact;
avr-gcc's division by zero returns the largest quotient and the dividend as remainder,
which is how `LCD_writechar_*` come by the column in the left controller.

## What is checked

| Run | Shows | States |
|---|---|---|
| `panel_rows` | `HeadersMatch`, `OutputsMatch`, `OnlySecondRowMoves`, `IInv`, `TypeOK`, with every sequence of presses of both buttons and writes of one number of each row, the gear and the LEDs | 45136 |
| `panel_dashboard` | `ImplementsDashboard`, `WordsAreShown`, with a number and a time | 3351 |
| `lcd` | `ReadingsMatch`; `CleanUntilDisplaced`, `DamageConfined`: column by column, what the display shows against what its labels have drawn | 13328 |
| `joystick` | `HostLearns`, `HeldButtonRests`, `RepeatsNearIdle`, `ReportsAreTold`, `TypeOK` | 599808 |
| `wheel` | `RowsRest`, `PressesRotate`, `LostOnlyToGetReport` | 97800 |
| `control` | `RequestsAreAtomic`, `AddressAfterStatus`, `EveryTransferEnds`, `DetachEndsWaits`, `AbortIsNoticed`, `TypeOK` | 141653 |
| `audio` | `SelectionHeld`, `ControlIntact`, `StreamHoldsSamples`, `SampleNearOutput`, `TimerFollowsRate`, `StreamFlows`, `UnreadyByWakeUp`, `TypeOK` | 105171 |
| `sampling` | `FloorBelowMiddle`, `DivisorPositive`, `OutputExact`, `JumpsOnlyAtLimits`, `TypeOK`, along the whole run of four sounds until it repeats | 59780 |

Four runs show where the code does not do what its comments or documentation say:

| Run | Says | The code |
|---|---|---|
| `panel_overrun` | wheel-display.c:367 "second button rotates second row", lcd.h:31 "R=reserved" | "fuel need" has no NUL in its nine bytes; the copy displaces the value label behind it, for good. |
| `wheel_repeat` | wheel-display.c:141 "save rising edge", 351 "first button rotates top row" | The edge is used again in every pass until the next scan. |
| `control_vendor` | Events.h:231-232: what nobody handles is STALLed | The vendor request is handled and then STALLed, for want of `Endpoint_ClearSETUP`. |
| `sampling_floor` | mcp3204.c:20 "average samples" | The sum of 16 readings overflows its 16 bits from a mean of 2048 on, and the "average" is negative. |

What else came up. The models have all of it, and the properties are stated so that
they say what is left:

* A zero is never drawn over another word, because lcd.c:69 tests the header's number:
  `ReadingsMatch` and `WordsAreShown` speak of words other than 0.
* lcd.c:249 compares an unsigned number with negative ones, so every number is drawn
  with five characters, old digits included: 515 and then 8 reads 85. `ReadingsMatch`
  says that a slot starts with its word and which digits may stand behind it; when the
  host's words differ by one digit in length at most there are none
  (`EvenWordsReadExactly`).
* A `GET_REPORT` between the HID task's scan and the button branch scans again and
  overwrites the edge. `LostOnlyToGetReport` says that nothing else loses one.
* A space in a header leaves what was there, and the space behind a glyph that ends at
  column 63 erases the gear's first column (`GearHit`).
* The 16-bit idle count is read in two bytes while an interrupt decrements it, so
  that a report may be repeated early. `RepeatsNearIdle` says that this
  happens with exactly 256 ms to go and in no other case.
* The driver saves a report before it sends it, in the HID task as for a `GET_REPORT`.
  The host is left with an older one until the idle period ends when a reset takes the
  endpoint away in between; when a SET_CONFIGURATION empties the bank; when a
  `GET_REPORT` overtakes the report in the bank; and when the host gives a `GET_REPORT`
  up, or a suspend cuts it off, before its data are out. `ReportsAreTold` says that
  nothing else loses one.
* A stream that waits for its status stage does not look for a new SETUP packet, nor
  does `Endpoint_ClearStatusStage`: a host that gives up there and begins anew waits
  for the device, and the device for it. `AbortIsNoticed` is about the data stage.
* A SETUP packet that arrives between the status stage of the last request and the
  check at its end (DeviceStandardReq.c:115) is STALLed unread. `RequestsAreAtomic`
  is about transfers that begin when the device is in its loop.
* `Audio_Device_ProcessControlRequest` uses its buffer also when the stream has
  ended early: the rate becomes `Undefined`.
* A wake-up makes an addressed device Configured that has no endpoints, and so does
  configuration 0, though that one configures them. `UnreadyByWakeUp` says that
  nothing else does.
* When the bus is suspended just before `USB_Device_SetAddress` turns interrupts
  off, nothing ends its second wait. This is a real halt of the firmware, and the
  reason why `control` does not check for deadlock and why `DetachEndsWaits`
  excepts `Masked`.
* After a reset in the middle of the HID task, the task sends a packet from endpoint 0
  that no request has asked for, or configures endpoint 0 as something else.
  `ControlIntact` says that the device is never Configured in such a state, with one
  exception: a reset after SET_CONFIGURATION has been read and before its number is
  stored does not stop it. The device is Configured at address 0, with an answer in
  endpoint 0 to a request the host has forgotten, until the next SETUP packet.
* Rates below 7783 Hz do not fit the timer and run at another one (`TimerFollowsRate`);
  the first of two bytes of a sample may be read with the second of the one before
  (`SampleNearOutput`).
* The filter's `ALPHA` is `1 << 15` in an int of 16 bits, a negative number: the
  filter adds noise until its weights are at their limits. A weight at -32768 stays
  there; one that falls below it jumps to the top, because nlms.c:59 tests the old
  weight. In a build that computes `w[i] - leak` in 16 bits the difference may overflow
  before the upper limit is tested, and the weight falls from the top to the bottom.
  The update multiplies by the voice and not by the noise. `OutputExact` says that the
  output is right all the same; `JumpsOnlyAtLimits` that the weights wrap round in these
  two ways only, the second in that build only.
* `ATOMIC_FORCEON` (spi.c:26) ends every SPI byte with interrupts on, before `sei`.
  Nothing that runs then minds: the interrupts that come early find the state they
  would find later.

### Bounds

* Words: `Panel` only compares words with 0, with 9, with each other and takes
  seven bits, so 0 (a gear) and 515 (not a gear, more than seven bits) meet every
  case of it. Lengths of numbers matter to `ReadingsMatch`, which `lcd` checks with 8
  and 31415. The proofs have all words.
* Entries written: one type of each row ("fuel need" in the second); the types of
  a row are treated alike but for their bits, and `data[]` of the others stays 0.
  All types are rotated through. Writes of the backlight are left to the proof.
  Presses are unbounded: the rows' tours are finite.
* `lcd` writes a number of five digits, which crosses between the controllers in the
  left slots and is cut by the edge of the display in the right ones, one of one digit,
  and a time. Both buttons take every type through every slot of its row. The number has
  digits of both widths, and the short one leaves some of them behind it. The proofs
  have all words and all digits.
* `FrameMod` = 3 (2048): the smallest value for which a frame number differs from
  both of the last two. `ByteBase` = 3 (256) and `IdleDefault` = 3 (500): an idle
  count has two bytes and passes the borrow between them, and 2 is a count that
  must neither read as zero nor be a borrow. The wheel, with bytes of two values,
  takes 2 frame numbers and an idle period of 1, since it asks about scans and
  rotations and not about idle counts.
* `Joystick` has two buttons, so that a change of one with the other held occurs;
  the wheel has the one that rotates the top row.
* `control` has a request for every action of the device and for every kind of
  effect; the other kinds take the same actions. A second configuration is one too
  many, and a descriptor of two packets is one that the host may be content with
  after the first. Values are chosen so that they add few states: 0 is enough to
  tell a rate that was set from one that was not (`Undefined`). Resets, suspends
  and given-up transfers are unbounded.
* `audio` has packets of two samples (16), bytes of four values (256) with outputs 3
  and 4 on both sides of a step of the high byte, a timer of four values (256) and 16
  ticks a second (2 000 000): of the rates 5 fits the timer, 3 does not, 0 divides by
  zero. Resets, suspends and configurations are unbounded. The proofs have all values.
* `sampling` has one path for each sound and each build, followed until it repeats,
  up to 19891 steps. The four sounds drive weights to the upper limit, to the lower
  one, past it, and the floors over the middle of the range. What holds for all
  sounds is proved.

### Fairness

* Weak fairness of the main loop's actions: the loop never stops. In `Panel` it
  is that of a pass with an update pending: presses are not promised.
* `StartOfFrame`: while the device is on the bus a frame comes every
  millisecond. `HostPoll`: the host polls an interrupt endpoint. `HostTakesAnswer`: it
  takes the data of a `GET_REPORT` unless it gives the transfer up (`HostGivesUp`, with
  no fairness). A transfer given up may keep the device waiting for ever: that the loop
  gets out of it (`AnswerAborted`) is not assumed but for a suspend.
* Strong fairness of `TaskScan`: the frame number the HID task has seen comes
  back only after 2048 ms, far longer than a pass, so the task does not skip for
  that reason pass after pass. `StartOfFrame`'s guard says the same of the
  small `FrameMod`; it leaves out the passes that wait for the host.
* `ControlPipe`: weak fairness of the device's loop and of the host's controller,
  which takes, sends or sees what its transfer calls for. A host need not begin
  transfers; `EveryTransferEnds` has as premise (`Patient`) that from some time on
  it gives none up.
* `AudioStream`: weak fairness of the main loop, of the timer interrupt once the timer
  runs, of the host taking packets, and of `~frozen /\ WakeUp`: after a reset the wake-up
  interrupt is enabled while the bus has traffic, and any traffic raises it. A wake-up
  of a suspended bus is not promised; `StreamFlows` has as premise that the device stays
  on the bus, with its endpoint and its stream.
* Nothing is assumed of fingers, resets, suspends and requests. `HostLearns` and
  `RowsRest` have as premise (`Calm`) that these come to rest and that from some time
  on no `GET_REPORT` is given up.

## What is proved

Each module of theorems proves its inductive invariant and then what follows from it,
for all values of the constants that the named assumptions of the component allow.

| Theorem | Statement |
|---|---|
| `PanelProofs`: `Invariance`, `TypeCorrect` | `Spec => []IInv`, `Spec => []TypeOK` |
| `HeadersCorrect`, `ReadingsCorrect`, `OutputsCorrect`, `DisplacementConfined` | `[]HeadersMatch`, `[]ReadingsMatch`, `[]OutputsMatch`, `[]OnlySecondRowMoves` |
| `EvenWordsReadExactly` | `Spec => []ReadingsExact`, if the lengths of the words differ by one digit at most |
| `Implementation` | `Spec => D!Init /\ [][D!Next]_(D!vars)`, `D` the dashboard |
| `JoystickProofs`: `TypeCorrect`, `RepeatCorrect`, `ToldCorrect` | `Spec => []TypeOK`, `RepeatsNearIdle`, `ReportsAreTold` |
| `WheelDisplayProofs`: `IsJoystick`, `IsPanel` | `Spec => J!Init /\ [][J!Next]_(J!vars)`, `Spec => P!Init /\ [][P!Next]_(P!vars)` |
| `EdgesSurvive`, `TypeCorrect` | `LostOnlyToGetReport`, `Spec => []TypeOK` |
| `DisplayRight` | `[](P!HeadersMatch /\ P!ReadingsMatch /\ P!OutputsMatch /\ P!OnlySecondRowMoves)` |
| `IsDashboard` | `Spec => P!D!Init /\ [][P!D!Next]_(P!D!vars)` |
| `RepeatsRight`, `ReportsReachHost` | `J!RepeatsNearIdle`, `J!ReportsAreTold` |
| `ControlPipeProofs`: `Invariance`, `TypeCorrect` | `Spec => []IInv`, `Spec => []TypeOK` |
| `RequestsCorrect`, `AddressCorrect` | `[]RequestsAreAtomic`, `AddressAfterStatus` |
| `AudioStreamProofs`: `Invariance`, `TypeCorrect` | `Spec => []IInv`, `Spec => []TypeOK` |
| `SelectionCorrect`, `ControlCorrect`, `StreamCorrect` | `[]SelectionHeld`, `[]ControlIntact`, `[]StreamHoldsSamples` |
| `SampleCorrect`, `TimerCorrect`, `UnreadyCorrect` | `[]SampleNearOutput`, `[]TimerFollowsRate`, `UnreadyByWakeUp` |
| `SamplingProofs`: `Invariance`, `TypeCorrect` | `Spec => []IInv`, `Spec => []TypeOK` |
| `DivisorCorrect`, `FloorCorrect` | `[]DivisorPositive`, `[]FloorBelowMiddle` |
| `OutputCorrect`, `LimitsCorrect` | `OutputExact`, `JumpsOnlyAtLimits` |
| `JoystickProofs`: `ScanReadsButtons` | a scan returns the buttons that are down and the pins of the rows, whatever the expander's registers held |
| `DisplayProofs`: `DisplayInvariance` | `DisplaySpec => []DInv` |
| `DisplayIsPanel` | `DisplaySpec => Init /\ [][Next]_vars`, `Panel`'s |
| `TextsStayApart`, `DamageStaysConfined` | `[]CleanUntilDisplaced`, `[]DamageConfined` |

**Panel.** `HeadersMatch` is not inductive: whether a header is copied depends on the
type bits, which are a union over the slot's past. `IInv` adds what those bits can
be. The rows only ever are in the three and five positions of their tours
(`RowsOK`); of a slot set to type t the bits are those in `MetaTypes(s, t)`. In
the top row they soon are those of TYPE_RPM, which the code excepts in its test
(lcd.c:45); in the second row they are, from the first press on, {0, 1, 2, 3},
which the overrun of "fuel need" leaves and which equals no type, so that every
header is copied. Lemma `MetaStep` says that ORing the next type of the tour
stays within these sets, and that bits that read as the next type mean that the
type has not changed. That the second row's headings are right is thus owed to
the very overrun that displaces its values. For the values `IInv` says that after the
first update every label in its place is what the screen shows (`UpToDate`), and that
before it all are as `LCDinit` left them (`Untouched`); and that a digit on the display
came from a longer word of the host (`FromHost`). `UpdateStep` proves that one
update leads to `UpToDate` and draws what `D!Show` draws; `ControlRequestKeeps` and
`MainLoopKeeps` are the two actions, `RotateIsShift` shows that the two switches shift
the rows.

**Control pipe.** `RequestsAreAtomic` speaks of the end of a transfer. `IInv` says how
far it has got at each place of the handler: nothing has changed yet, the
configuration's number has been stored, everything has been done (`Progress`). That
needs what the place knows of the request's kind (`KindsOK`), and what the host and
the endpoint can have seen by then: a request that has a handler is never STALLed
(`Handled`), one that has none is never answered (`Refused`), and of SET_ADDRESS the
answer is out before the address changes (`Answered`). All of this is claimed of clean
transfers only; `PlacesOK` bounds what an upset one can do, so that the next clean one
begins well. `ProgressStep`, `HandledStep`, `RefusedStep` and `AnsweredStep` each prove one part.

**Audio stream.** `SelectionHeld` allows endpoint 0 where a reset has moved the
selection, and then the main loop sends from endpoint 0 or reconfigures it. That this
is never seen on a configured device (`ControlIntact`) is so because a reset takes the
address away, and the address comes back only in a request, which needs endpoint 0
selected and intact and drops what waits there: `LostIsReset` and `DamageIsReset`. A
configuration's number may come back in another way, when it was read before the reset;
`LateIsOvertaken` says that `late` marks every such device before its answer goes out.
`UnreadyCorrect` uses the same parts: at the last write of a configuration a device that
is still Configured has had no reset, so that what is written is the audio endpoint's.
`SampleIsStored` says which bytes are stored at each place of the last line, and
`CompareIsRate` that a running timer has the compare value of the rate that is set; from
there to `SampleNearOutput` and `TimerFollowsRate` it is arithmetic (`Halves`,
`CutToWidth`, `QuotientPositive`).

**Buttons.** `TornReadZero` goes through the four values that a torn read may give, and
`TornWritesIdle` through those that a torn write may leave. `RepeatCorrect` needs besides
that the bank is free until the HID task fills it (`BankIsFree`), so that it is the task
that has filled it. `ToldCorrect` needs the same of the bank: since it is free, the
report that `FinishTells` finds in it is the one just saved. While a `GET_REPORT` waits for
the host, the report it sends is the saved one (`AnswerIsSaved`), so that the host has
what the driver believes when it takes it.

**The whole loop.** That `WheelDisplay` is made of its parts is a theorem about each:
every step of the loop is one of the buttons, and one of the panel or none. For `Panel`
that takes `ChangesOK`, that scans return pins, which `ChangesStep` keeps with the
buttons' steps. So the invariants of the parts hold of the loop: `DisplayRight`,
`RepeatsRight` and `ReportsReachHost` say what they give, and `IsDashboard` that the
wheel as a whole implements the dashboard, whose rows now rotate by what fingers and
scans bring about. `PT` and `JT` are the parts with their theorems; lemmas `SameTypes`
to `SameJoystick` prove that these say the same as `P` and `J`, definition by
definition. The loop assumes what its parts assume of pins, frames, idle periods, words
and entries (`PinsAssumption` and those after it), which the runs evaluate, and nothing
else. `EdgesSurvive` follows from `NothingOwed`: no pass begins with an edge that has
not been acted on.

**Sampling.** A noise floor is made of a sum of readings that is cut to 16 bits at every
step; `FloorsOK` says that cutting early is cutting late, so that the floor is the
average of the sum as far as that fits. `PowerOK` is the fixed point of the rounding:
the power estimate falls to 49 and no further, which keeps the divisor at 24 or more.
`NoiseOK` bounds the noise samples by what the converter gives, whatever the floors
below zero would add; with seven products of a weight and such a sample the estimate
fits 16 bits for any weights. `JumpsOnlyAtLimits` needs no bound on the weights either: a
call changes a weight by the leak and a push of one voice sample at most (`PushRange`)
before it limits it. `CutDifference` is what a 16-bit build makes of weight and leak,
`LimitedCases` what the limits make of the sum; `LimitedMove` goes through them.

**Display.** That no text runs into another is not inductive: the next text is drawn
over what the last one left, and cleaned up by the width that was saved then. The
invariant `DInv` has `Panel`'s `IInv` and two more parts. `Displacement` says when values
are displaced and what the second row is headed with by then. `Picture` is about places.
Each label has a range of columns on its pages; no two labels share one (`PlacesApart`),
and together with the gear's corner they are the display (`Covered`). Every place shows
the last text of its label and nothing else; that text keeps to the place (`Fit`); and the
width saved is the one the next clean-up needs (`Saved`). `Exempt` names the columns of
which this is not claimed: those of `GearHit` and, after a displacement, page 3 and the
columns from 97 on.

The proof goes from glyphs to pages. A text's characters start one behind the other
(`Ascending`), so that glyphs and spaces cover a text's columns without a gap, except
where a space wraps (`Shape`). How far a text reaches depends on its glyphs: small ones
are narrower than 8 (`SmallEnd`), large ones odd, so that from an even column on their
spaces never fall on column 63 (`NumeralEnd`); "position", which does come to column 63,
is followed glyph by glyph (`PositionFits`). From these, `FitHeader` and `FitValue` say
that every header and every value fits, for all words and all digits left behind.
`WriteInPlace` is one call of `LCD_writestring` on a text that fits,
`DisplacedWritten` one on a value that the overrun has moved, and `StageStep` puts a
slot's two labels into the update. `BlemishesAreExempt` turns the picture into what
`CleanUntilDisplaced` and `DamageConfined` say.

Where a text's characters start is a recursive function on numbers. That it has a value
at all (`Table`, `StartsAre`) and what holds along a text (`Ascending`, `TextInduction`)
is proved by induction over the set of the numbers for which it holds (`Induction`),
which needs of the library only that `<` on the naturals is well-founded. `DInv` holds in
all 13328 states of the `lcd` run's instance; it is not among the properties of that run,
which it would make last almost twice as long.

Only model-checked:

* the liveness properties (`WordsAreShown`, the fairness of `ImplementsDashboard`,
  `HostLearns`, `HeldButtonRests`, `RowsRest`, `PressesRotate`, `EveryTransferEnds`,
  `DetachEndsWaits`, `AbortIsNoticed`, `StreamFlows`), which are beyond the prover.

Every invariant and every action property that a passing run checks has a theorem.

## Plan

1. Done: `Message`, `Panel`, `Dashboard`, `Joystick`, `WheelDisplay`, `PanelProofs`.
2. Done: `ControlPipe`, `ControlPipeProofs`.
3. Done: `Lcd`, `Display`.
4. Done: `Expander` and `ScanReadsButtons`. The SPI bus has no concurrency to speak of.
5. Done: `AudioStream`, `AudioStreamProofs`.
6. Done: `Nlms`, `Sampling`, `SamplingProofs`.
7. Done: `JoystickProofs`, `WheelDisplayProofs`, and with `ByteTheorems` the rest of
   `AudioStream`'s safety properties.
8. Done: `DisplayProofs`, and `JumpsOnlyAtLimits` for all sounds and builds.
9. Done: `Panel`'s and `Joystick`'s invariants, and the dashboard, of `WheelDisplay`.
10. Open: nothing is claimed of how large the filter's weights grow; a weight at the
    lower limit jumps to the top of its range, so that no bound narrower than 16 bits
    is to be expected.

## Not modelled

* An index beyond `data[31]` in a vendor request: what it overwrites is the linker's
  choice.
* Times whose text does not fit a label (two digits of tenths with a sign, minutes and
  seconds), and numbers above 15 bits.
* What a pixel of a glyph looks like, the busy flag and the pins of the display; the
  bits of a byte on the SPI bus.
* `USB_Init`'s PLL and pad registers, attaching, and remote wake-up, which the firmware
  never asks for.
* Descriptors: constant tables. How they are sent is in `ControlPipe`.
* LUFA for hosts, for UC3 and XMEGA chips, and its class drivers that the Makefile does
  not build. They are most of the repository's lines (src/LUFA), and none of them runs
  in this firmware; of what does run, a good part are register accessors, defaults
  selected by macros and documentation. The share of the repository's lines that a
  model can stand for is therefore small; the firmware's own files and the parts of
  LUFA it calls are modelled, apart from what this list names.
* Whether the filter removes noise: signal processing.
