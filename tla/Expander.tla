----------------------------- MODULE Expander ------------------------------
(***************************************************************************)
(* The MCP23S17 port expander as mcp23s17.c uses it over the SPI bus: a    *)
(* file of registers, each a set of bits.  A transfer is the bytes between *)
(* the fall and the rise of the chip's select line; the chip puts them     *)
(* into consecutive registers.  Pins 0..3 of bank 0 are the buttons, pins  *)
(* 4..7 the rows they are wired to, bank 1 the LEDs.                       *)
(***************************************************************************)
EXTENDS Naturals, Sequences

Pins    == 0 .. 7
ButtonPins == 0 .. 3
DrivenPins == 4 .. 7

\* Addresses in bank 0; bank 1 comes next to each.
IODIR == 0     \* 1: input
IPOL  == 2     \* 1: read inverted
GPPU  == 12    \* 1: pull-up
GPIO  == 18    \* writes go to the output latch, which this register stands for
Registers == 0 .. 21

PowerOn == [r \in Registers |-> IF r \in {IODIR, IODIR + 1} THEN Pins ELSE {}]

\* A write of bytes from an address on: select, 0x40, the address, the bytes, unselect.
Sent(chip, address, bytes) ==
  [r \in Registers |->
    IF r >= address /\ r < address + Len(bytes) THEN bytes[r - address + 1] ELSE chip[r]]

GPIOWrite(chip, bank, byte) == Sent(chip, GPIO + bank, <<byte>>)

GPIOSetDir(chip, banka, bankb) ==
  Sent(Sent(chip, IODIR, <<banka, bankb, Pins, Pins>>), GPPU, <<banka, bankb>>)

GPIOInit(chip) == GPIOWrite(GPIOSetDir(chip, ButtonPins, {}), 0, Pins)

\* The pins of a bank that are high when grounded ones are pulled to the ground.
High(chip, bank, grounded) ==
  {i \in Pins : IF i \in chip[IODIR + bank] THEN i \in chip[GPPU + bank] \ grounded
                                           ELSE i \in chip[GPIO + bank]}

\* A button that is down connects its pin to its row, which is grounded while all
\* rows are driven low.
Grounded(chip, pressed) == IF DrivenPins \intersect High(chip, 0, {}) = {} THEN pressed ELSE {}

GPIORead(chip, bank, grounded) ==
  LET high == High(chip, bank, grounded)
  IN  (high \ chip[IPOL + bank]) \union (chip[IPOL + bank] \ high)

\* GPIOWrite(0, 1), GPIORead(0) after GPIOInit, with these buttons down.
Scan(chip, pressed) ==
  LET set == GPIOWrite(GPIOInit(chip), 0, {0})
  IN  GPIORead(set, 0, Grounded(set, pressed))
=============================================================================
