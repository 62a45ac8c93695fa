------------------------------ MODULE AdcBlock ------------------------------
(***************************************************************************)
(* The ADCs of the test stand (adc/lib/adc_block.cpp, final/pins.cpp): up  *)
(* to three converters share one SPI bus.  Two are selected by the bus     *)
(* hardware for the length of a transfer, any other by a pin that          *)
(* read_item drives itself.  Each has eight inputs.                        *)
(*                                                                         *)
(* The converter is external: it reads the input named by the five bits of *)
(* the command byte, and answers with a bit of its sampling time and a     *)
(* zero bit, twelve bits of result and two bits of no meaning, of which    *)
(* all but the twelve are taken as arbitrary.                              *)
(*                                                                         *)
(* A definition named <D>_<Bug> is D with that bug; no behaviour of this    *)
(* module uses it.                                                         *)
(***************************************************************************)
EXTENDS Integers

ADC_0_CS == "P1_26"
ADC_1_CS == "P1_24"
ADC_2_CS == "P1_22"
Pins     == {ADC_0_CS, ADC_1_CS, ADC_2_CS}

LC_ADC == ADC_0_CS
PT_ADC == ADC_1_CS
TC_ADC == ADC_1_CS

\* The pins that the bus hardware drives, by the chip select they belong to.
SPI_CS_0 == "P1_24"
SPI_CS_1 == "P1_26"

Inputs == [pin : Pins, single_channel : 0 .. 1, channel : 0 .. 7]

VARIABLES
    chipSelect,   \* the bus hardware's chip select: "CS0", "CS1" or "NONE"
    level,        \* the level that bcm2835_gpio_write gave each pin
    converted,    \* history: the inputs that answered the last transfer, and the result
    reading       \* what read_item returned last

\* initialize_pins and initialize_spi.
AdcInit ==
    /\ chipSelect = "NONE" /\ level = [p \in Pins |-> "HIGH"]
    /\ converted = [inputs |-> {}, code |-> 0] /\ reading = 0

SelectFor(pin) == CASE pin = SPI_CS_0 -> "CS0"
                    [] pin = SPI_CS_1 -> "CS1"
                    [] OTHER          -> "NONE"

Manual(pin) == SelectFor(pin) = "NONE"

\* The pins that are low during a transfer.
Selected(select, levels) ==
    {p \in Pins : IF Manual(p) THEN levels[p] = "LOW" ELSE SelectFor(p) = select}

\* The start bit, single or differential, and the channel.
CommandByte(input) == 16 + 8 * input.single_channel + input.channel

\* The input of the converter on pin p that a command byte names.
Addressed(p, byte) == [pin |-> p, single_channel |-> (byte \div 8) % 2, channel |-> byte % 8]

\* What a converter may give, and the two bits before and after it in its answer.
Results == 0 .. 4095
TwoBits == 0 .. 3

\* The last two of the three bytes that a converter answers.
HighByte(code, noise) == 64 * noise + code \div 64
LowByte(code, noise)  == 4 * (code % 64) + noise

Swapped(n) == 256 * (n % 256) + n \div 256

\* What read_item makes of them: two bytes moved right by two bits, loaded as a
\* little-endian integer and swapped.  char is unsigned on the stand's ARM.
Decoded(high, low) ==
    LET first  == (high \div 4) % 16
        second == low \div 4 + 64 * (high % 4)
    IN Swapped(first + 256 * second)

ReadItem_LeavesSelected(input, code, noise) ==
    /\ chipSelect' = SelectFor(input.pin)
    /\ level' = [level EXCEPT ![input.pin] = IF Manual(input.pin) THEN "LOW" ELSE @]
    /\ converted' = [inputs |-> {Addressed(p, CommandByte(input)) :
                                    p \in Selected(chipSelect', level')},
                     code |-> code]
    /\ reading' = Decoded(HighByte(code, noise), LowByte(code, noise))

\* read_item, when the converter's result is code: a pin of its own is low for
\* the length of the transfer.
ReadItem(input, code, noise) ==
    LET during == IF Manual(input.pin) THEN [level EXCEPT ![input.pin] = "LOW"] ELSE level
    IN /\ chipSelect' = SelectFor(input.pin)
       /\ level' = IF Manual(input.pin) THEN [during EXCEPT ![input.pin] = "HIGH"] ELSE during
       /\ converted' = [inputs |-> {Addressed(p, CommandByte(input)) :
                                       p \in Selected(chipSelect', during)},
                        code |-> code]
       /\ reading' = Decoded(HighByte(code, noise), LowByte(code, noise))
=============================================================================
