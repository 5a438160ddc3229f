-------------------------------- MODULE Spi --------------------------------
(***************************************************************************)
(* Analog to digital conversion over SPI: Mcp3208::read                    *)
(* (src/hardware/mod.rs) by way of Device::transfer (src/hardware/spi.rs), *)
(* pin by pin, and the MCP3208s at the other end of the bus.               *)
(*                                                                         *)
(* Sensor threads read concurrently, but transfer keeps the bus mutex from *)
(* its first pin to its last, and nothing else touches the pins, so the    *)
(* transfers are one sequence of steps.  What the threads do disturb is    *)
(* the order: any ADC may be next, also after a transfer that failed.      *)
(*                                                                         *)
(* A bit on MISO is known by where it comes from, <<"data", a, c, k>> for  *)
(* bit k of channel c of ADC a; which level a bit has that is not the ADC's*)
(* null bit is open.                                                       *)
(***************************************************************************)
EXTENDS Naturals, Sequences, FiniteSetsExt

CONSTANTS
  Adc,         \* configuration.adc_cs
  Channel,     \* the channels that sensors use
  GpioFaults   \* whether a GPIO operation may fail

ASSUME ChannelAssumption    == Channel \subseteq 0 .. 7
ASSUME GpioFaultsAssumption == GpioFaults \in BOOLEAN

Bits == 24     \* outgoing.len() * 8

VARIABLES
  cs, clk, mosi,       \* the levels of the output pins
  pc,                  \* the pin that transfer operates next, or "idle"
  adc, channel,        \* what the read under way was asked for
  bit,                 \* bits transferred
  incoming,            \* the bits read
  result               \* what the last read returned

\* The other end of the bus.
VARIABLES
  clocks,     \* rising edges each ADC has seen since its start bit, that included
  command,    \* the command bits it has taken: SGL/DIFF, D2, D1, D0
  dout        \* what it puts on MISO

\* History variables: no action reads them.
VARIABLES
  failed,     \* the ADCs whose last transfer failed
  clean       \* no ADC was selected when the transfer began

master  == <<pc, adc, channel, bit, incoming, result>>
slaves  == <<clocks, command, dout>>
history == <<failed, clean>>
vars    == <<cs, clk, mosi, master, slaves, history>>

Data(a, c) == [i \in 1 .. 12 |-> <<"data", a, c, 12 - i>>]

Signal == {<<"open">>, <<"null">>, <<"other">>}
            \cup {<<"data", a, c, k>> : a \in Adc, c \in 0 .. 15, k \in 0 .. 11}

\* Rising edges from the start bit to the last data bit.
Conversion == 19

TypeOK ==
  /\ cs \in [Adc -> BOOLEAN]
  /\ clk \in BOOLEAN
  /\ mosi \in BOOLEAN
  /\ pc \in {"idle", "select", "mosi", "rise", "miso", "fall", "deselect"}
  /\ adc \in Adc
  /\ channel \in Channel
  /\ bit \in 0 .. Bits
  /\ Len(incoming) \in bit .. bit + 1 /\ Len(incoming) <= Bits
  /\ \A i \in DOMAIN incoming : incoming[i] \in Signal
  /\ result \in {"none", "ok", "error"}
  /\ clocks \in [Adc -> 0 .. Conversion]
  /\ \A a \in Adc : command[a] \in Seq(BOOLEAN) /\ Len(command[a]) <= 4
  /\ dout \in [Adc -> Signal]
  /\ failed \subseteq Adc
  /\ clean \in BOOLEAN

\* adcs() requests every chip select high, bus() the other pins low.
Init ==
  /\ cs = [a \in Adc |-> TRUE]
  /\ clk = FALSE
  /\ mosi = FALSE
  /\ pc = "idle"
  /\ adc \in Adc
  /\ channel \in Channel
  /\ bit = 0
  /\ incoming = <<>>
  /\ result = "none"
  /\ clocks = [a \in Adc |-> 0]
  /\ command = [a \in Adc |-> <<>>]
  /\ dout = [a \in Adc |-> <<"open">>]
  /\ failed = {}
  /\ clean = TRUE

-----------------------------------------------------------------------------
\* The MCP3208s, as the comments in Mcp3208::read describe them: a selected ADC
\* waits for a start bit, takes four command bits on rising edges, and then
\* puts a null bit and the sample on MISO, each on a falling edge.

Selected == {a \in Adc : ~ cs[a]}

ChannelOf(cmd) ==
  LET Num(b) == IF b THEN 1 ELSE 0
  IN  8 * (1 - Num(cmd[1])) + 4 * Num(cmd[2]) + 2 * Num(cmd[3]) + Num(cmd[4])

\* A level on chip select; a rising one ends the conversation.
CsEdge(a, value) ==
  /\ cs' = [cs EXCEPT ![a] = value]
  /\ IF value
     THEN /\ clocks' = [clocks EXCEPT ![a] = 0]
          /\ command' = [command EXCEPT ![a] = <<>>]
          /\ dout' = [dout EXCEPT ![a] = <<"open">>]
     ELSE UNCHANGED slaves

RisingEdge ==
  /\ clocks' = [a \in Adc |->
                  IF a \notin Selected \/ (clocks[a] = 0 /\ ~ mosi) THEN clocks[a]
                  ELSE Min({clocks[a] + 1, Conversion})]
  /\ command' = [a \in Adc |-> IF a \in Selected /\ clocks[a] \in 1 .. 4
                               THEN Append(command[a], mosi) ELSE command[a]]
  /\ UNCHANGED dout

\* Clocked on past its last bit, an ADC sends something else.
Output(a) ==
  IF clocks[a] < 6 THEN <<"open">>
  ELSE IF clocks[a] = 6 THEN <<"null">>
  ELSE IF clocks[a] = Conversion THEN <<"other">>
  ELSE <<"data", a, ChannelOf(command[a]), Conversion - 1 - clocks[a]>>

FallingEdge ==
  /\ dout' = [a \in Adc |-> IF a \in Selected THEN Output(a) ELSE <<"open">>]
  /\ UNCHANGED <<clocks, command>>

\* A write that does not change the level is no edge.
ClkEdge(value) ==
  /\ clk' = value
  /\ IF value = clk THEN UNCHANGED slaves
     ELSE IF value THEN RisingEdge ELSE FallingEdge

Miso ==
  LET driven == {dout[a] : a \in {b \in Selected : dout[b] # <<"open">>}}
  IN  IF driven = {} THEN <<"open">>
      ELSE IF Cardinality(driven) = 1 THEN CHOOSE signal \in driven : TRUE
      ELSE <<"other">>

-----------------------------------------------------------------------------
\* Mcp3208::read: the three bytes for a channel, and their bits in the order in
\* which transfer sends them.

\* Mutant: the channel's low bits are shifted one place too few.
OutgoingShifted(c) == <<6 + c \div 4, (c % 4) * 32, 0>>

Outgoing(c) == <<6 + c \div 4, (c % 4) * 64, 0>>

OutgoingBit(c, i) == (Outgoing(c)[(i \div 8) + 1] \div 2 ^ (7 - (i % 8))) % 2 = 1

\* Mutant: the buffer for the bits is not fresh.
ReadKeepsBuffer(a, c) ==
  /\ pc = "idle"
  /\ pc' = "select"
  /\ adc' = a
  /\ channel' = c
  /\ bit' = 0
  /\ result' = "none"
  /\ clean' = (Selected = {})
  /\ UNCHANGED <<cs, clk, mosi, incoming, slaves, failed>>

\* Adc::read(c) on ADC a takes the bus.
Read(a, c) ==
  /\ pc = "idle"
  /\ pc' = "select"
  /\ adc' = a
  /\ channel' = c
  /\ bit' = 0
  /\ incoming' = <<>>
  /\ result' = "none"
  /\ clean' = (Selected = {})
  /\ UNCHANGED <<cs, clk, mosi, slaves, failed>>

\* Device::transfer.

GoTo(label) ==
  /\ pc' = label
  /\ UNCHANGED <<adc, channel, result, history>>

Select ==
  /\ pc = "select"
  /\ CsEdge(adc, FALSE)
  /\ GoTo("mosi")
  /\ UNCHANGED <<clk, mosi, bit, incoming>>

WriteMosi ==
  /\ pc = "mosi"
  /\ mosi' = OutgoingBit(channel, bit)
  /\ GoTo("rise")
  /\ UNCHANGED <<cs, clk, bit, incoming, slaves>>

RaiseClk ==
  /\ pc = "rise"
  /\ ClkEdge(TRUE)
  /\ GoTo("miso")
  /\ UNCHANGED <<cs, mosi, bit, incoming>>

ReadMiso ==
  /\ pc = "miso"
  /\ incoming' = Append(incoming, Miso)
  /\ GoTo("fall")
  /\ UNCHANGED <<cs, clk, mosi, bit, slaves>>

LowerClk ==
  /\ pc = "fall"
  /\ ClkEdge(FALSE)
  /\ bit' = bit + 1
  /\ GoTo(IF bit' < Bits THEN "mosi" ELSE "deselect")
  /\ UNCHANGED <<cs, mosi, incoming>>

\* Mutant: chip select is left to the next transfer.
DeselectLater ==
  /\ pc = "deselect"
  /\ pc' = "idle"
  /\ failed' = failed \ {adc}
  /\ \/ result' = "ok"
     \/ result' = "error" /\ incoming[12] # <<"null">>
  /\ UNCHANGED <<cs, clk, mosi, adc, channel, bit, incoming, slaves, clean>>

\* Chip select goes up, transfer returns Ok, and read looks at the null bit:
\* anything but the ADC's own may happen to be low.
Deselect ==
  /\ pc = "deselect"
  /\ CsEdge(adc, TRUE)
  /\ pc' = "idle"
  /\ failed' = failed \ {adc}
  /\ \/ result' = "ok"
     \/ result' = "error" /\ incoming[12] # <<"null">>
  /\ UNCHANGED <<clk, mosi, adc, channel, bit, incoming, clean>>

\* A pin cannot be operated: transfer returns at once, whatever the levels.
Fault ==
  /\ pc # "idle"
  /\ GpioFaults
  /\ pc' = "idle"
  /\ failed' = failed \cup {adc}
  /\ result' = "error"
  /\ bit' = 0
  /\ incoming' = <<>>
  /\ UNCHANGED <<cs, clk, mosi, adc, channel, slaves, clean>>

Transfer == \/ Select \/ WriteMosi \/ RaiseClk \/ ReadMiso \/ LowerClk
            \/ Deselect \/ Fault

Next == Transfer \/ \E a \in Adc, c \in Channel : Read(a, c)

Spec == Init /\ [][Next]_vars

-----------------------------------------------------------------------------
\* The value is the twelve bits after the null bit.
Value == SubSeq(incoming, 13, Bits)

\* A read that returns a value, and began with no ADC selected, returns the
\* sample of the channel and the ADC it was asked for, whatever was read before
\* and whichever transfers failed (outgoing, transfer and the masks of read
\* together; a clock left high by a failed transfer does no harm).
CleanReadIsRight == result = "ok" /\ clean => Value = Data(adc, channel)

\* Between transfers an ADC is selected only if its own last transfer failed: a
\* transfer that succeeds repairs what the one before it left behind.
SelectionHasCause ==
  Selected \subseteq failed \cup (IF pc = "idle" THEN {} ELSE {adc})

-----------------------------------------------------------------------------
\* What the repository says of the program and the code does not do.

\* Mcp3208::read: "returns the raw 12-bit ADC reading of the channel".
ReadIsRight == result = "ok" => Value = Data(adc, channel)
=============================================================================
