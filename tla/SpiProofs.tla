----------------------------- MODULE SpiProofs -----------------------------
(***************************************************************************)
(* Proofs about Spi, for any number of ADCs and channels: its types, that  *)
(* an ADC which is selected has a transfer of its own to blame             *)
(* (SelectionHasCause), and that a read which began with no ADC selected   *)
(* returns the sample it was asked for (CleanReadIsRight): bit by bit, the *)
(* transfer and the ADC stay on the same track (OnTrack).                  *)
(***************************************************************************)
EXTENDS Spi, FiniteSetTheorems, SequenceTheorems, TLAPS

CsInv == cs \in [Adc -> BOOLEAN] /\ SelectionHasCause

LEMMA CsInvInit == Init => CsInv
  BY DEF Init, CsInv, SelectionHasCause, Selected

\* A transfer that goes on operating other pins.
LEMMA CsInvKeeps ==
  ASSUME CsInv, UNCHANGED <<cs, adc, failed>>, pc # "idle", pc' # "idle"
  PROVE  CsInv'
  BY DEF CsInv, SelectionHasCause, Selected

LEMMA CsInvStep == CsInv /\ [Next]_vars => CsInv'
<1> SUFFICES ASSUME CsInv, [Next]_vars PROVE CsInv'
  OBVIOUS
<1>1. CASE UNCHANGED vars
  BY <1>1 DEF vars, master, history, CsInv, SelectionHasCause, Selected
<1>2. ASSUME NEW a \in Adc, NEW c \in Channel, Read(a, c) PROVE CsInv'
  BY <1>2 DEF Read, CsInv, SelectionHasCause, Selected
<1>3. CASE Select
  <2>1. /\ pc = "select" /\ pc' = "mosi" /\ UNCHANGED <<adc, failed>>
        /\ cs' = [cs EXCEPT ![adc] = FALSE]
    BY <1>3 DEF Select, CsEdge, GoTo, history
  <2> QED  BY <2>1 DEF CsInv, SelectionHasCause, Selected
<1>4. CASE WriteMosi
  BY <1>4, CsInvKeeps DEF WriteMosi, GoTo, history
<1>5. CASE RaiseClk
  BY <1>5, CsInvKeeps DEF RaiseClk, GoTo, history
<1>6. CASE ReadMiso
  BY <1>6, CsInvKeeps DEF ReadMiso, GoTo, history
<1>7. CASE LowerClk
  BY <1>7, CsInvKeeps DEF LowerClk, GoTo, history
<1>8. CASE Deselect
  <2>1. /\ pc' = "idle" /\ adc' = adc /\ failed' = failed \ {adc} /\ pc # "idle"
        /\ cs' = [cs EXCEPT ![adc] = TRUE]
    BY <1>8 DEF Deselect, CsEdge
  <2>2. Selected' = Selected \ {adc}
    BY <2>1 DEF CsInv, Selected
  <2>3. Selected \subseteq failed \cup {adc}
    BY <2>1 DEF CsInv, SelectionHasCause
  <2>4. cs' \in [Adc -> BOOLEAN]
    BY <2>1 DEF CsInv
  <2> QED  BY <2>1, <2>2, <2>3, <2>4 DEF CsInv, SelectionHasCause
<1>9. CASE Fault
  BY <1>9 DEF Fault, CsInv, SelectionHasCause, Selected
<1> QED  BY <1>1, <1>2, <1>3, <1>4, <1>5, <1>6, <1>7, <1>8, <1>9 DEF Next, Transfer

\* Between transfers an ADC is selected only if its own last transfer failed
\* (chip select goes up at the end of transfer, and at no ? before it).
THEOREM SelectionKeepsCause == Spec => []SelectionHasCause
<1>1. CsInv => SelectionHasCause
  BY DEF CsInv
<1> QED  BY CsInvInit, CsInvStep, <1>1, PTL DEF Spec
-----------------------------------------------------------------------------
\* Types.

\* The command bits an ADC has taken after so many rising edges.
CommandBits(edges) == IF edges = 0 THEN 0 ELSE IF edges < 5 THEN edges - 1 ELSE 4

\* An ADC that is not selected is quiet.
Quiet == \A a \in Adc : cs[a] => clocks[a] = 0 /\ command[a] = <<>> /\ dout[a] = <<"open">>

\* The pins and the ADCs: an ADC counts its command bits by its clock.
BusTypes ==
  /\ cs \in [Adc -> BOOLEAN] /\ clk \in BOOLEAN /\ mosi \in BOOLEAN
  /\ clocks \in [Adc -> 0 .. Conversion] /\ command \in [Adc -> Seq(BOOLEAN)]
  /\ dout \in [Adc -> Signal]
  /\ \A a \in Adc : Len(command[a]) = CommandBits(clocks[a])
  /\ Quiet

\* The transfer, and how far it is.
TransferTypes ==
  /\ pc \in {"idle", "select", "mosi", "rise", "miso", "fall", "deselect"}
  /\ adc \in Adc /\ channel \in Channel /\ bit \in 0 .. Bits
  /\ incoming \in Seq(Signal) /\ Len(incoming) \in bit .. bit + 1 /\ Len(incoming) <= Bits
  /\ pc # "idle" => /\ Len(incoming) = IF pc = "fall" THEN bit + 1 ELSE bit
                    /\ pc = "select" => bit = 0
                    /\ pc \in {"mosi", "rise", "miso", "fall"} => bit < Bits
                    /\ pc = "deselect" => bit = Bits
                    /\ result = "none"
  /\ result \in {"none", "ok", "error"}
  /\ failed \subseteq Adc /\ clean \in BOOLEAN

TypeInv == BusTypes /\ TransferTypes

LEMMA TypeInvSuffices == TypeInv => TypeOK
<1> SUFFICES ASSUME BusTypes, TransferTypes PROVE TypeOK
  BY DEF TypeInv
<1>1. \A i \in DOMAIN incoming : incoming[i] \in Signal
  BY ElementOfSeq DEF TransferTypes
<1>2. ASSUME NEW a \in Adc PROVE command[a] \in Seq(BOOLEAN) /\ Len(command[a]) <= 4
  <2>1. clocks[a] \in 0 .. 19 /\ Len(command[a]) = CommandBits(clocks[a])
        /\ command[a] \in Seq(BOOLEAN)
    BY DEF BusTypes, Conversion
  <2> QED  BY <2>1 DEF CommandBits
<1> QED  BY <1>1, <1>2 DEF BusTypes, TransferTypes, TypeOK

LEMMA SomeSignals == {<<"open">>, <<"null">>, <<"other">>} \subseteq Signal
  BY DEF Signal

LEMMA TypeInvInit == Init => TypeInv
<1> SUFFICES ASSUME Init PROVE TypeInv
  OBVIOUS
<1>1. /\ clocks \in [Adc -> 0 .. Conversion] /\ command \in [Adc -> Seq(BOOLEAN)]
      /\ cs \in [Adc -> BOOLEAN] /\ clk \in BOOLEAN /\ mosi \in BOOLEAN
  <2>1. 0 \in 0 .. Conversion /\ <<>> \in Seq(BOOLEAN)
    BY DEF Conversion
  <2> QED  BY <2>1 DEF Init
<1>2. dout \in [Adc -> Signal]
  BY SomeSignals DEF Init
<1>3. /\ \A a \in Adc : Len(command[a]) = CommandBits(clocks[a])
      /\ Quiet
  BY DEF Init, Quiet, CommandBits
<1>4. TransferTypes
  BY DEF Init, TransferTypes, Bits
<1> QED  BY <1>1, <1>2, <1>3, <1>4 DEF TypeInv, BusTypes

LEMMA MinOfTwo ==
  ASSUME NEW a \in Int, NEW b \in Int
  PROVE  Min({a, b}) = IF a <= b THEN a ELSE b
<1>1. \E x \in {a, b} : \A y \in {a, b} : x <= y
  OBVIOUS
<1> QED  BY <1>1 DEF Min

\* What one more edge adds to the command bits.
LEMMA BitsTaken ==
  ASSUME NEW edges \in 0 .. 19
  PROVE  CommandBits(edges + 1) = IF edges \in 1 .. 4 THEN CommandBits(edges) + 1 ELSE CommandBits(edges)
  BY DEF CommandBits

\* A rising edge of the clock, at one ADC and at all of them.
LEMMA RisingEdgeAt ==
  ASSUME TypeInv, RisingEdge, NEW a \in Adc
  PROVE  /\ clocks'[a] \in 0 .. Conversion /\ command'[a] \in Seq(BOOLEAN)
         /\ Len(command'[a]) = CommandBits(clocks'[a])
<1>1. /\ clocks[a] \in 0 .. 19 /\ Conversion = 19 /\ command[a] \in Seq(BOOLEAN)
      /\ Len(command[a]) = CommandBits(clocks[a]) /\ mosi \in BOOLEAN
  BY DEF TypeInv, BusTypes, Conversion
<1>2. Min({clocks[a] + 1, Conversion}) = IF clocks[a] = 19 THEN 19 ELSE clocks[a] + 1
  <2>1. clocks[a] + 1 \in Int /\ 19 \in Int
    BY <1>1
  <2> QED  BY <1>1, <2>1, MinOfTwo
<1>3. CASE a \notin Selected \/ (clocks[a] = 0 /\ ~ mosi)
  <2>1. clocks'[a] = clocks[a]
    BY <1>3 DEF RisingEdge
  <2>2. command'[a] = command[a]
    BY <1>3 DEF RisingEdge
  <2> QED  BY <1>1, <2>1, <2>2
<1>4. CASE a \in Selected /\ ~ (clocks[a] = 0 /\ ~ mosi)
  <2>1. clocks'[a] = IF clocks[a] = 19 THEN 19 ELSE clocks[a] + 1
    BY <1>2, <1>4 DEF RisingEdge
  <2>2. CASE clocks[a] \in 1 .. 4
    <3>1. command'[a] = Append(command[a], mosi)
      BY <1>4, <2>2 DEF RisingEdge
    <3>2. command'[a] \in Seq(BOOLEAN) /\ Len(command'[a]) = Len(command[a]) + 1
      BY <1>1, <3>1
    <3>3. clocks'[a] = clocks[a] + 1 /\ clocks'[a] \in 0 .. 19
      BY <2>1, <2>2
    <3>4. CommandBits(clocks[a] + 1) = CommandBits(clocks[a]) + 1
      BY <1>1, <2>2, BitsTaken
    <3> QED  BY <1>1, <3>2, <3>3, <3>4
  <2>3. CASE clocks[a] \notin 1 .. 4
    <3>1. command'[a] = command[a]
      BY <2>3 DEF RisingEdge
    <3>2. clocks'[a] \in {clocks[a], clocks[a] + 1} /\ clocks'[a] \in 0 .. 19
      BY <1>1, <2>1
    <3>3. CommandBits(clocks[a] + 1) = CommandBits(clocks[a])
      BY <1>1, <2>3, BitsTaken
    <3> QED  BY <1>1, <3>1, <3>2, <3>3
  <2> QED  BY <2>2, <2>3
<1> QED  BY <1>3, <1>4

LEMMA RisingEdgeTypes ==
  ASSUME TypeInv, RisingEdge
  PROVE  /\ clocks' \in [Adc -> 0 .. Conversion] /\ command' \in [Adc -> Seq(BOOLEAN)]
         /\ dout' = dout
         /\ \A a \in Adc : Len(command'[a]) = CommandBits(clocks'[a])
         /\ \A a \in Adc : ~ (a \in Selected) => clocks'[a] = clocks[a] /\ command'[a] = command[a]
<1>1. /\ clocks' = [a \in Adc |-> clocks'[a]] /\ command' = [a \in Adc |-> command'[a]]
      /\ dout' = dout
      /\ \A a \in Adc : a \notin Selected => clocks'[a] = clocks[a] /\ command'[a] = command[a]
  BY DEF RisingEdge
<1> QED  BY <1>1, RisingEdgeAt

LEMMA ChannelOfBits ==
  ASSUME NEW cmd \in Seq(BOOLEAN), Len(cmd) = 4
  PROVE  ChannelOf(cmd) \in 0 .. 15
<1>1. cmd[1] \in BOOLEAN /\ cmd[2] \in BOOLEAN /\ cmd[3] \in BOOLEAN /\ cmd[4] \in BOOLEAN
  <2>1. \A i \in 1 .. 4 : cmd[i] \in BOOLEAN
    BY ElementOfSeq
  <2> QED  BY <2>1
<1> QED  BY <1>1 DEF ChannelOf

LEMMA DataSignal ==
  ASSUME NEW a \in Adc, NEW c \in 0 .. 15, NEW k \in 0 .. 11
  PROVE  <<"data", a, c, k>> \in Signal
  BY DEF Signal

\* A falling edge of the clock.
LEMMA OutputType ==
  ASSUME TypeInv, NEW a \in Adc
  PROVE  Output(a) \in Signal
<1>1. /\ clocks[a] \in 0 .. 19 /\ Conversion = 19 /\ command[a] \in Seq(BOOLEAN)
      /\ Len(command[a]) = CommandBits(clocks[a])
  <2>1. Conversion = 19
    BY DEF Conversion
  <2>2. clocks \in [Adc -> 0 .. 19]
    BY <2>1 DEF TypeInv, BusTypes
  <2>3. command \in [Adc -> Seq(BOOLEAN)] /\ Len(command[a]) = CommandBits(clocks[a])
    BY DEF TypeInv, BusTypes
  <2> QED  BY <2>1, <2>2, <2>3
<1>2. CASE clocks[a] \in 7 .. 18
  <2>1. Output(a) = <<"data", a, ChannelOf(command[a]), 18 - clocks[a]>>
    <3>1. ~ (clocks[a] < 6) /\ clocks[a] # 6 /\ clocks[a] # Conversion
      BY <1>1, <1>2
    <3>2. Conversion - 1 - clocks[a] = 18 - clocks[a]
      BY <1>1
    <3> QED  BY <3>1, <3>2 DEF Output
  <2>2. Len(command[a]) = 4
    BY <1>1, <1>2 DEF CommandBits
  <2>3. ChannelOf(command[a]) \in 0 .. 15 /\ 18 - clocks[a] \in 0 .. 11
    BY <1>1, <1>2, <2>2, ChannelOfBits
  <2> QED  BY <2>1, <2>3, DataSignal
<1>3. CASE clocks[a] \notin 7 .. 18
  <2>1. Output(a) \in {<<"open">>, <<"null">>, <<"other">>}
    <3>1. clocks[a] < 6 \/ clocks[a] = 6 \/ clocks[a] = Conversion
      BY <1>1, <1>3
    <3> QED  BY <3>1 DEF Output
  <2> QED  BY <2>1, SomeSignals
<1> QED  BY <1>2, <1>3

LEMMA FallingEdgeTypes ==
  ASSUME TypeInv, FallingEdge
  PROVE  /\ dout' \in [Adc -> Signal] /\ clocks' = clocks /\ command' = command
         /\ \A a \in Adc : a \notin Selected => dout'[a] = <<"open">>
<1>1. <<"open">> \in Signal
  BY SomeSignals
<1> QED  BY <1>1, OutputType DEF FallingEdge

LEMMA MisoType ==
  ASSUME TypeInv
  PROVE  Miso \in Signal
<1> DEFINE driven == {dout[a] : a \in {b \in Selected : dout[b] # <<"open">>}}
<1>1. driven \subseteq Signal
  BY DEF TypeInv, BusTypes, Selected
<1>2. <<"open">> \in Signal /\ <<"other">> \in Signal
  BY SomeSignals
<1>3. driven # {} => (CHOOSE signal \in driven : TRUE) \in driven
  OBVIOUS
<1>4. Miso = IF driven = {} THEN <<"open">>
             ELSE IF Cardinality(driven) = 1 THEN CHOOSE signal \in driven : TRUE
             ELSE <<"other">>
  BY DEF Miso
<1> HIDE DEF driven
<1> QED  BY <1>1, <1>2, <1>3, <1>4

\* A level on the clock, at an ADC and on the whole bus.
LEMMA ClkEdgeTypes ==
  ASSUME TypeInv, NEW value \in BOOLEAN, ClkEdge(value), UNCHANGED cs
  PROVE  /\ clk' \in BOOLEAN
         /\ clocks' \in [Adc -> 0 .. Conversion] /\ command' \in [Adc -> Seq(BOOLEAN)]
         /\ dout' \in [Adc -> Signal]
         /\ \A a \in Adc : Len(command'[a]) = CommandBits(clocks'[a])
         /\ Quiet'
<1>1. clk' \in BOOLEAN
  BY DEF ClkEdge
<1>2. /\ clocks \in [Adc -> 0 .. Conversion] /\ command \in [Adc -> Seq(BOOLEAN)]
      /\ dout \in [Adc -> Signal]
      /\ \A a \in Adc : Len(command[a]) = CommandBits(clocks[a])
      /\ Quiet
  BY DEF TypeInv, BusTypes
<1>3. CASE UNCHANGED slaves
  <2>1. clocks' = clocks /\ command' = command /\ dout' = dout
    BY <1>3 DEF slaves
  <2>2. Quiet'
    BY <1>2, <2>1 DEF Quiet
  <2> QED  BY <1>1, <1>2, <2>1, <2>2
<1>4. CASE RisingEdge
  <2>1. Quiet'
    BY <1>2, <1>4, RisingEdgeTypes DEF Quiet, Selected
  <2> QED  BY <1>1, <1>2, <1>4, <2>1, RisingEdgeTypes
<1>5. CASE FallingEdge
  <2>1. Quiet'
    BY <1>2, <1>5, FallingEdgeTypes DEF Quiet, Selected
  <2> QED  BY <1>1, <1>2, <1>5, <2>1, FallingEdgeTypes
<1> QED  BY <1>3, <1>4, <1>5 DEF ClkEdge

\* A level on a chip select.
LEMMA CsEdgeTypes ==
  ASSUME TypeInv, NEW value \in BOOLEAN, CsEdge(adc, value)
  PROVE  /\ cs' \in [Adc -> BOOLEAN]
         /\ clocks' \in [Adc -> 0 .. Conversion] /\ command' \in [Adc -> Seq(BOOLEAN)]
         /\ dout' \in [Adc -> Signal]
         /\ \A a \in Adc : Len(command'[a]) = CommandBits(clocks'[a])
         /\ Quiet'
<1>1. /\ clocks \in [Adc -> 0 .. Conversion] /\ command \in [Adc -> Seq(BOOLEAN)]
      /\ dout \in [Adc -> Signal] /\ cs \in [Adc -> BOOLEAN] /\ adc \in Adc
      /\ \A a \in Adc : Len(command[a]) = CommandBits(clocks[a])
      /\ \A a \in Adc : cs[a] => clocks[a] = 0 /\ command[a] = <<>> /\ dout[a] = <<"open">>
  BY DEF TypeInv, BusTypes, TransferTypes, Quiet
<1>2. cs' = [cs EXCEPT ![adc] = value] /\ cs' \in [Adc -> BOOLEAN]
  BY <1>1 DEF CsEdge
<1>3. CASE value
  <2>1. /\ clocks' = [clocks EXCEPT ![adc] = 0] /\ command' = [command EXCEPT ![adc] = <<>>]
        /\ dout' = [dout EXCEPT ![adc] = <<"open">>]
    BY <1>3 DEF CsEdge
  <2>2. 0 \in 0 .. Conversion /\ <<>> \in Seq(BOOLEAN) /\ <<"open">> \in Signal
    BY SomeSignals DEF Conversion
  <2>3. /\ clocks' \in [Adc -> 0 .. Conversion] /\ command' \in [Adc -> Seq(BOOLEAN)]
        /\ dout' \in [Adc -> Signal]
    BY <1>1, <2>1, <2>2
  <2>4. ASSUME NEW a \in Adc
        PROVE  /\ Len(command'[a]) = CommandBits(clocks'[a])
               /\ cs'[a] => clocks'[a] = 0 /\ command'[a] = <<>> /\ dout'[a] = <<"open">>
    <3>1. CASE a = adc
      BY <1>1, <1>2, <2>1, <3>1 DEF CommandBits
    <3>2. CASE a # adc
      BY <1>1, <1>2, <2>1, <3>2
    <3> QED  BY <3>1, <3>2
  <2> QED  BY <1>2, <2>3, <2>4 DEF Quiet
<1>4. CASE ~ value
  <2>1. clocks' = clocks /\ command' = command /\ dout' = dout
    BY <1>4 DEF CsEdge, slaves
  <2>2. Quiet'
    BY <1>1, <1>2, <1>4, <2>1 DEF Quiet
  <2> QED  BY <1>1, <1>2, <2>1, <2>2
<1> QED  BY <1>3, <1>4

LEMMA BusKept ==
  ASSUME BusTypes, UNCHANGED <<cs, clk, slaves>>, mosi' \in BOOLEAN
  PROVE  BusTypes'
<1>1. cs' = cs /\ clk' = clk /\ clocks' = clocks /\ command' = command /\ dout' = dout
  BY DEF slaves
<1> QED  BY <1>1 DEF BusTypes, Quiet

LEMMA TypeInvStep == TypeInv /\ [Next]_vars => TypeInv'
<1> SUFFICES ASSUME TypeInv, [Next]_vars PROVE TypeInv'
  OBVIOUS
<1>0. BusTypes /\ TransferTypes
  BY DEF TypeInv
<1>1. CASE UNCHANGED vars
  BY <1>0, <1>1, BusKept DEF vars, master, history, TypeInv, TransferTypes, BusTypes
<1>2. ASSUME NEW a \in Adc, NEW c \in Channel, Read(a, c) PROVE TypeInv'
  <2>1. BusTypes'
    BY <1>0, <1>2, BusKept DEF Read, BusTypes
  <2>2. TransferTypes'
    BY <1>0, <1>2 DEF Read, TransferTypes, Bits
  <2> QED  BY <2>1, <2>2 DEF TypeInv
<1>3. CASE Select
  <2>1. BusTypes'
    BY <1>0, <1>3, CsEdgeTypes DEF Select, BusTypes
  <2>2. TransferTypes'
    BY <1>0, <1>3 DEF Select, GoTo, history, TransferTypes, Bits
  <2> QED  BY <2>1, <2>2 DEF TypeInv
<1>4. CASE WriteMosi
  <2>1. mosi' \in BOOLEAN
    BY <1>4 DEF WriteMosi, OutgoingBit
  <2>2. BusTypes'
    BY <1>0, <1>4, <2>1, BusKept DEF WriteMosi
  <2>3. TransferTypes'
    BY <1>0, <1>4 DEF WriteMosi, GoTo, history, TransferTypes, Bits
  <2> QED  BY <2>2, <2>3 DEF TypeInv
<1>5. CASE RaiseClk
  <2>1. BusTypes'
    BY <1>0, <1>5, ClkEdgeTypes DEF RaiseClk, BusTypes
  <2>2. TransferTypes'
    BY <1>0, <1>5 DEF RaiseClk, GoTo, history, TransferTypes, Bits
  <2> QED  BY <2>1, <2>2 DEF TypeInv
<1>6. CASE ReadMiso
  <2>1. BusTypes'
    BY <1>0, <1>6, BusKept DEF ReadMiso, BusTypes
  <2>2. incoming' \in Seq(Signal) /\ Len(incoming') = Len(incoming) + 1
    BY <1>0, <1>6, MisoType DEF ReadMiso, TransferTypes
  <2>3. TransferTypes'
    BY <1>0, <1>6, <2>2 DEF ReadMiso, GoTo, history, TransferTypes, Bits
  <2> QED  BY <2>1, <2>3 DEF TypeInv
<1>7. CASE LowerClk
  <2>1. BusTypes'
    BY <1>0, <1>7, ClkEdgeTypes DEF LowerClk, BusTypes
  <2>2. TransferTypes'
    BY <1>0, <1>7 DEF LowerClk, GoTo, history, TransferTypes, Bits
  <2> QED  BY <2>1, <2>2 DEF TypeInv
<1>8. CASE Deselect
  <2>1. BusTypes'
    BY <1>0, <1>8, CsEdgeTypes DEF Deselect, BusTypes
  <2>2. TransferTypes'
    BY <1>0, <1>8 DEF Deselect, TransferTypes, Bits
  <2> QED  BY <2>1, <2>2 DEF TypeInv
<1>9. CASE Fault
  <2>1. BusTypes'
    BY <1>0, <1>9, BusKept DEF Fault, BusTypes
  <2>2. TransferTypes'
    BY <1>0, <1>9 DEF Fault, TransferTypes, Bits
  <2> QED  BY <2>1, <2>2 DEF TypeInv
<1> QED  BY <1>1, <1>2, <1>3, <1>4, <1>5, <1>6, <1>7, <1>8, <1>9 DEF Next, Transfer

\* Every variable has its type; of the ADCs, that none takes more than four
\* command bits and that every bit they send is one a transfer can know.
THEOREM TypesHold == Spec => []TypeOK
  BY TypeInvInit, TypeInvStep, TypeInvSuffices, PTL DEF Spec
-----------------------------------------------------------------------------
\* A transfer that began with no ADC selected, pin by pin.

\* What the ADC being read has seen of its clock after so many rising edges of a
\* transfer (the start bit is the sixth), which command bits of channel c it then
\* has, and what it puts on MISO after so many falling edges.
EdgesSeen(rises) == IF rises <= 5 THEN 0 ELSE rises - 5

CommandSent(c, n) == [j \in 1 .. n |-> OutgoingBit(c, 5 + j)]

Answer(a, c, falls) ==
  IF falls < 11 THEN <<"open">>
  ELSE IF falls = 11 THEN <<"null">>
  ELSE IF falls = Bits THEN <<"other">>
  ELSE <<"data", a, c, 23 - falls>>

\* Rising edges, or writes of a high level, in the transfer so far.
Rises == IF pc \in {"miso", "fall"} THEN bit + 1 ELSE bit

OnTrack ==
  /\ Selected = {adc}
  /\ clocks[adc] = EdgesSeen(Rises)
  /\ command[adc] = CommandSent(channel, CommandBits(EdgesSeen(Rises)))
  /\ dout[adc] = Answer(adc, channel, bit)
  /\ \A k \in 1 .. Len(incoming) : incoming[k] = Answer(adc, channel, k - 1)
  /\ pc = "rise" => mosi = OutgoingBit(channel, bit)
  /\ pc \in {"mosi", "rise"} /\ bit > 0 => ~ clk
  /\ pc \in {"miso", "fall"} => clk

CleanInv ==
  /\ CleanReadIsRight
  /\ clean /\ pc = "select" => Selected = {}
  /\ clean /\ pc \notin {"idle", "select"} => OnTrack

\* The bytes of outgoing, bit by bit: a start bit after five zeros, single-ended,
\* and the channel's three bits.
LEMMA BitsSent ==
  ASSUME NEW c \in 0 .. 7
  PROVE  /\ \A i \in 0 .. 4 : ~ OutgoingBit(c, i)
         /\ OutgoingBit(c, 5) /\ OutgoingBit(c, 6)
         /\ OutgoingBit(c, 7) <=> c >= 4
         /\ OutgoingBit(c, 8) <=> c % 4 >= 2
         /\ OutgoingBit(c, 9) <=> c % 2 = 1
<1>1. /\ ~ OutgoingBit(c, 0) /\ ~ OutgoingBit(c, 1) /\ ~ OutgoingBit(c, 2)
      /\ ~ OutgoingBit(c, 3) /\ ~ OutgoingBit(c, 4)
  BY DEF OutgoingBit, Outgoing
<1>2. OutgoingBit(c, 5) /\ OutgoingBit(c, 6)
  BY DEF OutgoingBit, Outgoing
<1>3. OutgoingBit(c, 7) <=> c >= 4
  BY DEF OutgoingBit, Outgoing
<1>4. OutgoingBit(c, 8) <=> c % 4 >= 2
  BY DEF OutgoingBit, Outgoing
<1>5. OutgoingBit(c, 9) <=> c % 2 = 1
  BY DEF OutgoingBit, Outgoing
<1>6. \A i \in 0 .. 4 : i = 0 \/ i = 1 \/ i = 2 \/ i = 3 \/ i = 4
  OBVIOUS
<1> QED  BY <1>1, <1>2, <1>3, <1>4, <1>5, <1>6

\* An ADC that has the four command bits knows the channel.
LEMMA ChannelSent ==
  ASSUME NEW c \in 0 .. 7
  PROVE  ChannelOf(CommandSent(c, 4)) = c
<1> DEFINE cmd == CommandSent(c, 4)
<1>1. cmd[1] = OutgoingBit(c, 6) /\ cmd[2] = OutgoingBit(c, 7)
      /\ cmd[3] = OutgoingBit(c, 8) /\ cmd[4] = OutgoingBit(c, 9)
  BY DEF CommandSent
<1>2. cmd[1] /\ (cmd[2] <=> c >= 4) /\ (cmd[3] <=> c % 4 >= 2) /\ (cmd[4] <=> c % 2 = 1)
  BY <1>1, BitsSent
<1> HIDE DEF cmd
<1>3. ChannelOf(cmd) = c
  BY <1>2 DEF ChannelOf
<1> QED  BY <1>3 DEF cmd

LEMMA CommandGrows ==
  ASSUME NEW c, NEW n \in 0 .. 3
  PROVE  Append(CommandSent(c, n), OutgoingBit(c, 6 + n)) = CommandSent(c, n + 1)
  BY DEF CommandSent

LEMMA OneAdcAnswers ==
  ASSUME Selected = {adc}
  PROVE  Miso = dout[adc]
<1>1. Cardinality({dout[adc]}) = 1
  BY FS_Singleton
<1> QED  BY <1>1 DEF Miso

\* The clock rises: the ADC takes bit number bit of outgoing.
LEMMA TrackRises ==
  ASSUME TypeInv, OnTrack, RaiseClk
  PROVE  OnTrack'
<1>1. /\ pc = "rise" /\ pc' = "miso" /\ bit' = bit /\ incoming' = incoming /\ cs' = cs
      /\ adc' = adc /\ channel' = channel /\ ClkEdge(TRUE)
  BY DEF RaiseClk, GoTo
<1>2. /\ bit \in 0 .. 23 /\ adc \in Adc /\ channel \in 0 .. 7 /\ clk \in BOOLEAN
      /\ Conversion = 19
  BY <1>1, ChannelAssumption DEF TypeInv, BusTypes, TransferTypes, Bits, Conversion
<1>3. /\ Selected = {adc} /\ mosi = OutgoingBit(channel, bit) /\ (bit > 0 => ~ clk)
      /\ clocks[adc] = EdgesSeen(bit)
      /\ command[adc] = CommandSent(channel, CommandBits(EdgesSeen(bit)))
  BY <1>1 DEF OnTrack, Rises
<1>4. clk' /\ Selected' = Selected
  BY <1>1 DEF ClkEdge, Selected
<1>5. /\ dout'[adc] = dout[adc]
      /\ clocks'[adc] = EdgesSeen(bit + 1)
      /\ command'[adc] = CommandSent(channel, CommandBits(EdgesSeen(bit + 1)))
  <2>1. CASE clk
    <3>1. bit = 0 /\ UNCHANGED slaves
      BY <1>1, <1>2, <1>3, <2>1 DEF ClkEdge
    <3>2. EdgesSeen(bit + 1) = EdgesSeen(bit)
      BY <3>1 DEF EdgesSeen
    <3> QED  BY <1>3, <3>1, <3>2 DEF slaves
  <2>2. CASE ~ clk
    <3>1. RisingEdge
      BY <1>1, <1>2, <2>2 DEF ClkEdge
    <3>2. dout' = dout
      BY <3>1 DEF RisingEdge
    <3>3. Min({clocks[adc] + 1, Conversion}) = IF clocks[adc] = 19 THEN 19 ELSE clocks[adc] + 1
      <4>1. clocks[adc] \in 0 .. 19 /\ clocks[adc] + 1 \in Int /\ 19 \in Int
        BY <1>2, <1>3 DEF EdgesSeen
      <4> QED  BY <1>2, <4>1, MinOfTwo
    <3>4. /\ clocks'[adc] = IF clocks[adc] = 0 /\ ~ mosi THEN clocks[adc]
                            ELSE Min({clocks[adc] + 1, Conversion})
          /\ command'[adc] = IF clocks[adc] \in 1 .. 4 THEN Append(command[adc], mosi)
                             ELSE command[adc]
      <4>1. adc \in Selected
        BY <1>3
      <4> QED  BY <1>2, <3>1, <4>1 DEF RisingEdge
    <3>5. CASE bit < 5
      <4>1. ~ mosi /\ clocks[adc] = 0 /\ EdgesSeen(bit) = 0 /\ EdgesSeen(bit + 1) = 0
        BY <1>2, <1>3, <3>5, BitsSent DEF EdgesSeen
      <4>2. clocks'[adc] = 0 /\ command'[adc] = command[adc]
        BY <1>2, <3>1, <4>1 DEF RisingEdge
      <4> QED  BY <1>3, <3>2, <4>1, <4>2
    <3>6. CASE bit = 5
      <4>1. mosi /\ clocks[adc] = 0 /\ EdgesSeen(bit) = 0 /\ EdgesSeen(bit + 1) = 1
        BY <1>2, <1>3, <3>6, BitsSent DEF EdgesSeen
      <4>2. clocks'[adc] = 1
        BY <3>3, <3>4, <4>1
      <4>3. command'[adc] = command[adc]
        <5>1. clocks[adc] \notin 1 .. 4
          BY <4>1
        <5> QED  BY <3>4, <5>1
      <4>4. CommandBits(0) = CommandBits(1)
        BY DEF CommandBits
      <4> QED  BY <1>3, <3>2, <4>1, <4>2, <4>3, <4>4
    <3>7. CASE bit > 5
      <4>1. /\ clocks[adc] = bit - 5 /\ EdgesSeen(bit) = bit - 5
            /\ EdgesSeen(bit + 1) = bit - 4
        BY <1>2, <1>3, <3>7 DEF EdgesSeen
      <4>2. bit - 5 # 0 /\ bit - 5 # 19 /\ (bit - 5) + 1 = bit - 4
        BY <1>2, <3>7
      <4>3. clocks'[adc] = bit - 4
        BY <3>3, <3>4, <4>1, <4>2
      <4>4. CASE bit <= 9
        <5>1. command'[adc] = Append(command[adc], mosi)
          <6>1. clocks[adc] \in 1 .. 4
            BY <1>2, <3>7, <4>1, <4>4
          <6> QED  BY <3>4, <6>1
        <5>2. CommandBits(bit - 5) = bit - 6 /\ CommandBits(bit - 4) = bit - 5
          BY <1>2, <3>7, <4>4 DEF CommandBits
        <5>3. bit - 6 \in 0 .. 3 /\ 6 + (bit - 6) = bit /\ (bit - 6) + 1 = bit - 5
          BY <1>2, <3>7, <4>4
        <5>4. command'[adc] = CommandSent(channel, bit - 5)
          BY <1>3, <4>1, <5>1, <5>2, <5>3, CommandGrows
        <5> QED  BY <3>2, <4>1, <4>3, <5>2, <5>4
      <4>5. CASE bit > 9
        <5>1. command'[adc] = command[adc]
          <6>1. clocks[adc] \notin 1 .. 4
            BY <1>2, <4>1, <4>5
          <6> QED  BY <3>4, <6>1
        <5>2. CommandBits(bit - 5) = 4 /\ CommandBits(bit - 4) = 4
          BY <1>2, <4>5 DEF CommandBits
        <5> QED  BY <1>3, <3>2, <4>1, <4>3, <5>1, <5>2
      <4> QED  BY <1>2, <4>4, <4>5
    <3> QED  BY <1>2, <3>5, <3>6, <3>7
  <2> QED  BY <2>1, <2>2
<1>6. Rises' = bit + 1
  BY <1>1 DEF Rises
<1>7. dout[adc] = Answer(adc, channel, bit)
      /\ \A k \in 1 .. Len(incoming) : incoming[k] = Answer(adc, channel, k - 1)
  BY DEF OnTrack
<1> QED  BY <1>1, <1>3, <1>4, <1>5, <1>6, <1>7 DEF OnTrack

\* The clock falls: the ADC puts its next bit on MISO.
LEMMA TrackFalls ==
  ASSUME TypeInv, OnTrack, LowerClk
  PROVE  OnTrack'
<1>1. /\ pc = "fall" /\ pc' = (IF bit + 1 < Bits THEN "mosi" ELSE "deselect")
      /\ bit' = bit + 1 /\ incoming' = incoming /\ cs' = cs
      /\ adc' = adc /\ channel' = channel /\ ClkEdge(FALSE)
  BY DEF LowerClk, GoTo
<1>2. /\ bit \in 0 .. 23 /\ adc \in Adc /\ channel \in 0 .. 7 /\ Conversion = 19
  BY <1>1, ChannelAssumption DEF TypeInv, TransferTypes, Bits, Conversion
<1>3. /\ Selected = {adc} /\ clk
      /\ clocks[adc] = EdgesSeen(bit + 1)
      /\ command[adc] = CommandSent(channel, CommandBits(EdgesSeen(bit + 1)))
      /\ \A k \in 1 .. Len(incoming) : incoming[k] = Answer(adc, channel, k - 1)
  BY <1>1 DEF OnTrack, Rises
<1>4. ~ clk' /\ Selected' = Selected /\ FallingEdge
  BY <1>1, <1>3 DEF ClkEdge, Selected
<1>5. /\ clocks' = clocks /\ command' = command
      /\ dout'[adc] = Output(adc)
  <2>1. adc \in Selected
    BY <1>3
  <2> QED  BY <1>2, <1>4, <2>1 DEF FallingEdge
<1>6. Output(adc) = Answer(adc, channel, bit + 1)
  <2>1. CASE bit + 1 < 11
    BY <1>2, <1>3, <2>1 DEF Output, Answer, EdgesSeen
  <2>2. CASE bit + 1 = 11
    BY <1>2, <1>3, <2>2 DEF Output, Answer, EdgesSeen
  <2>3. CASE bit + 1 = 24
    BY <1>2, <1>3, <2>3 DEF Output, Answer, EdgesSeen, Bits
  <2>4. CASE bit + 1 \in 12 .. 23
    <3>1. clocks[adc] = bit - 4 /\ EdgesSeen(bit + 1) = bit - 4 /\ CommandBits(bit - 4) = 4
      BY <1>2, <1>3, <2>4 DEF EdgesSeen, CommandBits
    <3>2. ChannelOf(command[adc]) = channel
      BY <1>2, <1>3, <3>1, ChannelSent
    <3>3. Output(adc) = <<"data", adc, channel, 18 - (bit - 4)>>
      BY <1>2, <2>4, <3>1, <3>2 DEF Output
    <3>4. 18 - (bit - 4) = 23 - (bit + 1)
      BY <1>2
    <3> QED  BY <1>2, <2>4, <3>3, <3>4 DEF Answer, Bits
  <2> QED  BY <1>2, <2>1, <2>2, <2>3, <2>4
<1>7. Rises' = bit + 1 /\ pc' \in {"mosi", "deselect"}
  BY <1>1 DEF Rises
<1> QED  BY <1>1, <1>3, <1>4, <1>5, <1>6, <1>7 DEF OnTrack

\* A high level on the ADC's chip select ends a transfer that went as it should.
LEMMA ReadsTheSample ==
  ASSUME TypeInv, OnTrack, pc = "deselect"
  PROVE  Value = Data(adc, channel)
<1>1. Len(incoming) = 24 /\ incoming \in Seq(Signal) /\ Bits = 24
  BY DEF TypeInv, TransferTypes, Bits
<1>2. \A i \in 1 .. 12 : incoming[i + 12] = <<"data", adc, channel, 12 - i>>
  <2> SUFFICES ASSUME NEW i \in 1 .. 12
               PROVE  incoming[i + 12] = <<"data", adc, channel, 12 - i>>
    OBVIOUS
  <2>1. i + 12 \in 1 .. Len(incoming) /\ (i + 12) - 1 \in 12 .. 23
        /\ 23 - ((i + 12) - 1) = 12 - i
    BY <1>1
  <2>2. incoming[i + 12] = Answer(adc, channel, (i + 12) - 1)
    BY <2>1 DEF OnTrack
  <2> QED  BY <2>1, <2>2 DEF Answer, Bits
<1>3. Value = [i \in 1 .. 12 |-> incoming[i + 12]]
  BY <1>1 DEF Value
<1> QED  BY <1>2, <1>3 DEF Data

LEMMA CleanInvStep == TypeInv /\ CleanInv /\ [Next]_vars => CleanInv'
<1> SUFFICES ASSUME TypeInv, CleanInv, [Next]_vars PROVE CleanInv'
  OBVIOUS
<1>0. TransferTypes /\ BusTypes
  BY DEF TypeInv
<1>1. CASE UNCHANGED vars
  <2>1. /\ pc' = pc /\ adc' = adc /\ channel' = channel /\ bit' = bit /\ incoming' = incoming
        /\ result' = result /\ clean' = clean /\ cs' = cs /\ clk' = clk /\ mosi' = mosi
        /\ clocks' = clocks /\ command' = command /\ dout' = dout
    BY <1>1 DEF vars, master, slaves, history
  <2> QED  BY <2>1 DEF CleanInv, CleanReadIsRight, Value, OnTrack, Rises, Selected
<1>2. ASSUME NEW a \in Adc, NEW c \in Channel, Read(a, c) PROVE CleanInv'
  BY <1>2 DEF Read, CleanInv, CleanReadIsRight, Selected
<1>3. CASE Select
  <2>1. /\ pc = "select" /\ pc' = "mosi" /\ UNCHANGED <<adc, channel, bit, incoming, clk>>
        /\ result' = result /\ clean' = clean /\ cs' = [cs EXCEPT ![adc] = FALSE]
        /\ UNCHANGED slaves
    BY <1>3 DEF Select, GoTo, history, CsEdge
  <2>2. bit = 0 /\ Len(incoming) = 0 /\ adc \in Adc /\ cs \in [Adc -> BOOLEAN]
        /\ result = "none"
    BY <1>0, <2>1 DEF TransferTypes, BusTypes
  <2>3. ASSUME clean PROVE OnTrack'
    <3>1. Selected = {}
      BY <2>1, <2>3 DEF CleanInv
    <3>2. Selected' = {adc}
      BY <2>1, <2>2, <3>1 DEF Selected
    <3>3. clocks[adc] = 0 /\ command[adc] = <<>> /\ dout[adc] = <<"open">>
      BY <1>0, <2>2, <3>1 DEF BusTypes, Quiet, Selected
    <3>4. Rises' = 0 /\ EdgesSeen(0) = 0 /\ CommandBits(0) = 0
      BY <2>1, <2>2 DEF Rises, EdgesSeen, CommandBits
    <3>5. CommandSent(channel, 0) = <<>> /\ Answer(adc, channel, 0) = <<"open">>
      BY DEF CommandSent, Answer
    <3> QED  BY <2>1, <2>2, <3>2, <3>3, <3>4, <3>5 DEF OnTrack, slaves
  <2> QED  BY <2>1, <2>2, <2>3 DEF CleanInv, CleanReadIsRight
<1>4. ASSUME pc \notin {"idle", "select"}, pc' \notin {"idle", "select"},
             UNCHANGED <<result, clean>>, clean => OnTrack'
      PROVE  CleanInv'
  BY <1>0, <1>4 DEF CleanInv, CleanReadIsRight, TransferTypes
<1>5. CASE WriteMosi
  <2>1. /\ pc = "mosi" /\ pc' = "rise" /\ mosi' = OutgoingBit(channel, bit)
        /\ UNCHANGED <<adc, channel, bit, incoming, clk, cs, result, clean>>
        /\ UNCHANGED slaves
    BY <1>5 DEF WriteMosi, GoTo, history
  <2>2. OnTrack => OnTrack'
    BY <2>1 DEF OnTrack, Rises, Selected, slaves
  <2> QED  BY <1>4, <2>1, <2>2 DEF CleanInv
<1>6. CASE RaiseClk
  <2>1. pc = "rise" /\ pc' = "miso" /\ UNCHANGED <<result, clean>>
    BY <1>6 DEF RaiseClk, GoTo, history
  <2> QED  BY <1>4, <1>6, <2>1, TrackRises DEF CleanInv
<1>7. CASE ReadMiso
  <2>1. /\ pc = "miso" /\ pc' = "fall" /\ incoming' = Append(incoming, Miso)
        /\ UNCHANGED <<adc, channel, bit, clk, cs, mosi, result, clean>>
        /\ UNCHANGED slaves
    BY <1>7 DEF ReadMiso, GoTo, history
  <2>2. incoming \in Seq(Signal) /\ Len(incoming) = bit /\ bit \in Nat
    BY <1>0, <2>1 DEF TransferTypes, Bits
  <2>3. ASSUME OnTrack PROVE OnTrack'
    <3>1. Miso = Answer(adc, channel, bit)
      BY <2>3, OneAdcAnswers DEF OnTrack
    <3>2. Len(incoming') = bit + 1
      BY <2>1, <2>2
    <3>3. ASSUME NEW k \in 1 .. bit + 1 PROVE incoming'[k] = Answer(adc, channel, k - 1)
      <4>1. CASE k = bit + 1
        <5>1. k - 1 = bit /\ incoming'[k] = Miso
          BY <2>1, <2>2, <4>1
        <5> QED  BY <3>1, <5>1
      <4>2. CASE k # bit + 1
        <5>1. k \in 1 .. Len(incoming) /\ incoming'[k] = incoming[k]
          BY <2>1, <2>2, <4>2
        <5> QED  BY <2>3, <5>1 DEF OnTrack
      <4> QED  BY <4>1, <4>2
    <3> QED  BY <2>1, <2>3, <3>2, <3>3 DEF OnTrack, Rises, Selected, slaves
  <2> QED  BY <1>4, <2>1, <2>3 DEF CleanInv
<1>8. CASE LowerClk
  <2>1. pc = "fall" /\ pc' \in {"mosi", "deselect"} /\ UNCHANGED <<result, clean>>
    BY <1>8 DEF LowerClk, GoTo, history
  <2> QED  BY <1>4, <1>8, <2>1, TrackFalls DEF CleanInv
<1>9. CASE Deselect
  <2>1. pc = "deselect" /\ pc' = "idle" /\ UNCHANGED <<adc, channel, incoming, clean>>
    BY <1>9 DEF Deselect
  <2>2. clean => Value = Data(adc, channel)
    BY <2>1, ReadsTheSample DEF CleanInv
  <2> QED  BY <2>1, <2>2 DEF CleanInv, CleanReadIsRight, Value
<1>10. CASE Fault
  BY <1>10 DEF Fault, CleanInv, CleanReadIsRight
<1> QED  BY <1>1, <1>2, <1>3, <1>5, <1>6, <1>7, <1>8, <1>9, <1>10 DEF Next, Transfer

\* A read that returns a value, and began with no ADC selected, returns the
\* sample of the channel and the ADC it was asked for (the bytes of outgoing,
\* the order of transfer's pins and the masks of read, whatever came before).
THEOREM CleanReadsAreRight == Spec => []CleanReadIsRight
<1>1. Init => CleanInv
  BY DEF Init, CleanInv, CleanReadIsRight
<1>2. CleanInv => CleanReadIsRight
  BY DEF CleanInv
<1> QED  BY TypeInvInit, TypeInvStep, <1>1, CleanInvStep, <1>2, PTL DEF Spec

=============================================================================
