---------------------------- MODULE SupervisorLink ----------------------------
(***************************************************************************)
(* The management SPI bus of fpga-stm32-ifaces.  InitSupervisor on the     *)
(* main MCU reads one register of the supervisor after the other; the      *)
(* supervisor's two interrupt handlers move bytes between the SPI          *)
(* peripheral and two FIFOs, and its main loop polls the SPI server, which *)
(* answers a command by queueing a dummy byte and then the value.  The     *)
(* main MCU is the master: it clocks the bus whatever the supervisor does, *)
(* and nothing but a fixed sleep synchronises the two.                     *)
(*                                                                         *)
(* A byte of a value is <<register, index, version>>.                      *)
(***************************************************************************)
EXTENDS Integers, Sequences

CONSTANTS
  Reg, Sensor,      \* the registers, those that PollIBCSensors changes
  Size,             \* bytes of each register
  Script,           \* the registers InitSupervisor reads, in order
  Buffer,           \* for each register, the register whose buffer is filled
  RxDepth, TxDepth, \* SPI<64, 64>
  HwDepth,          \* bytes the SPI peripheral buffers for transmission
  MaxPolls,         \* bound: how often a sensor's value changes
  None, Dummy, Filler, Underrun, CS   \* bytes and events that are no value

ASSUME LinkAssumption ==
  /\ Reg # {} /\ Sensor \subseteq Reg /\ Size \in [Reg -> Nat \ {0}]
  /\ Script \in Seq(Reg) /\ Buffer \in [Reg -> Reg]
  /\ {RxDepth, TxDepth, HwDepth} \subseteq Nat \ {0} /\ MaxPolls \in Nat
  /\ {None, Dummy, Filler, Underrun, CS} \cap Reg = {} /\ Filler \notin {None, CS}

\* The FIFOs hold a whole transaction of the longest register.
ASSUME DepthAssumption ==
  \A r \in Reg : Size[r] + 3 <= RxDepth /\ Size[r] + 1 <= TxDepth

VARIABLES
  hpc, read, got, copy,        \* main MCU: step, place in Script, bytes, buffers
  csEdge, rdr, hwTx, txeie,    \* supervisor's EXTI and SPI peripheral
  rxFifo, txFifo, overflows,   \* g_spi and g_spiRxFifoOverflows
  spc, command, first,         \* SPI server: in OnCommand?, m_command, byte is first?
  ver,                         \* version of each register's value
  late                         \* the supervisor was too late for the bus once (history)

host   == <<hpc, read, got, copy>>
periph == <<csEdge, rdr, hwTx, txeie>>
fifos  == <<rxFifo, txFifo, overflows>>
server == <<spc, command, first>>
vars   == <<host, periph, fifos, server, ver, late>>

\* InitSupervisor reads three version strings, then ten sensors.
InitScript ==
  << "VERSION", "IBCVERSION", "IBCHWVERSION", "IBCVIN", "IBCIIN", "IBCVOUT", "IBCIOUT",
     "IBCVSENSE", "IBCTEMP", "IBCMCUTEMP", "IBC3V3", "MCUTEMP", "3V3" >>

\* Where it stores them: the hardware version goes to g_ibcVersion.
InitBuffer(r) == IF r = "IBCHWVERSION" THEN "IBCVERSION" ELSE r

Bytes(r, v) == [k \in 1..Size[r] |-> <<r, k, v>>]

Init ==
  /\ hpc = "high" /\ read = 1 /\ got = << >> /\ copy = [r \in Reg |-> << >>]
  /\ csEdge = FALSE /\ rdr = None /\ hwTx = << >> /\ txeie = FALSE
  /\ rxFifo = << >> /\ txFifo = << >> /\ overflows = 0
  /\ spc = "poll" /\ command = None /\ first = FALSE
  /\ ver = [r \in Reg |-> 0] /\ late = FALSE

-----------------------------------------------------------------------------
(* Main MCU: one transaction of InitSupervisor or ReadSupervisorRegister.  *)

Target == Script[read]

\* The last byte or CS# has not been taken: the supervisor is behind the bus.
Behind == rdr # None \/ csEdge

\* Exchange of one byte.  If the last one is still in the data register, this
\* one is lost.
Shift(mosi) ==
  /\ rdr' = IF rdr = None THEN mosi ELSE rdr
  /\ hwTx' = IF hwTx = << >> THEN << >> ELSE Tail(hwTx)
  /\ late' = (late \/ Behind)
  /\ UNCHANGED <<csEdge, txeie, fifos, server, ver>>

Miso == IF hwTx = << >> THEN Underrun ELSE Head(hwTx)

\* CS# falls; a second edge before the interrupt of the first is lost.
SelectSupervisor ==
  /\ hpc = "high" /\ read <= Len(Script)
  /\ hpc' = "select" /\ got' = << >> /\ csEdge' = TRUE
  /\ late' = (late \/ Behind)
  /\ UNCHANGED <<read, copy, rdr, hwTx, txeie, fifos, server, ver>>

\* BlockingWrite(regid), WaitForWrites(), DiscardRxData().
WriteRegister ==
  /\ hpc = "select" /\ Shift(Target)
  /\ hpc' = "sleep"
  /\ UNCHANGED <<read, got, copy>>

\* Has the supervisor taken the command and got its answer ready?
Answered ==
  /\ ~Behind /\ rxFifo = << >> /\ spc = "poll"
  /\ Len(hwTx) = HwDepth \/ txFifo = << >>

\* g_logTimer.Sleep(2) is over, whatever the supervisor has done meanwhile.
WakeUp ==
  /\ hpc = "sleep" /\ hpc' = "read"
  /\ late' = (late \/ ~Answered)
  /\ UNCHANGED <<read, got, copy, periph, fifos, server, ver>>

\* BlockingRead(), for the dummy byte and for each byte of the value.
ReadByte ==
  /\ hpc = "read" /\ Len(got) < Size[Target] + 1
  /\ Shift(Filler) /\ got' = Append(got, Miso)
  /\ UNCHANGED <<hpc, read, copy>>

\* Mutant: the dummy byte is taken for the first one of the value.
DeselectKeepsDummy ==
  /\ hpc = "read" /\ Len(got) = Size[Target] + 1
  /\ hpc' = "high" /\ read' = read + 1
  /\ copy' = [copy EXCEPT ![Buffer[Target]] = SubSeq(got, 1, Size[Target])]
  /\ UNCHANGED <<got, periph, fifos, server, ver, late>>

DeselectSupervisor ==
  /\ hpc = "read" /\ Len(got) = Size[Target] + 1
  /\ hpc' = "high" /\ read' = read + 1
  /\ copy' = [copy EXCEPT ![Buffer[Target]] = Tail(got)]
  /\ UNCHANGED <<got, periph, fifos, server, ver, late>>

-----------------------------------------------------------------------------
(* Supervisor: the interrupt handlers.                                     *)

\* Mutant: the edge is dropped while events wait, as it is with a full FIFO.
CSHandlerIfEmpty ==
  /\ csEdge /\ csEdge' = FALSE
  /\ rxFifo' = IF rxFifo = << >> THEN <<CS>> ELSE rxFifo
  /\ UNCHANGED <<host, rdr, hwTx, txeie, txFifo, overflows, server, ver, late>>

\* A full FIFO drops the edge.
SPI_CSHandler ==
  /\ csEdge /\ csEdge' = FALSE
  /\ rxFifo' = IF Len(rxFifo) < RxDepth THEN Append(rxFifo, CS) ELSE rxFifo
  /\ UNCHANGED <<host, rdr, hwTx, txeie, txFifo, overflows, server, ver, late>>

\* Mutants: no check for room; a ring buffer that keeps one place empty.
ReceiveUnchecked ==
  /\ rdr' = None /\ UNCHANGED overflows
  /\ rxFifo' = IF rdr = None THEN rxFifo ELSE Append(rxFifo, rdr)
ReceiveOneShort ==
  IF rdr = None THEN UNCHANGED <<rdr, rxFifo, overflows>>
  ELSE /\ rdr' = None
       /\ IF Len(rxFifo) + 1 < RxDepth
          THEN rxFifo' = Append(rxFifo, rdr) /\ UNCHANGED overflows
          ELSE overflows' = overflows + 1 /\ UNCHANGED rxFifo

\* Receive half: the byte goes to the FIFO or is counted as lost.
ReceiveByte ==
  IF rdr = None THEN UNCHANGED <<rdr, rxFifo, overflows>>
  ELSE /\ rdr' = None
       /\ IF Len(rxFifo) < RxDepth
          THEN rxFifo' = Append(rxFifo, rdr) /\ UNCHANGED overflows
          ELSE overflows' = overflows + 1 /\ UNCHANGED rxFifo

\* Transmit half: refill the peripheral, or stop asking for it.
TransmitByte ==
  IF Len(hwTx) = HwDepth THEN UNCHANGED <<hwTx, txFifo, txeie>>
  ELSE IF txFifo # << >>
       THEN hwTx' = Append(hwTx, Head(txFifo)) /\ txFifo' = Tail(txFifo) /\ UNCHANGED txeie
       ELSE txeie' = FALSE /\ UNCHANGED <<hwTx, txFifo>>

SPI1_Handler ==
  /\ rdr # None \/ (txeie /\ Len(hwTx) < HwDepth)
  /\ ~csEdge   \* same priority, and the CS interrupt has the lower number
  /\ ReceiveByte /\ TransmitByte
  /\ UNCHANGED <<host, csEdge, server, ver, late>>

-----------------------------------------------------------------------------
(* Supervisor: the main loop.                                              *)

\* Mutant: the interrupt, which has turned itself off, stays off.
WriteLeavesOff(data) ==
  LET all == txFifo \o data
  IN /\ txFifo' = IF Len(all) <= TxDepth THEN all ELSE SubSeq(all, 1, TxDepth)
     /\ UNCHANGED txeie

\* Queue bytes without waiting for room, and have the interrupt send them.
NonblockingWriteFifo(data) ==
  LET all == txFifo \o data
  IN /\ txFifo' = IF Len(all) <= TxDepth THEN all ELSE SubSeq(all, 1, TxDepth)
     /\ txeie' = TRUE

\* Mutant: two dummy bytes.
PollTwoDummies ==
  /\ spc = "poll" /\ rxFifo # << >> /\ rxFifo' = Tail(rxFifo)
  /\ first' = (Head(rxFifo) = CS)
  /\ IF first /\ Head(rxFifo) # CS
     THEN /\ command' = Head(rxFifo) /\ spc' = "value"
          /\ NonblockingWriteFifo(<<Dummy, Dummy>>)
     ELSE UNCHANGED <<command, spc, txFifo, txeie>>
  /\ UNCHANGED <<host, csEdge, rdr, hwTx, overflows, ver, late>>

\* SPIServer::Poll takes one event; the first byte after CS# is a command.
Poll ==
  /\ spc = "poll" /\ rxFifo # << >> /\ rxFifo' = Tail(rxFifo)
  /\ first' = (Head(rxFifo) = CS)
  /\ IF first /\ Head(rxFifo) # CS
     THEN /\ command' = Head(rxFifo) /\ spc' = "value"
          /\ NonblockingWriteFifo(<<Dummy>>)
     ELSE UNCHANGED <<command, spc, txFifo, txeie>>
  /\ UNCHANGED <<host, csEdge, rdr, hwTx, overflows, ver, late>>

\* The switch of OnCommand; an unknown command is answered by the dummy alone.
OnCommand ==
  /\ spc = "value" /\ spc' = "poll"
  /\ IF command \in Reg THEN NonblockingWriteFifo(Bytes(command, ver[command]))
                        ELSE UNCHANGED <<txFifo, txeie>>
  /\ UNCHANGED <<host, csEdge, rdr, hwTx, rxFifo, overflows, command, first, ver, late>>

PollIBCSensors(r) ==
  /\ spc = "poll" /\ ver[r] < MaxPolls
  /\ ver' = [ver EXCEPT ![r] = @ + 1]
  /\ UNCHANGED <<host, periph, fifos, server, late>>

Host == SelectSupervisor \/ WriteRegister \/ WakeUp \/ ReadByte \/ DeselectSupervisor
ISR  == SPI_CSHandler \/ SPI1_Handler
Loop == Poll \/ OnCommand

Next == Host \/ ISR \/ Loop \/ \E r \in Sensor : PollIBCSensors(r)

\* Neither CPU stops, and pending interrupts are taken.
Spec == Init /\ [][Next]_vars /\ WF_vars(Host) /\ WF_vars(ISR) /\ WF_vars(Loop)

-----------------------------------------------------------------------------
Event == Reg \cup {Filler, CS}
Byte  == {Dummy, Underrun} \cup (Reg \X Nat \X Nat)

TypeOK ==
  /\ hpc \in {"high", "select", "sleep", "read"} /\ read \in 1..Len(Script) + 1
  /\ got \in Seq(Byte) /\ copy \in [Reg -> Seq(Byte)]
  /\ csEdge \in BOOLEAN /\ rdr \in Reg \cup {Filler, None} /\ txeie \in BOOLEAN
  /\ hwTx \in Seq(Byte) /\ Len(hwTx) <= HwDepth
  /\ rxFifo \in Seq(Event) /\ Len(rxFifo) <= RxDepth
  /\ txFifo \in Seq(Byte) /\ Len(txFifo) <= TxDepth
  /\ overflows \in Nat /\ spc \in {"poll", "value"}
  /\ command \in Reg \cup {Filler, None} /\ first \in BOOLEAN
  /\ ver \in [Reg -> Nat] /\ late \in BOOLEAN

\* While the supervisor is in time the receive FIFO never overflows, however
\* the polling of the server and the bytes of the bus interleave.
NoOverflow == ~late => overflows = 0

\* While the supervisor is in time nothing is left to be sent when the chip is
\* deselected: no answer is shifted into the next transaction.
NoResidue == ~late /\ hpc = "high" => hwTx = << >> /\ txFifo = << >>

\* What the server has yet to see of the bus.
Pending == IF rdr = None THEN rxFifo ELSE Append(rxFifo, rdr)

\* While the supervisor is in time every CS# edge stands before its command
\* and every other byte is none: no edge is lost, doubled or late, though it
\* comes by another interrupt than the bytes and is dropped by a full FIFO.
CommandsFramed ==
  ~late => \A i \in 1..Len(Pending) :
             Pending[i] \in Reg <=> IF i = 1 THEN first ELSE Pending[i - 1] = CS

\* The supervisor always catches up: interrupts and main loop, which turn the
\* transmit interrupt off and on, get whatever answer was asked for ready.
ServerCatchesUp == []<>Answered

\* The version buffers hold what their declarations say: once a read whose
\* answer came in time is over, the buffer declared for the register has it.
VersionStrings ==
  hpc = "high" /\ ~late =>
    \A k \in 1..(read - 1) : Script[k] \notin Sensor => copy[Script[k]] = Bytes(Script[k], 0)

\* The link implements RegisterRead.  The sample is taken by OnCommand; from
\* then on it is spread over what the main MCU has read, the bytes in the
\* peripheral and those in the FIFO.
InTransit == got \o hwTx \o txFifo

Abstract == INSTANCE RegisterRead WITH
  asked   <- IF hpc = "high" THEN None ELSE Target,
  sample  <- IF hpc # "high" /\ Len(InTransit) = Size[Target] + 1 THEN Tail(InTransit) ELSE << >>,
  answer  <- IF read = 1 THEN << >> ELSE copy[Buffer[Script[read - 1]]],
  trusted <- ~late

ReadsAreAtomic == Abstract!Spec
=============================================================================
