------------------------- MODULE SupervisorLinkProofs -------------------------
(***************************************************************************)
(* Proofs about the management bus, for any set of registers, any script   *)
(* and any depth of the FIFOs that holds a transaction: types, and while   *)
(* the supervisor is in time, no overflow, no residue, commands framed by  *)
(* CS#, and atomic reads.                                                  *)
(***************************************************************************)
EXTENDS SupervisorLink, SequenceTheorems, TLAPS

\* A transaction is one of the script's.
ScriptInv == hpc # "high" => read <= Len(Script)

\* Events of the receive FIFO that have been seen by the server's main loop
\* end in: nothing but bytes of the last answer's time; the falling CS#; the
\* command after it.  The latter two may be in the server's hands already.
Fillers(n) == \A i \in 1..n : rxFifo[i] = Filler
Quiet      == ~first /\ Fillers(Len(rxFifo))
Selected   ==
  \/ first /\ rxFifo = << >>
  \/ ~first /\ rxFifo # << >> /\ rxFifo[Len(rxFifo)] = CS /\ Fillers(Len(rxFifo) - 1)
Commanded  ==
  \/ first /\ Len(rxFifo) = 1 /\ rxFifo[1] = Target
  \/ /\ ~first /\ Len(rxFifo) >= 2 /\ rxFifo[Len(rxFifo)] = Target
     /\ rxFifo[Len(rxFifo) - 1] = CS /\ Fillers(Len(rxFifo) - 2)

\* Events that are in the FIFO or will be in it without the host's doing, and
\* bytes on the way to the host.
Events   == Len(rxFifo) + (IF rdr = None THEN 0 ELSE 1) + (IF csEdge THEN 1 ELSE 0)
Answer   == Len(hwTx) + Len(txFifo)

\* The peripheral has been refilled since the last byte.
Refilled == \/ txFifo = << >>
            \/ Len(hwTx) + (IF rdr = None THEN 0 ELSE 1) >= HwDepth

\* Where in its transaction the bus is, as long as the supervisor is in time.
HighInv   == Answer = 0 /\ spc = "poll" /\ Quiet /\ ~csEdge /\ rdr \in {None, Filler} /\ Events + 2 <= RxDepth
SelectInv == /\ Answer = 0 /\ spc = "poll" /\ got = << >> /\ rdr = None /\ Events + 1 <= RxDepth
             /\ IF csEdge THEN Quiet ELSE Selected
SleepInv  == /\ got = << >> /\ ~csEdge /\ Events <= RxDepth
             /\ \/ rdr = Target /\ Answer = 0 /\ spc = "poll" /\ Selected
                \/ rdr = None /\ Answer = 0 /\ spc = "poll" /\ Commanded
                \/ /\ rdr = None /\ Answer = 1 /\ spc = "value" /\ command = Target
                   /\ Quiet /\ rxFifo = << >>
                \/ rdr = None /\ Answer = Size[Target] + 1 /\ spc = "poll" /\ Quiet /\ rxFifo = << >>
ReadInv   == /\ Len(got) + Answer = Size[Target] + 1 /\ spc = "poll" /\ Quiet /\ ~csEdge
             /\ rdr \in {None, Filler} /\ Events <= Len(got) /\ Refilled

LinkInv ==
  ~late => /\ overflows = 0
           /\ hpc = "high" => HighInv
           /\ hpc = "select" => SelectInv
           /\ hpc = "sleep" => SleepInv
           /\ hpc = "read" => ReadInv

IInv == TypeOK /\ ScriptInv /\ LinkInv

-----------------------------------------------------------------------------
\* The constants, in the form the proofs use them.
LEMMA Depths ==
  /\ RxDepth \in Nat \ {0} /\ TxDepth \in Nat \ {0} /\ HwDepth \in Nat \ {0} /\ MaxPolls \in Nat
  /\ \A r \in Reg : /\ Size[r] \in Nat \ {0} /\ Size[r] + 3 <= RxDepth /\ Size[r] + 1 <= TxDepth
                    /\ r \notin {None, Dummy, Filler, Underrun, CS}
  /\ Filler # None /\ Filler # CS /\ Len(Script) \in Nat
<1>1. Len(Script) \in Nat BY LinkAssumption, LenProperties
<1>2. \A r \in Reg : r \notin {None, Dummy, Filler, Underrun, CS} BY LinkAssumption
<1>3. \A r \in Reg : Size[r] \in Nat \ {0} /\ Size[r] + 3 <= RxDepth /\ Size[r] + 1 <= TxDepth
  BY LinkAssumption, DepthAssumption
<1> QED BY <1>1, <1>2, <1>3, LinkAssumption

\* The register a transaction is about.
LEMMA TargetType ==
  ASSUME TypeOK, read <= Len(Script) PROVE Target \in Reg
<1>1. Script \in Seq(Reg) /\ read \in 1..Len(Script) BY Depths, LinkAssumption DEF TypeOK
<1> QED BY <1>1, ElementOfSeq DEF Target

\* Values are sequences of bytes.
LEMMA BytesType ==
  ASSUME NEW r \in Reg, NEW v \in Nat
  PROVE  Bytes(r, v) \in Seq(Byte) /\ Len(Bytes(r, v)) = Size[r]
<1>1. Size[r] \in Nat BY Depths
<1>2. Bytes(r, v) \in [1..Size[r] -> Byte] BY <1>1 DEF Bytes, Byte
<1> QED BY <1>1, <1>2

\* What is taken out of a FIFO, and what stays.
LEMMA TakeOne ==
  ASSUME NEW S, NEW q \in Seq(S), q # << >>
  PROVE  /\ Head(q) \in S /\ Head(q) = q[1] /\ Tail(q) \in Seq(S)
         /\ Len(q) \in Nat \ {0} /\ Len(Tail(q)) = Len(q) - 1
         /\ \A i \in 1..Len(q) - 1 : Tail(q)[i] = q[i + 1]
BY HeadTailProperties, EmptySeq

\* What is in a FIFO after a byte or an event has been put in.
LEMMA PutOne ==
  ASSUME NEW S, NEW q \in Seq(S), NEW x \in S
  PROVE  /\ Append(q, x) \in Seq(S) /\ Len(q) \in Nat /\ Len(Append(q, x)) = Len(q) + 1
         /\ Append(q, x) # << >> /\ Append(q, x)[Len(q) + 1] = x
         /\ \A i \in 1..Len(q) : Append(q, x)[i] = q[i]
BY AppendProperties, LenProperties

\* What a FIFO holds after a write, cut off where it is full.
LEMMA CutOff ==
  ASSUME NEW S, NEW all \in Seq(S), NEW n \in Nat, Len(all) > n
  PROVE  SubSeq(all, 1, n) \in Seq(S) /\ Len(SubSeq(all, 1, n)) = n
OBVIOUS

\* Bytes are queued as far as there is room.
LEMMA WriteFifo ==
  ASSUME TypeOK, NEW data \in Seq(Byte), NonblockingWriteFifo(data)
  PROVE  /\ txFifo' \in Seq(Byte) /\ Len(txFifo') \in Nat /\ Len(txFifo') <= TxDepth /\ txeie' = TRUE
         /\ Len(txFifo) + Len(data) <= TxDepth => /\ txFifo' = txFifo \o data
                                                  /\ Len(txFifo') = Len(txFifo) + Len(data)
<1> DEFINE all == txFifo \o data
<1>1. /\ txFifo \in Seq(Byte) /\ TxDepth \in Nat /\ Len(txFifo) \in Nat /\ Len(data) \in Nat
      /\ all \in Seq(Byte) /\ Len(all) = Len(txFifo) + Len(data)
  BY Depths, ConcatProperties, LenProperties DEF TypeOK
<1>2. txFifo' = (IF Len(all) <= TxDepth THEN all ELSE SubSeq(all, 1, TxDepth)) /\ txeie' = TRUE
  BY DEF NonblockingWriteFifo
<1> HIDE DEF all
<1>3. CASE Len(all) <= TxDepth BY <1>1, <1>2, <1>3 DEF all
<1>4. CASE Len(all) > TxDepth BY <1>1, <1>2, <1>4, CutOff
<1>5. Len(all) <= TxDepth \/ Len(all) > TxDepth BY <1>1
<1> QED BY <1>3, <1>4, <1>5

-----------------------------------------------------------------------------
\* One byte is exchanged.
LEMMA ShiftOne ==
  ASSUME TypeOK, NEW mosi \in Reg \cup {Filler}, Shift(mosi)
  PROVE  /\ rdr' \in Reg \cup {Filler, None} /\ late' \in BOOLEAN /\ Miso \in Byte
         /\ hwTx' \in Seq(Byte) /\ Len(hwTx') = (IF hwTx = << >> THEN 0 ELSE Len(hwTx) - 1)
         /\ Len(hwTx) \in Nat /\ Len(hwTx') <= HwDepth
         /\ UNCHANGED <<csEdge, txeie, rxFifo, txFifo, overflows, spc, command, first, ver>>
<1>1. /\ hwTx \in Seq(Byte) /\ Len(hwTx) <= HwDepth /\ Len(hwTx) \in Nat
      /\ rdr \in Reg \cup {Filler, None}
  BY LenProperties DEF TypeOK
<1>2. /\ rdr' = (IF rdr = None THEN mosi ELSE rdr) /\ late' = (late \/ Behind)
      /\ hwTx' = IF hwTx = << >> THEN << >> ELSE Tail(hwTx)
      /\ UNCHANGED <<csEdge, txeie, rxFifo, txFifo, overflows, spc, command, first, ver>>
  BY DEF Shift, fifos, server
<1>3. Underrun \in Byte /\ HwDepth \in Nat BY Depths DEF Byte
<1>6. rdr' \in Reg \cup {Filler, None} BY <1>1, <1>2
<1>7. late' \in BOOLEAN BY <1>2
<1>4. CASE hwTx = << >>
  <2>1. hwTx' = << >> /\ Miso = Underrun BY <1>2, <1>4 DEF Miso
  <2>2. hwTx' \in Seq(Byte) /\ Len(hwTx') = 0 BY <2>1, EmptySeq
  <2> QED BY <1>1, <1>2, <1>3, <1>4, <1>6, <1>7, <2>1, <2>2
<1>5. CASE hwTx # << >>
  <2>1. hwTx' = Tail(hwTx) /\ Miso = Head(hwTx) BY <1>2, <1>5 DEF Miso
  <2>2. /\ Head(hwTx) \in Byte /\ Tail(hwTx) \in Seq(Byte) /\ Len(Tail(hwTx)) = Len(hwTx) - 1
    BY <1>1, <1>5, TakeOne
  <2> HIDE DEF Miso
  <2> QED BY <1>1, <1>2, <1>3, <1>5, <1>6, <1>7, <2>1, <2>2
<1> QED BY <1>4, <1>5

\* If the supervisor is in time the byte finds the register free.
LEMMA ShiftInTime ==
  ASSUME NEW mosi, Shift(mosi), ~late'
  PROVE  rdr = None /\ ~csEdge /\ rdr' = mosi /\ ~late
BY DEF Shift, Behind

\* The main MCU's steps keep the types.
LEMMA HostType == ASSUME TypeOK, ScriptInv, Host PROVE TypeOK' /\ ScriptInv'
<1>1. CASE SelectSupervisor
  BY <1>1, EmptySeq DEF SelectSupervisor, TypeOK, ScriptInv, fifos, server, Behind
<1>2. CASE WriteRegister
  <2>1. Target \in Reg /\ Shift(Target) BY <1>2, TargetType DEF WriteRegister, ScriptInv
  <2>2. /\ hpc' = "sleep" /\ hpc = "select" /\ UNCHANGED <<read, got, copy>> BY <1>2 DEF WriteRegister
  <2> QED BY <2>1, <2>2, ShiftOne DEF TypeOK, ScriptInv
<1>3. CASE WakeUp
  BY <1>3 DEF WakeUp, TypeOK, ScriptInv, periph, fifos, server
<1>4. CASE ReadByte
  <2>1. Shift(Filler) /\ got' = Append(got, Miso) /\ UNCHANGED <<hpc, read, copy>> BY <1>4 DEF ReadByte
  <2>2. got' \in Seq(Byte) BY <2>1, ShiftOne, AppendProperties DEF TypeOK
  <2> QED BY <2>1, <2>2, ShiftOne DEF TypeOK, ScriptInv
<1>5. CASE DeselectSupervisor
  <2>1. /\ hpc = "read" /\ Len(got) = Size[Target] + 1 /\ hpc' = "high" /\ read' = read + 1
        /\ copy' = [copy EXCEPT ![Buffer[Target]] = Tail(got)]
        /\ UNCHANGED <<got, csEdge, rdr, hwTx, txeie, rxFifo, txFifo, overflows, spc, command, first, ver, late>>
    BY <1>5 DEF DeselectSupervisor, periph, fifos, server
  <2>2. Target \in Reg /\ read \in 1..Len(Script) BY <2>1, TargetType DEF ScriptInv, TypeOK
  <2>3. Tail(got) \in Seq(Byte)
    <3>1. got \in Seq(Byte) /\ Len(got) # 0 BY <2>1, <2>2, Depths DEF TypeOK
    <3>2. got # << >> BY <3>1, EmptySeq
    <3> QED BY <3>1, <3>2, TakeOne
  <2>4. copy' \in [Reg -> Seq(Byte)] BY <2>1, <2>2, <2>3, LinkAssumption DEF TypeOK
  <2>5. read' \in 1..Len(Script) + 1 BY <2>1, <2>2, Depths
  <2> QED BY <2>1, <2>4, <2>5 DEF TypeOK, ScriptInv
<1> QED BY <1>1, <1>2, <1>3, <1>4, <1>5 DEF Host

\* So do the interrupt handlers'.
LEMMA ISRType == ASSUME TypeOK, ScriptInv, ISR PROVE TypeOK' /\ ScriptInv'
<1>1. CASE SPI_CSHandler
  <2>1. rxFifo' \in Seq(Event) /\ Len(rxFifo') <= RxDepth
    BY <1>1, AppendProperties, Depths DEF SPI_CSHandler, TypeOK, Event
  <2> QED BY <1>1, <2>1 DEF SPI_CSHandler, TypeOK, ScriptInv, host, server
<1>2. CASE SPI1_Handler
  <2>1. ReceiveByte /\ TransmitByte /\ UNCHANGED <<host, csEdge, server, ver, late>> BY <1>2 DEF SPI1_Handler
  <2>2. /\ rxFifo' \in Seq(Event) /\ Len(rxFifo') <= RxDepth /\ rdr' \in Reg \cup {Filler, None}
        /\ overflows' \in Nat
    <3>1. CASE rdr = None BY <2>1, <3>1 DEF ReceiveByte, TypeOK
    <3>2. CASE rdr # None
      <4>1. /\ rxFifo \in Seq(Event) /\ rdr \in Event /\ Len(rxFifo) <= RxDepth /\ overflows \in Nat
            /\ RxDepth \in Nat
        BY <3>2, Depths DEF TypeOK, Event
      <4>2. /\ Append(rxFifo, rdr) \in Seq(Event) /\ Len(Append(rxFifo, rdr)) = Len(rxFifo) + 1
            /\ Len(rxFifo) \in Nat
        BY <4>1, PutOne
      <4>3. CASE Len(rxFifo) < RxDepth BY <2>1, <3>2, <4>1, <4>2, <4>3 DEF ReceiveByte
      <4>4. CASE ~(Len(rxFifo) < RxDepth) BY <2>1, <3>2, <4>1, <4>4 DEF ReceiveByte
      <4> QED BY <4>3, <4>4
    <3> QED BY <3>1, <3>2
  <2>3. /\ hwTx' \in Seq(Byte) /\ Len(hwTx') <= HwDepth
        /\ txFifo' \in Seq(Byte) /\ Len(txFifo') <= TxDepth /\ txeie' \in BOOLEAN
    <3>1. CASE Len(hwTx) = HwDepth \/ txFifo = << >> BY <2>1, <3>1 DEF TransmitByte, TypeOK
    <3>2. CASE Len(hwTx) # HwDepth /\ txFifo # << >>
      <4>1. Head(txFifo) \in Byte /\ Tail(txFifo) \in Seq(Byte) /\ Len(Tail(txFifo)) = Len(txFifo) - 1 /\ Len(txFifo) \in Nat
        BY <3>2, TakeOne DEF TypeOK
      <4>2. hwTx' = Append(hwTx, Head(txFifo)) /\ txFifo' = Tail(txFifo) /\ txeie' = txeie
        BY <2>1, <3>2 DEF TransmitByte
      <4> QED BY <4>1, <4>2, <3>2, AppendProperties, LenProperties, Depths DEF TypeOK
    <3> QED BY <3>1, <3>2
  <2> QED BY <2>1, <2>2, <2>3 DEF TypeOK, ScriptInv, host, server
<1> QED BY <1>1, <1>2 DEF ISR

\* So do the server's, and a sensor.
LEMMA LoopType == ASSUME TypeOK, ScriptInv, Loop PROVE TypeOK' /\ ScriptInv'
<1>1. CASE Poll
  <2>1. /\ spc = "poll" /\ rxFifo # << >> /\ rxFifo' = Tail(rxFifo) /\ first' = (Head(rxFifo) = CS)
        /\ UNCHANGED <<host, csEdge, rdr, hwTx, overflows, ver, late>>
    BY <1>1 DEF Poll
  <2>2. Head(rxFifo) \in Event /\ rxFifo' \in Seq(Event) /\ Len(rxFifo') <= RxDepth
    BY <2>1, TakeOne, Depths DEF TypeOK
  <2>3. CASE first /\ Head(rxFifo) # CS
    <3>1. command' = Head(rxFifo) /\ spc' = "value" /\ NonblockingWriteFifo(<<Dummy>>) BY <1>1, <2>3 DEF Poll
    <3>2. <<Dummy>> \in Seq(Byte) BY DEF Byte
    <3>3. command' \in Reg \cup {Filler, None} BY <2>2, <2>3, <3>1 DEF Event
    <3> QED BY <2>1, <2>2, <3>1, <3>2, <3>3, WriteFifo DEF TypeOK, ScriptInv, host
  <2>4. CASE ~(first /\ Head(rxFifo) # CS)
    BY <1>1, <2>1, <2>2, <2>4 DEF Poll, TypeOK, ScriptInv, host
  <2> QED BY <2>3, <2>4
<1>2. CASE OnCommand
  <2>1. UNCHANGED <<host, csEdge, rdr, hwTx, rxFifo, overflows, command, first, ver, late>> /\ spc' = "poll"
    BY <1>2 DEF OnCommand
  <2>2. CASE command \in Reg
    <3>1. NonblockingWriteFifo(Bytes(command, ver[command])) BY <1>2, <2>2 DEF OnCommand
    <3>2. Bytes(command, ver[command]) \in Seq(Byte) BY <2>2, BytesType DEF TypeOK
    <3> QED BY <2>1, <3>1, <3>2, WriteFifo DEF TypeOK, ScriptInv, host
  <2>3. CASE command \notin Reg BY <1>2, <2>1, <2>3 DEF OnCommand, TypeOK, ScriptInv, host
  <2> QED BY <2>2, <2>3
<1> QED BY <1>1, <1>2 DEF Loop

LEMMA SensorType ==
  ASSUME TypeOK, ScriptInv, NEW r \in Sensor, PollIBCSensors(r) PROVE TypeOK' /\ ScriptInv'
<1>1. ver' \in [Reg -> Nat] BY LinkAssumption DEF PollIBCSensors, TypeOK
<1> QED BY <1>1 DEF PollIBCSensors, TypeOK, ScriptInv, host, periph, fifos, server

-----------------------------------------------------------------------------
\* Lengths, and what an empty FIFO is.
LEMMA Lengths ==
  ASSUME TypeOK
  PROVE  /\ Len(rxFifo) \in Nat /\ Len(txFifo) \in Nat /\ Len(hwTx) \in Nat /\ Len(got) \in Nat
         /\ Events \in Nat /\ Answer \in Nat
         /\ (txFifo = << >> <=> Len(txFifo) = 0) /\ (hwTx = << >> <=> Len(hwTx) = 0)
         /\ (rxFifo = << >> <=> Len(rxFifo) = 0)
<1>1. Len(rxFifo) \in Nat /\ Len(txFifo) \in Nat /\ Len(hwTx) \in Nat /\ Len(got) \in Nat
  BY LenProperties DEF TypeOK
<1>2. /\ (txFifo = << >> <=> Len(txFifo) = 0) /\ (hwTx = << >> <=> Len(hwTx) = 0)
      /\ (rxFifo = << >> <=> Len(rxFifo) = 0)
  BY EmptySeq DEF TypeOK
<1>3. Events \in Nat
  <2> DEFINE a == IF rdr = None THEN 0 ELSE 1
             b == IF csEdge THEN 1 ELSE 0
  <2>1. a \in Nat /\ b \in Nat OBVIOUS
  <2>2. Events = Len(rxFifo) + a + b BY DEF Events
  <2> HIDE DEF a, b
  <2> QED BY <1>1, <2>1, <2>2
<1>4. Answer \in Nat BY <1>1 DEF Answer
<1> QED BY <1>1, <1>2, <1>3, <1>4

\* The falling CS# finds the bus at rest.
LEMMA SelectKeeps == ASSUME IInv, SelectSupervisor PROVE LinkInv'
<1> SUFFICES ASSUME ~late' PROVE LinkInv' BY DEF LinkInv
<1>1. /\ hpc = "high" /\ rdr = None /\ ~late /\ hpc' = "select" /\ got' = << >> /\ csEdge' = TRUE
      /\ UNCHANGED <<rdr, hwTx, rxFifo, txFifo, overflows, spc, first>>
  BY DEF SelectSupervisor, fifos, server, Behind
<1>2. HighInv /\ overflows = 0 BY <1>1 DEF IInv, LinkInv
<1>3. SelectInv' BY <1>1, <1>2, Lengths, Depths DEF HighInv, SelectInv, Answer, Events, Quiet, Fillers, IInv
<1> QED BY <1>1, <1>2, <1>3 DEF LinkInv

\* The command is the first byte after CS#.
LEMMA WriteKeeps == ASSUME IInv, WriteRegister PROVE LinkInv'
<1> SUFFICES ASSUME ~late' PROVE LinkInv' BY DEF LinkInv
<1>1. /\ hpc = "select" /\ Shift(Target) /\ hpc' = "sleep" /\ UNCHANGED <<read, got>>
  BY DEF WriteRegister
<1>2. SelectInv /\ overflows = 0 /\ TypeOK BY <1>1, ShiftInTime DEF IInv, LinkInv
<1>3. Target \in Reg /\ Target # None /\ Target' = Target
  BY <1>1, TargetType, Depths DEF IInv, ScriptInv, Target
<1>4. /\ rdr = None /\ ~csEdge /\ rdr' = Target /\ Len(hwTx') = (IF hwTx = << >> THEN 0 ELSE Len(hwTx) - 1)
      /\ UNCHANGED <<csEdge, rxFifo, txFifo, overflows, spc, first>>
  BY <1>1, <1>2, <1>3, ShiftOne, ShiftInTime
<1>5. Len(hwTx) = 0 /\ Len(txFifo) = 0 /\ hwTx = << >> BY <1>2, Lengths DEF SelectInv, Answer
<1>6. Selected' BY <1>2, <1>4 DEF SelectInv, Selected, Fillers
<1>7. Answer' = 0 BY <1>4, <1>5 DEF Answer
<1>8. Events' = Events + 1 BY <1>3, <1>4, Lengths, <1>2 DEF Events
<1>9. SleepInv' BY <1>1, <1>2, <1>3, <1>4, <1>6, <1>7, <1>8, Lengths, Depths DEF SelectInv, SleepInv
<1> QED BY <1>1, <1>2, <1>4, <1>9 DEF LinkInv

\* A sleep that is long enough ends with the whole answer queued.
LEMMA WakeUpKeeps == ASSUME IInv, WakeUp PROVE LinkInv'
<1> SUFFICES ASSUME ~late' PROVE LinkInv' BY DEF LinkInv
<1>1. /\ hpc = "sleep" /\ hpc' = "read" /\ ~late /\ Answered
      /\ UNCHANGED <<read, got, csEdge, rdr, hwTx, rxFifo, txFifo, overflows, spc, command, first>>
  BY DEF WakeUp, periph, fifos, server
<1>2. SleepInv /\ overflows = 0 /\ TypeOK BY <1>1 DEF IInv, LinkInv
<1>3. Target \in Reg /\ Target # None /\ Target' = Target
  BY <1>1, TargetType, Depths DEF IInv, ScriptInv, Target
<1>4. ~Commanded BY <1>1, <1>2, Lengths DEF Commanded, Answered, Behind
<1>5. Answer = Size[Target] + 1 /\ Quiet /\ rdr = None /\ rxFifo = << >> /\ got = << >> /\ spc = "poll" /\ ~csEdge
  BY <1>1, <1>2, <1>3, <1>4 DEF SleepInv, Answered, Behind
<1>6. Answer' = Answer /\ Quiet' BY <1>1, <1>5 DEF Answer, Quiet, Fillers
<1>7. Events' = 0 /\ Len(got') = 0 BY <1>1, <1>2, <1>5, Lengths, EmptySeq DEF Events
<1>8. Refilled' BY <1>1, <1>5, <1>2, Lengths, Depths DEF Refilled, Answered
<1>9. ReadInv' BY <1>1, <1>3, <1>5, <1>6, <1>7, <1>8, Depths DEF ReadInv
<1> QED BY <1>1, <1>2, <1>9 DEF LinkInv

\* The peripheral has a byte of the answer for each byte that is read.
LEMMA ByteReady ==
  ASSUME IInv, ReadByte, ~late'
  PROVE  hwTx # << >> /\ Len(hwTx) >= 1 /\ ReadInv
<1>1. ReadInv /\ rdr = None /\ Len(got) < Size[Target] + 1 /\ TypeOK
  BY ShiftInTime DEF ReadByte, IInv, LinkInv
<1>2. Answer >= 1
  <2>1. Target \in Reg BY TargetType DEF ReadByte, IInv, ScriptInv
  <2> QED BY <1>1, <2>1, Lengths, Depths DEF ReadInv
<1>3. CASE txFifo = << >> BY <1>1, <1>2, <1>3, Lengths DEF Answer
<1>4. CASE Len(hwTx) + (IF rdr = None THEN 0 ELSE 1) >= HwDepth BY <1>1, <1>4, Lengths, Depths
<1> QED BY <1>1, <1>3, <1>4 DEF ReadInv, Refilled

LEMMA ReadKeeps == ASSUME IInv, ReadByte PROVE LinkInv'
<1> SUFFICES ASSUME ~late' PROVE LinkInv' BY DEF LinkInv
<1>1. /\ hpc = "read" /\ Len(got) < Size[Target] + 1 /\ Shift(Filler) /\ got' = Append(got, Miso)
      /\ UNCHANGED <<hpc, read>>
  BY DEF ReadByte
<1>2. ReadInv /\ overflows = 0 /\ TypeOK BY <1>1, ShiftInTime DEF IInv, LinkInv
<1>3. Target \in Reg /\ Target' = Target /\ Size[Target] \in Nat
  BY <1>1, TargetType, Depths DEF IInv, ScriptInv, Target
<1>4. hwTx # << >> /\ Len(hwTx) >= 1 BY <1>1, ByteReady
<1>5. /\ rdr = None /\ ~csEdge /\ rdr' = Filler /\ Miso \in Byte /\ Len(hwTx') = Len(hwTx) - 1
      /\ UNCHANGED <<csEdge, rxFifo, txFifo, overflows, spc, first>>
  BY <1>1, <1>2, <1>4, ShiftOne, ShiftInTime
<1>6. Len(got') = Len(got) + 1 BY <1>1, <1>2, <1>5, PutOne DEF TypeOK
<1>7. Answer' = Answer - 1 BY <1>5, <1>2, Lengths DEF Answer
<1>8. Events' = Events + 1 BY <1>5, <1>2, Lengths, Depths DEF Events
<1>9. Refilled' BY <1>2, <1>5, Lengths, Depths DEF Refilled, ReadInv
<1>10. Quiet' BY <1>2, <1>5 DEF ReadInv, Quiet, Fillers
<1>11. ReadInv' BY <1>2, <1>3, <1>5, <1>6, <1>7, <1>8, <1>9, <1>10, Lengths DEF ReadInv
<1> QED BY <1>1, <1>2, <1>5, <1>11 DEF LinkInv

\* The last byte of the value is the last byte of the answer.
LEMMA DeselectKeeps == ASSUME IInv, DeselectSupervisor PROVE LinkInv'
<1> SUFFICES ASSUME ~late' PROVE LinkInv' BY DEF LinkInv
<1>1. /\ hpc = "read" /\ Len(got) = Size[Target] + 1 /\ hpc' = "high"
      /\ UNCHANGED <<got, csEdge, rdr, hwTx, txeie, rxFifo, txFifo, overflows, spc, first, late>>
  BY DEF DeselectSupervisor, periph, fifos, server
<1>2. ReadInv /\ overflows = 0 /\ TypeOK BY <1>1 DEF IInv, LinkInv
<1>3. Size[Target] \in Nat /\ Size[Target] + 3 <= RxDepth /\ RxDepth \in Nat
  BY <1>1, TargetType, Depths DEF IInv, ScriptInv
<1>4. Answer = 0 /\ Events + 2 <= RxDepth BY <1>1, <1>2, <1>3, Lengths DEF ReadInv
<1>5. Answer' = Answer /\ Events' = Events /\ Quiet' BY <1>1, <1>2 DEF Answer, Events, Quiet, Fillers, ReadInv
<1>6. HighInv' BY <1>1, <1>2, <1>4, <1>5 DEF HighInv, ReadInv
<1> QED BY <1>1, <1>2, <1>6 DEF LinkInv

-----------------------------------------------------------------------------
\* CS# is the last event of a FIFO that held bytes of the last answer's time.
LEMMA CSHandlerKeeps == ASSUME IInv, SPI_CSHandler PROVE LinkInv'
<1> SUFFICES ASSUME ~late' PROVE LinkInv' BY DEF LinkInv
<1>1. /\ csEdge /\ csEdge' = FALSE
      /\ rxFifo' = IF Len(rxFifo) < RxDepth THEN Append(rxFifo, CS) ELSE rxFifo
      /\ UNCHANGED <<hpc, read, got, rdr, hwTx, txFifo, overflows, spc, first, late>>
  BY DEF SPI_CSHandler, host, server
<1>2. hpc = "select" /\ SelectInv /\ overflows = 0 /\ TypeOK
  BY <1>1 DEF IInv, LinkInv, TypeOK, HighInv, SleepInv, ReadInv
<1>3. rdr = None /\ Events = Len(rxFifo) + 1 /\ Len(rxFifo) + 2 <= RxDepth /\ Quiet
  BY <1>1, <1>2, Lengths, Depths DEF SelectInv, Events
<1>4. rxFifo' = Append(rxFifo, CS) BY <1>1, <1>2, <1>3, Lengths, Depths
<1>5. /\ rxFifo' # << >> /\ Len(rxFifo') = Len(rxFifo) + 1 /\ Len(rxFifo) \in Nat /\ rxFifo'[Len(rxFifo) + 1] = CS
      /\ \A i \in 1..Len(rxFifo) : rxFifo'[i] = rxFifo[i]
  <2>1. rxFifo \in Seq(Event) /\ CS \in Event BY <1>2 DEF TypeOK, Event
  <2> QED BY <2>1, <1>4, PutOne
<1>6. Selected' BY <1>1, <1>3, <1>5 DEF Selected, Quiet, Fillers
<1>7. Events' = Len(rxFifo) + 1 BY <1>1, <1>3, <1>5 DEF Events
<1>8. SelectInv' BY <1>1, <1>2, <1>3, <1>6, <1>7 DEF SelectInv, Answer
<1> QED BY <1>1, <1>2, <1>8 DEF LinkInv

\* The two halves of the SPI interrupt.
LEMMA ReceiveRoom ==
  ASSUME TypeOK, ReceiveByte, csEdge' = csEdge, Len(rxFifo) < RxDepth \/ rdr = None
  PROVE  /\ rdr' = None /\ overflows' = overflows /\ Events' = Events
         /\ rxFifo' = IF rdr = None THEN rxFifo ELSE Append(rxFifo, rdr)
<1>1. CASE rdr = None BY <1>1 DEF ReceiveByte, Events
<1>2. CASE rdr # None
  <2>1. rdr' = None /\ rxFifo' = Append(rxFifo, rdr) /\ overflows' = overflows BY <1>2 DEF ReceiveByte
  <2>2. rxFifo \in Seq(Event) /\ rdr \in Event BY <1>2 DEF TypeOK, Event
  <2>3. Len(rxFifo') = Len(rxFifo) + 1 /\ Len(rxFifo) \in Nat BY <2>1, <2>2, PutOne
  <2> QED BY <2>1, <2>3, <1>2 DEF Events
<1> QED BY <1>1, <1>2

LEMMA TransmitMoves ==
  ASSUME TypeOK, TransmitByte
  PROVE  /\ Answer' = Answer
         /\ Refilled /\ rdr' = None => Refilled'
<1>1. /\ Len(hwTx) \in Nat /\ Len(txFifo) \in Nat /\ Len(hwTx) <= HwDepth /\ HwDepth \in Nat
      /\ hwTx \in Seq(Byte) /\ txFifo \in Seq(Byte)
  BY Lengths, Depths DEF TypeOK
<1>2. CASE Len(hwTx) = HwDepth
  <2>1. UNCHANGED <<hwTx, txFifo>> BY <1>2 DEF TransmitByte
  <2> QED BY <1>1, <1>2, <2>1 DEF Answer, Refilled
<1>3. CASE Len(hwTx) # HwDepth /\ txFifo = << >>
  <2>1. UNCHANGED <<hwTx, txFifo>> BY <1>3 DEF TransmitByte
  <2> QED BY <1>3, <2>1 DEF Answer, Refilled
<1>4. CASE Len(hwTx) # HwDepth /\ txFifo # << >>
  <2>1. hwTx' = Append(hwTx, Head(txFifo)) /\ txFifo' = Tail(txFifo) BY <1>4 DEF TransmitByte
  <2>2. Head(txFifo) \in Byte /\ Len(txFifo') = Len(txFifo) - 1 BY <1>1, <1>4, <2>1, TakeOne
  <2>3. Len(hwTx') = Len(hwTx) + 1 BY <1>1, <2>1, <2>2, PutOne
  <2>4. Answer' = Answer BY <1>1, <2>2, <2>3 DEF Answer
  <2>5. ASSUME Refilled, rdr' = None PROVE Refilled'
    BY <1>1, <1>4, <2>3, <2>5 DEF Refilled
  <2> QED BY <2>4, <2>5
<1> QED BY <1>2, <1>3, <1>4

\* Bytes of the answer's time are queued behind others of them; the command is
\* queued behind CS#.
LEMMA ReceivedFiller ==
  ASSUME TypeOK, Quiet, rdr \in {None, Filler}, first' = first,
         rxFifo' = IF rdr = None THEN rxFifo ELSE Append(rxFifo, rdr)
  PROVE  Quiet'
<1>1. CASE rdr = None BY <1>1 DEF Quiet, Fillers
<1>2. CASE rdr # None
  <2>1. rdr = Filler /\ rxFifo' = Append(rxFifo, Filler) BY <1>2
  <2>2. rxFifo \in Seq(Event) /\ Filler \in Event BY DEF TypeOK, Event
  <2>3. /\ Len(rxFifo) \in Nat /\ Len(rxFifo') = Len(rxFifo) + 1 /\ rxFifo'[Len(rxFifo) + 1] = Filler
        /\ \A i \in 1..Len(rxFifo) : rxFifo'[i] = rxFifo[i]
    BY <2>1, <2>2, PutOne
  <2> QED BY <2>3 DEF Quiet, Fillers
<1> QED BY <1>1, <1>2

LEMMA ReceivedCommand ==
  ASSUME TypeOK, Selected, Target \in Reg, Target' = Target, first' = first, rxFifo' = Append(rxFifo, Target)
  PROVE  Commanded'
<1>1. rxFifo \in Seq(Event) /\ Target \in Event BY DEF TypeOK, Event
<1>2. /\ Len(rxFifo) \in Nat /\ Len(rxFifo') = Len(rxFifo) + 1 /\ rxFifo'[Len(rxFifo) + 1] = Target
      /\ \A i \in 1..Len(rxFifo) : rxFifo'[i] = rxFifo[i]
  BY <1>1, PutOne
<1>3. CASE first /\ rxFifo = << >> BY <1>2, <1>3, Lengths DEF Commanded
<1>4. CASE ~first /\ rxFifo # << >> /\ rxFifo[Len(rxFifo)] = CS /\ Fillers(Len(rxFifo) - 1)
  <2>1. Len(rxFifo) >= 1 BY <1>4, Lengths
  <2> QED BY <1>2, <1>4, <2>1 DEF Commanded, Fillers
<1> QED BY <1>3, <1>4 DEF Selected

LEMMA SPIHandlerKeeps == ASSUME IInv, SPI1_Handler PROVE LinkInv'
<1> SUFFICES ASSUME ~late' PROVE LinkInv' BY DEF LinkInv
<1>1. /\ ~csEdge /\ ReceiveByte /\ TransmitByte
      /\ UNCHANGED <<hpc, read, got, csEdge, spc, command, first, late>>
  BY DEF SPI1_Handler, host, server
<1>2. TypeOK /\ ~late /\ overflows = 0 BY <1>1 DEF IInv, LinkInv
<1>3. Target' = Target BY <1>1 DEF Target
<1>4. Answer' = Answer /\ (Refilled /\ rdr' = None => Refilled') BY <1>1, <1>2, TransmitMoves
<1>5. hpc # "high" => Target \in Reg BY <1>2, TargetType DEF IInv, ScriptInv
<1>6. Len(rxFifo) < RxDepth \/ rdr = None
  <2>1. Len(rxFifo) + (IF rdr = None THEN 0 ELSE 1) = Events BY <1>1, <1>2, Lengths DEF Events
  <2>2. CASE hpc = "high" BY <1>2, <2>1, <2>2, Lengths, Depths DEF IInv, LinkInv, HighInv
  <2>3. CASE hpc = "select" BY <1>2, <2>3 DEF IInv, LinkInv, SelectInv
  <2>4. CASE hpc = "sleep" BY <1>2, <2>1, <2>4, Lengths, Depths DEF IInv, LinkInv, SleepInv
  <2>5. CASE hpc = "read"
    <3>1. Len(got) <= Size[Target] + 1 /\ Events <= Len(got)
      BY <1>2, <1>5, <2>5, Lengths, Depths DEF IInv, LinkInv, ReadInv
    <3> QED BY <1>2, <1>5, <2>1, <2>5, <3>1, Lengths, Depths
  <2> QED BY <1>2, <2>2, <2>3, <2>4, <2>5 DEF TypeOK
<1>7. /\ rdr' = None /\ overflows' = overflows /\ Events' = Events
      /\ rxFifo' = IF rdr = None THEN rxFifo ELSE Append(rxFifo, rdr)
  BY <1>1, <1>2, <1>6, ReceiveRoom
<1>8. CASE hpc = "high"
  <2>1. HighInv BY <1>2, <1>8 DEF IInv, LinkInv
  <2>2. Quiet' BY <1>1, <1>2, <1>7, <2>1, ReceivedFiller DEF HighInv
  <2>3. HighInv' BY <1>1, <1>4, <1>7, <2>1, <2>2 DEF HighInv
  <2> QED BY <1>1, <1>2, <1>7, <1>8, <2>3 DEF LinkInv
<1>9. CASE hpc = "select"
  <2>1. SelectInv BY <1>2, <1>9 DEF IInv, LinkInv
  <2>2. SelectInv' BY <1>1, <1>4, <1>7, <2>1 DEF SelectInv, Selected, Fillers
  <2> QED BY <1>1, <1>2, <1>7, <1>9, <2>2 DEF LinkInv
<1>10. CASE hpc = "sleep"
  <2>1. SleepInv /\ Target \in Reg BY <1>2, <1>5, <1>10 DEF IInv, LinkInv
  <2>2. rdr = Target \/ rdr = None BY <2>1 DEF SleepInv
  <2>3. CASE rdr = Target
    <3>1. Target # None BY <2>1, Depths
    <3>2. Selected /\ Answer = 0 /\ spc = "poll" BY <2>1, <2>3, <3>1 DEF SleepInv
    <3>3. Commanded' BY <1>1, <1>2, <1>3, <1>7, <2>1, <2>3, <3>1, <3>2, ReceivedCommand
    <3>4. SleepInv' BY <1>1, <1>4, <1>7, <2>1, <3>2, <3>3 DEF SleepInv
    <3> QED BY <1>1, <1>2, <1>7, <1>10, <3>4 DEF LinkInv
  <2>4. CASE rdr = None
    <3>1. Target # None BY <2>1, Depths
    <3>2. rxFifo' = rxFifo BY <1>7, <2>4
    <3>3. (Quiet => Quiet') /\ (Commanded => Commanded')
      BY <1>1, <1>3, <3>2 DEF Quiet, Commanded, Fillers
    <3>4. SleepInv' BY <1>1, <1>3, <1>4, <1>7, <2>1, <2>4, <3>1, <3>2, <3>3 DEF SleepInv
    <3> QED BY <1>1, <1>2, <1>7, <1>10, <3>4 DEF LinkInv
  <2> QED BY <2>2, <2>3, <2>4
<1>11. CASE hpc = "read"
  <2>1. ReadInv BY <1>2, <1>11 DEF IInv, LinkInv
  <2>2. Quiet' BY <1>1, <1>2, <1>7, <2>1, ReceivedFiller DEF ReadInv
  <2>3. ReadInv' BY <1>1, <1>3, <1>4, <1>7, <2>1, <2>2 DEF ReadInv
  <2> QED BY <1>1, <1>2, <1>7, <1>11, <2>3 DEF LinkInv
<1> QED BY <1>2, <1>8, <1>9, <1>10, <1>11 DEF TypeOK

-----------------------------------------------------------------------------
\* What one poll of the server takes, and what it leaves.
LEMMA PollTakes ==
  ASSUME TypeOK, Poll
  PROVE  /\ spc = "poll" /\ rxFifo # << >> /\ (first' <=> rxFifo[1] = CS)
         /\ Len(rxFifo) \in Nat \ {0} /\ Len(rxFifo') = Len(rxFifo) - 1 /\ rxFifo' \in Seq(Event)
         /\ \A i \in 1..Len(rxFifo) - 1 : rxFifo'[i] = rxFifo[i + 1]
         /\ Events' = Events - 1
         /\ UNCHANGED <<hpc, read, got, csEdge, rdr, hwTx, overflows, late>>
         /\ ~(first /\ rxFifo[1] # CS) => UNCHANGED <<command, spc, txFifo>>
         /\ first /\ rxFifo[1] # CS =>
              command' = rxFifo[1] /\ spc' = "value" /\ NonblockingWriteFifo(<<Dummy>>)
<1>1. rxFifo \in Seq(Event) BY DEF TypeOK
<1>2. /\ spc = "poll" /\ rxFifo # << >> /\ rxFifo' = Tail(rxFifo) /\ first' = (Head(rxFifo) = CS)
      /\ UNCHANGED <<hpc, read, got, csEdge, rdr, hwTx, overflows, late>>
  BY DEF Poll, host
<1>3. /\ Head(rxFifo) = rxFifo[1] /\ rxFifo' \in Seq(Event)
      /\ Len(rxFifo) \in Nat \ {0} /\ Len(rxFifo') = Len(rxFifo) - 1
      /\ \A i \in 1..Len(rxFifo) - 1 : rxFifo'[i] = rxFifo[i + 1]
  BY <1>1, <1>2, TakeOne
<1>4. Events' = Events - 1 BY <1>2, <1>3 DEF Events
<1>5. ~(first /\ rxFifo[1] # CS) => UNCHANGED <<command, spc, txFifo>> BY <1>3 DEF Poll
<1>6. first /\ rxFifo[1] # CS =>
        command' = rxFifo[1] /\ spc' = "value" /\ NonblockingWriteFifo(<<Dummy>>)
  BY <1>3 DEF Poll
<1>7. first' <=> rxFifo[1] = CS BY <1>2, <1>3
<1> QED BY <1>2, <1>3, <1>4, <1>5, <1>6, <1>7

\* A byte of the last answer's time is dropped.
LEMMA PollQuiet ==
  ASSUME TypeOK, Poll, Quiet PROVE Quiet' /\ UNCHANGED <<command, spc, txFifo>> /\ Answer' = Answer
<1>1. rxFifo[1] = Filler /\ ~first BY PollTakes DEF Quiet, Fillers
<1>2. UNCHANGED <<command, spc, txFifo, hwTx>> /\ ~first' BY <1>1, PollTakes, Depths
<1>3. Fillers(Len(rxFifo))' BY PollTakes DEF Quiet, Fillers
<1> QED BY <1>2, <1>3 DEF Quiet, Answer

\* Up to CS# nothing is a command.
LEMMA PollSelected ==
  ASSUME TypeOK, Poll, Selected PROVE Selected' /\ UNCHANGED <<command, spc, txFifo>> /\ Answer' = Answer
<1>1. ~first /\ rxFifo[Len(rxFifo)] = CS /\ Fillers(Len(rxFifo) - 1) BY PollTakes DEF Selected
<1>2. UNCHANGED <<command, spc, txFifo, hwTx>> BY <1>1, PollTakes
<1>3. CASE Len(rxFifo) = 1
  <2>0. rxFifo[1] = CS BY <1>1, <1>3
  <2>1. first' /\ Len(rxFifo') = 0 /\ rxFifo' \in Seq(Event) BY <2>0, <1>3, PollTakes
  <2>2. rxFifo' = << >> BY <2>1, EmptySeq
  <2> QED BY <1>2, <2>1, <2>2 DEF Selected, Answer
<1>4. CASE Len(rxFifo) # 1
  <2>1. Len(rxFifo) >= 2 /\ rxFifo[1] = Filler BY <1>1, <1>4, PollTakes DEF Fillers
  <2>2. ~first' BY <2>1, PollTakes, Depths
  <2>3. rxFifo'[Len(rxFifo')] = CS /\ Fillers(Len(rxFifo) - 1)' BY <1>1, <2>1, PollTakes DEF Fillers
  <2>4. Len(rxFifo') # 0 BY <2>1, PollTakes
  <2>5. rxFifo' # << >> BY <2>4, EmptySeq
  <2> QED BY <1>2, <2>2, <2>3, <2>5 DEF Selected, Answer
<1> QED BY <1>3, <1>4

\* CS# is taken off, or the command behind it, to which a dummy byte answers.
LEMMA PollCommanded ==
  ASSUME TypeOK, Poll, Commanded, Target \in Reg, Answer = 0
  PROVE  \/ Commanded' /\ UNCHANGED <<command, spc, txFifo>> /\ Answer' = Answer
         \/ /\ command' = Target /\ spc' = "value" /\ Answer' = 1
            /\ Quiet' /\ rxFifo' = << >>
<1>1. CASE first /\ Len(rxFifo) = 1 /\ rxFifo[1] = Target
  <2>1. Target # CS /\ Target' = Target BY PollTakes, Depths DEF Target
  <2>2. command' = Target /\ spc' = "value" /\ NonblockingWriteFifo(<<Dummy>>) /\ ~first' /\ hwTx' = hwTx
    BY <1>1, <2>1, PollTakes
  <2>3. rxFifo' \in Seq(Event) /\ Len(rxFifo') = 0 BY <1>1, PollTakes
  <2>4. rxFifo' = << >> BY <2>3, EmptySeq
  <2>5. <<Dummy>> \in Seq(Byte) /\ Len(<<Dummy>>) = 1 BY DEF Byte
  <2>6. Len(txFifo) = 0 /\ Len(hwTx) = 0 BY Lengths DEF Answer
  <2>7. Len(txFifo') = 1
    <3>1. Len(txFifo) + Len(<<Dummy>>) <= TxDepth BY <2>5, <2>6, Depths
    <3>2. Len(txFifo') = Len(txFifo) + Len(<<Dummy>>) BY <2>2, <2>5, <3>1, WriteFifo
    <3> QED BY <2>5, <2>6, <3>2
  <2>8. Quiet' BY <2>2, <2>3 DEF Quiet, Fillers
  <2> QED BY <2>2, <2>4, <2>6, <2>7, <2>8 DEF Answer
<1>2. CASE /\ ~first /\ Len(rxFifo) >= 2 /\ rxFifo[Len(rxFifo)] = Target
           /\ rxFifo[Len(rxFifo) - 1] = CS /\ Fillers(Len(rxFifo) - 2)
  <2>1. UNCHANGED <<command, spc, txFifo, hwTx>> /\ Target' = Target BY <1>2, PollTakes DEF Target
  <2>2. CASE Len(rxFifo) = 2
    <3>1. rxFifo[1] = CS /\ rxFifo[2] = Target BY <1>2, <2>2
    <3>2. Len(rxFifo') = 1 /\ rxFifo'[1] = Target /\ first' BY <2>2, <3>1, PollTakes
    <3> QED BY <2>1, <3>2 DEF Commanded, Answer
  <2>3. CASE Len(rxFifo) # 2
    <3>1. Len(rxFifo) >= 3 /\ rxFifo[1] = Filler BY <1>2, <2>3, PollTakes DEF Fillers
    <3>2. ~first' BY <3>1, PollTakes, Depths
    <3>3. /\ Len(rxFifo') >= 2 /\ rxFifo'[Len(rxFifo')] = Target /\ rxFifo'[Len(rxFifo') - 1] = CS
          /\ Fillers(Len(rxFifo) - 2)'
      BY <1>2, <3>1, PollTakes DEF Fillers
    <3> QED BY <2>1, <3>2, <3>3 DEF Commanded, Answer
  <2> QED BY <2>2, <2>3
<1> QED BY <1>1, <1>2 DEF Commanded

LEMMA PollKeeps == ASSUME IInv, Poll PROVE LinkInv'
<1> SUFFICES ASSUME ~late' PROVE LinkInv' BY DEF LinkInv
<1>1. /\ spc = "poll" /\ rxFifo # << >> /\ Events' = Events - 1 /\ Events \in Nat
      /\ UNCHANGED <<hpc, read, got, csEdge, rdr, hwTx, overflows, late>>
  BY PollTakes, Lengths DEF IInv
<1>2. TypeOK /\ ~late /\ overflows = 0 /\ Target' = Target BY <1>1 DEF IInv, LinkInv, Target
<1>3. CASE hpc = "high"
  <2>1. HighInv BY <1>2, <1>3 DEF IInv, LinkInv
  <2>2. Quiet' /\ spc' = spc /\ Answer' = Answer BY <1>2, <2>1, PollQuiet DEF HighInv
  <2>3. HighInv' BY <1>1, <2>1, <2>2, Depths DEF HighInv
  <2> QED BY <1>1, <1>2, <1>3, <2>3 DEF LinkInv
<1>4. CASE hpc = "select"
  <2>1. SelectInv BY <1>2, <1>4 DEF IInv, LinkInv
  <2>2. CASE csEdge
    <3>1. Quiet' /\ spc' = spc /\ Answer' = Answer BY <1>2, <2>1, <2>2, PollQuiet DEF SelectInv
    <3>2. SelectInv' BY <1>1, <2>1, <2>2, <3>1, Depths DEF SelectInv
    <3> QED BY <1>1, <1>2, <1>4, <3>2 DEF LinkInv
  <2>3. CASE ~csEdge
    <3>1. Selected' /\ spc' = spc /\ Answer' = Answer BY <1>2, <2>1, <2>3, PollSelected DEF SelectInv
    <3>2. SelectInv' BY <1>1, <2>1, <2>3, <3>1, Depths DEF SelectInv
    <3> QED BY <1>1, <1>2, <1>4, <3>2 DEF LinkInv
  <2> QED BY <2>2, <2>3
<1>5. CASE hpc = "sleep"
  <2>1. SleepInv /\ Target \in Reg BY <1>2, <1>5, TargetType DEF IInv, LinkInv, ScriptInv
  <2>2. CASE rdr = Target /\ Answer = 0 /\ Selected
    <3>1. Selected' /\ spc' = spc /\ Answer' = Answer BY <1>2, <2>2, PollSelected
    <3>2. SleepInv' BY <1>1, <1>2, <2>1, <2>2, <3>1, Depths DEF SleepInv
    <3> QED BY <1>1, <1>2, <1>5, <3>2 DEF LinkInv
  <2>3. CASE rdr = None /\ Answer = 0 /\ Commanded
    <3>1. \/ Commanded' /\ spc' = spc /\ Answer' = Answer
          \/ command' = Target /\ spc' = "value" /\ Answer' = 1 /\ Quiet' /\ rxFifo' = << >>
      BY <1>2, <2>1, <2>3, PollCommanded
    <3>2. got' = << >> /\ ~csEdge' /\ Events' <= RxDepth /\ rdr' = None
      BY <1>1, <2>1, <2>3, Depths DEF SleepInv
    <3>3. SleepInv' BY <1>1, <1>2, <2>3, <3>1, <3>2 DEF SleepInv
    <3> QED BY <1>1, <1>2, <1>5, <3>3 DEF LinkInv
  <2> QED BY <1>1, <2>1, <2>2, <2>3 DEF SleepInv
<1>6. CASE hpc = "read"
  <2>1. ReadInv BY <1>2, <1>6 DEF IInv, LinkInv
  <2>2. Quiet' /\ UNCHANGED <<spc, txFifo>> /\ Answer' = Answer BY <1>2, <2>1, PollQuiet DEF ReadInv
  <2>3. Refilled' BY <1>1, <2>1, <2>2 DEF ReadInv, Refilled
  <2>4. Events' <= Len(got') BY <1>1, <1>2, <2>1, Lengths DEF ReadInv
  <2>5. ReadInv' BY <1>1, <1>2, <2>1, <2>2, <2>3, <2>4 DEF ReadInv
  <2> QED BY <1>1, <1>2, <1>6, <2>5 DEF LinkInv
<1> QED BY <1>2, <1>3, <1>4, <1>5, <1>6 DEF TypeOK

\* The value fits behind the dummy byte.
LEMMA OnCommandKeeps == ASSUME IInv, OnCommand PROVE LinkInv'
<1> SUFFICES ASSUME ~late' PROVE LinkInv' BY DEF LinkInv
<1>1. /\ spc = "value" /\ spc' = "poll"
      /\ UNCHANGED <<hpc, read, got, csEdge, rdr, hwTx, rxFifo, overflows, first, late>>
  BY DEF OnCommand, host
<1>2. TypeOK /\ ~late /\ overflows = 0 /\ Target' = Target BY <1>1 DEF IInv, LinkInv, Target
<1>3. hpc = "sleep" /\ SleepInv
  BY <1>1, <1>2 DEF TypeOK, IInv, LinkInv, HighInv, SelectInv, ReadInv
<1>4. Target \in Reg BY <1>2, <1>3, TargetType DEF IInv, ScriptInv
<1>5. rdr = None /\ Answer = 1 /\ command = Target /\ Quiet /\ rxFifo = << >> BY <1>1, <1>3 DEF SleepInv
<1>6. /\ Bytes(Target, ver[Target]) \in Seq(Byte)
      /\ Len(Bytes(Target, ver[Target])) = Size[Target]
      /\ NonblockingWriteFifo(Bytes(Target, ver[Target]))
  BY <1>2, <1>4, <1>5, BytesType DEF TypeOK, OnCommand
<1>7. Len(txFifo) + Size[Target] <= TxDepth BY <1>2, <1>4, <1>5, Lengths, Depths DEF Answer
<1>8. Len(txFifo') = Len(txFifo) + Size[Target] BY <1>2, <1>6, <1>7, WriteFifo
<1>9. Answer' = Size[Target] + 1 BY <1>1, <1>2, <1>4, <1>5, <1>8, Lengths, Depths DEF Answer
<1>10. Quiet' /\ Events' = Events BY <1>1, <1>5 DEF Quiet, Fillers, Events
<1>11. SleepInv' BY <1>1, <1>2, <1>3, <1>5, <1>9, <1>10 DEF SleepInv
<1> QED BY <1>1, <1>2, <1>3, <1>11 DEF LinkInv

\* What LinkInv speaks of is left alone by a sensor, and by a step that is none.
LEMMA OthersKeep ==
  ASSUME LinkInv, UNCHANGED <<host, periph, fifos, server, late>> PROVE LinkInv'
BY DEF LinkInv, HighInv, SelectInv, SleepInv, ReadInv, Answer, Events, Quiet, Selected, Commanded, Refilled,
       Fillers, Target, host, periph, fifos, server

-----------------------------------------------------------------------------
\* The invariant is inductive: whatever the order of the host's transfers, the
\* handlers and the polls, the bus is at one of the places LinkInv lists.
THEOREM Inductive == Spec => []IInv
<1>1. Init => IInv
  <2> SUFFICES ASSUME Init PROVE IInv OBVIOUS
  <2>1. << >> \in Seq(Byte) /\ << >> \in Seq(Event) /\ Len(<< >>) = 0 OBVIOUS
  <2>2. TypeOK
    <3>1. /\ hpc \in {"high", "select", "sleep", "read"} /\ read \in 1..Len(Script) + 1
          /\ got \in Seq(Byte) /\ copy \in [Reg -> Seq(Byte)]
      BY <2>1, Depths DEF Init
    <3>2. csEdge \in BOOLEAN /\ rdr \in Reg \cup {Filler, None} /\ txeie \in BOOLEAN BY DEF Init
    <3>3. /\ hwTx \in Seq(Byte) /\ Len(hwTx) <= HwDepth /\ rxFifo \in Seq(Event) /\ Len(rxFifo) <= RxDepth
          /\ txFifo \in Seq(Byte) /\ Len(txFifo) <= TxDepth
      BY <2>1, Depths DEF Init
    <3>4. /\ overflows \in Nat /\ spc \in {"poll", "value"} /\ command \in Reg \cup {Filler, None}
          /\ first \in BOOLEAN /\ ver \in [Reg -> Nat] /\ late \in BOOLEAN
      BY DEF Init
    <3> QED BY <3>1, <3>2, <3>3, <3>4 DEF TypeOK
  <2>3. ScriptInv BY DEF Init, ScriptInv
  <2>4. /\ hpc = "high" /\ overflows = 0 /\ Answer = 0 /\ spc = "poll" /\ Quiet /\ ~csEdge
        /\ rdr = None /\ Events = 0
    BY <2>1 DEF Init, Answer, Quiet, Fillers, Events
  <2>5. RxDepth >= 2
    <3>1. PICK r \in Reg : TRUE BY LinkAssumption
    <3> QED BY <3>1, Depths
  <2> QED BY <2>2, <2>3, <2>4, <2>5 DEF IInv, LinkInv, HighInv
<1>2. IInv /\ [Next]_vars => IInv'
  <2> SUFFICES ASSUME IInv, [Next]_vars PROVE IInv' OBVIOUS
  <2>1. TypeOK /\ ScriptInv /\ LinkInv BY DEF IInv
  <2>2. CASE Host
    <3>1. LinkInv'
      BY <2>2, SelectKeeps, WriteKeeps, WakeUpKeeps, ReadKeeps, DeselectKeeps DEF Host
    <3> QED BY <2>1, <2>2, <3>1, HostType DEF IInv
  <2>3. CASE ISR
    <3>1. LinkInv' BY <2>3, CSHandlerKeeps, SPIHandlerKeeps DEF ISR
    <3> QED BY <2>1, <2>3, <3>1, ISRType DEF IInv
  <2>4. CASE Loop
    <3>1. LinkInv' BY <2>4, PollKeeps, OnCommandKeeps DEF Loop
    <3> QED BY <2>1, <2>4, <3>1, LoopType DEF IInv
  <2>5. ASSUME NEW r \in Sensor, PollIBCSensors(r) PROVE IInv'
    <3>1. LinkInv' BY <2>1, <2>5, OthersKeep DEF PollIBCSensors
    <3> QED BY <2>1, <2>5, <3>1, SensorType DEF IInv
  <2>6. CASE UNCHANGED vars
    <3>1. LinkInv' BY <2>1, <2>6, OthersKeep DEF vars
    <3> QED BY <2>1, <2>6, <3>1 DEF IInv, TypeOK, ScriptInv, vars, host, periph, fifos, server
  <2> QED BY <2>2, <2>3, <2>4, <2>5, <2>6 DEF Next
<1> QED BY <1>1, <1>2, PTL DEF Spec

\* TypeOK, for every set of registers, script and depth of the FIFOs.
THEOREM TypeCorrect == Spec => []TypeOK
<1>1. IInv => TypeOK BY DEF IInv
<1> QED BY <1>1, Inductive, PTL

\* NoOverflow: SPIReceiveFifo never drops a byte of a transaction that was in
\* time, as each place of LinkInv leaves room for what is still to come.
THEOREM NeverOverflows == Spec => []NoOverflow
<1>1. IInv => NoOverflow BY DEF IInv, LinkInv, NoOverflow
<1> QED BY <1>1, Inductive, PTL

\* NoResidue: a transaction in time has been read to its last byte when CS#
\* rises; the next answer starts with its own dummy byte.
THEOREM NothingLeft == Spec => []NoResidue
<1>1. IInv => NoResidue
  <2> SUFFICES ASSUME IInv, ~late, hpc = "high" PROVE hwTx = << >> /\ txFifo = << >> BY DEF NoResidue
  <2>1. Answer = 0 /\ TypeOK BY DEF IInv, LinkInv, HighInv
  <2> QED BY <2>1, Lengths DEF Answer
<1> QED BY <1>1, Inductive, PTL

\* CommandsFramed, on any sequence of events.
Framed(p) == \A i \in 1..Len(p) : p[i] \in Reg <=> IF i = 1 THEN first ELSE p[i - 1] = CS

\* Bytes of the last answer's time frame nothing, with another one behind or not.
LEMMA QuietFramed ==
  ASSUME TypeOK, Quiet, rdr \in {None, Filler} PROVE Framed(Pending)
<1>1. CASE rdr = None BY <1>1, Depths DEF Quiet, Fillers, Framed, Pending
<1>2. CASE rdr = Filler
  <2>1. Pending = Append(rxFifo, Filler) BY <1>2, Depths DEF Pending
  <2>2. rxFifo \in Seq(Event) /\ Filler \in Event BY DEF TypeOK, Event
  <2>3. /\ Len(rxFifo) \in Nat /\ Len(Pending) = Len(rxFifo) + 1 /\ Pending[Len(rxFifo) + 1] = Filler
        /\ \A i \in 1..Len(rxFifo) : Pending[i] = rxFifo[i]
    BY <2>1, <2>2, PutOne
  <2>4. \A i \in 1..Len(Pending) : Pending[i] = Filler BY <2>3 DEF Quiet, Fillers
  <2> HIDE DEF Pending
  <2> QED BY <2>4, Depths DEF Quiet, Framed
<1> QED BY <1>1, <1>2

\* CS# at the end frames nothing yet.
LEMMA SelectedFramed ==
  ASSUME TypeOK, Selected PROVE Framed(rxFifo)
<1>1. CASE first /\ rxFifo = << >> BY <1>1, Lengths DEF Framed
<1>2. CASE ~first /\ rxFifo[Len(rxFifo)] = CS /\ Fillers(Len(rxFifo) - 1)
  <2>1. Len(rxFifo) \in Nat BY Lengths
  <2> QED BY <1>2, <2>1, Depths, LinkAssumption DEF Fillers, Framed
<1> QED BY <1>1, <1>2 DEF Selected

\* Behind it stands its command.
LEMMA CommandedFramed ==
  ASSUME TypeOK, Commanded, Target \in Reg PROVE Framed(rxFifo)
<1>1. CASE first /\ Len(rxFifo) = 1 /\ rxFifo[1] = Target BY <1>1 DEF Framed
<1>2. CASE /\ ~first /\ Len(rxFifo) >= 2 /\ rxFifo[Len(rxFifo)] = Target
           /\ rxFifo[Len(rxFifo) - 1] = CS /\ Fillers(Len(rxFifo) - 2)
  <2>1. Len(rxFifo) \in Nat BY Lengths
  <2>2. CS \notin Reg /\ Filler \notin Reg /\ Filler # CS BY LinkAssumption
  <2>3. ASSUME NEW i \in 1..Len(rxFifo)
        PROVE  rxFifo[i] \in Reg <=> IF i = 1 THEN first ELSE rxFifo[i - 1] = CS
    <3>1. CASE i = Len(rxFifo) BY <1>2, <2>1, <3>1
    <3>2. CASE i = Len(rxFifo) - 1
      <4>1. i # 1 => i - 1 \in 1..Len(rxFifo) - 2 BY <2>1, <3>2
      <4> QED BY <1>2, <2>2, <3>2, <4>1 DEF Fillers
    <3>3. CASE i <= Len(rxFifo) - 2
      <4>1. i \in 1..Len(rxFifo) - 2 /\ (i # 1 => i - 1 \in 1..Len(rxFifo) - 2) BY <2>1, <3>3
      <4> QED BY <1>2, <2>2, <4>1 DEF Fillers
    <3> QED BY <2>1, <3>1, <3>2, <3>3
  <2> QED BY <2>3 DEF Framed
<1> QED BY <1>1, <1>2 DEF Commanded

\* The command in the receive register, behind CS# in the FIFO.
LEMMA LastFramed ==
  ASSUME TypeOK, Selected, Target \in Reg, rdr = Target PROVE Framed(Pending)
<1>1. Pending = Append(rxFifo, Target) BY Depths DEF Pending
<1>2. rxFifo \in Seq(Event) /\ Target \in Event BY DEF TypeOK, Event
<1>3. /\ Len(rxFifo) \in Nat /\ Len(Pending) = Len(rxFifo) + 1 /\ Pending[Len(rxFifo) + 1] = Target
      /\ \A i \in 1..Len(rxFifo) : Pending[i] = rxFifo[i]
  BY <1>1, <1>2, PutOne
<1>4. Framed(rxFifo) BY SelectedFramed
<1>5. IF Len(rxFifo) = 0 THEN first ELSE rxFifo[Len(rxFifo)] = CS BY Lengths DEF Selected
<1> HIDE DEF Pending
<1>6. ASSUME NEW i \in 1..Len(Pending)
      PROVE  Pending[i] \in Reg <=> IF i = 1 THEN first ELSE Pending[i - 1] = CS
  <2>1. CASE i = Len(rxFifo) + 1 BY <1>3, <1>5, <2>1
  <2>2. CASE i <= Len(rxFifo)
    <3>1. /\ i \in 1..Len(rxFifo) /\ Pending[i] = rxFifo[i]
          /\ (i # 1 => Pending[i - 1] = rxFifo[i - 1])
      BY <1>3, <2>2
    <3> QED BY <1>4, <3>1 DEF Framed
  <2> QED BY <1>3, <2>1, <2>2
<1> QED BY <1>6 DEF Framed

\* CommandsFramed: at each place of LinkInv the server has bytes of the last
\* answer's time to see, then the falling CS#, then the command.
THEOREM AllFramed == Spec => []CommandsFramed
<1>1. IInv => CommandsFramed
  <2> SUFFICES ASSUME IInv, ~late PROVE Framed(Pending) BY DEF CommandsFramed, Framed
  <2>1. TypeOK /\ (hpc # "high" => Target \in Reg) BY TargetType DEF IInv, ScriptInv
  <2>2. CASE hpc \in {"high", "read"}
    <3>1. Quiet /\ rdr \in {None, Filler} BY <2>2 DEF IInv, LinkInv, HighInv, ReadInv
    <3> QED BY <2>1, <3>1, QuietFramed
  <2>3. CASE hpc = "select"
    <3>1. SelectInv BY <2>3 DEF IInv, LinkInv
    <3>2. Quiet \/ Selected BY <3>1 DEF SelectInv
    <3>3. rdr = None /\ Pending = rxFifo BY <3>1 DEF SelectInv, Pending
    <3> QED BY <2>1, <3>2, <3>3, QuietFramed, SelectedFramed
  <2>4. CASE hpc = "sleep"
    <3>1. SleepInv BY <2>4 DEF IInv, LinkInv
    <3>2. (rdr = Target /\ Selected) \/ (rdr = None /\ (Commanded \/ Quiet)) BY <3>1 DEF SleepInv
    <3>3. CASE rdr = Target /\ Selected BY <2>1, <2>4, <3>3, LastFramed
    <3>4. CASE rdr = None /\ (Commanded \/ Quiet)
      <4>1. Pending = rxFifo BY <3>4 DEF Pending
      <4> QED BY <2>1, <2>4, <3>4, <4>1, QuietFramed, CommandedFramed
    <3> QED BY <3>2, <3>3, <3>4
  <2> QED BY <2>1, <2>2, <2>3, <2>4 DEF TypeOK
<1> QED BY <1>1, Inductive, PTL

-----------------------------------------------------------------------------
(* The refinement of RegisterRead.                                         *)

\* How long the three parts of InTransit are together.
LEMMA LengthOfThree ==
  ASSUME NEW S, NEW s \in Seq(S), NEW t \in Seq(S), NEW u \in Seq(S)
  PROVE  (s \o t) \o u \in Seq(S) /\ Len((s \o t) \o u) = Len(s) + Len(t) + Len(u)
<1>1. s \o t \in Seq(S) /\ Len(s \o t) = Len(s) + Len(t) BY ConcatProperties
<1> QED BY <1>1, ConcatProperties

\* What is on the way to the main MCU, and how much, before and after a step.
LEMMA TransitLength ==
  ASSUME TypeOK, TypeOK'
  PROVE  /\ InTransit \in Seq(Byte) /\ Len(InTransit) = Len(got) + Answer
         /\ InTransit' \in Seq(Byte) /\ Len(InTransit') = Len(got') + Answer'
         /\ Len(got) \in Nat /\ Len(got') \in Nat /\ Answer \in Nat /\ Answer' \in Nat
<1>1. /\ got \in Seq(Byte) /\ hwTx \in Seq(Byte) /\ txFifo \in Seq(Byte)
      /\ got' \in Seq(Byte) /\ hwTx' \in Seq(Byte) /\ txFifo' \in Seq(Byte)
  BY DEF TypeOK
<1>2. /\ Len(got) \in Nat /\ Len(hwTx) \in Nat /\ Len(txFifo) \in Nat
      /\ Len(got') \in Nat /\ Len(hwTx') \in Nat /\ Len(txFifo') \in Nat
  BY <1>1, LenProperties
<1>3. InTransit \in Seq(Byte) /\ Len(InTransit) = Len(got) + Len(hwTx) + Len(txFifo)
  BY <1>1, LengthOfThree DEF InTransit
<1>4. InTransit' \in Seq(Byte) /\ Len(InTransit') = Len(got') + Len(hwTx') + Len(txFifo')
  BY <1>1, LengthOfThree DEF InTransit
<1> QED BY <1>2, <1>3, <1>4 DEF Answer

\* The first byte of the one sequence becomes the last of the other.
LEMMA MoveOne ==
  ASSUME NEW S, NEW s \in Seq(S), NEW t \in Seq(S), t # << >>
  PROVE  Append(s, Head(t)) \o Tail(t) = s \o t
OBVIOUS

\* Behind a single byte the rest is the tail.
LEMMA TailOfOne ==
  ASSUME NEW S, NEW s \in Seq(S), NEW t \in Seq(S), Len(s) = 1
  PROVE  Tail(s \o t) = t
<1>1. Len(t) \in Nat BY LenProperties
<1>2. s \o t \in Seq(S) /\ Len(s \o t) = 1 + Len(t)
  BY ConcatProperties
<1>3. \A i \in 1..Len(t) : (s \o t)[i + 1] = t[i]
  <2> TAKE i \in 1..Len(t)
  <2>1. i + 1 \in 1..Len(s) + Len(t) /\ ~(i + 1 <= Len(s)) /\ (i + 1) - Len(s) = i BY <1>1
  <2> QED BY <2>1, ConcatProperties
<1>4. s \o t # << >> BY <1>1, <1>2, EmptySeq
<1>5. /\ Tail(s \o t) \in Seq(S) /\ Len(Tail(s \o t)) = Len(t)
      /\ \A i \in 1..Len(t) : Tail(s \o t)[i] = (s \o t)[i + 1]
  BY <1>1, <1>2, <1>4, TakeOne
<1>6. \A i \in 1..Len(t) : Tail(s \o t)[i] = t[i] BY <1>3, <1>5
<1> QED BY <1>5, <1>6, SeqEqual

\* Moves of bytes inside the link are no steps of the abstract register read.
LEMMA Stutters ==
  ASSUME hpc = "high" <=> hpc' = "high", UNCHANGED <<read, copy, ver, late>>,
         hpc # "high" => \/ InTransit' = InTransit
                         \/ /\ Len(InTransit) # Size[Target] + 1
                            /\ Len(InTransit') # Size[Target] + 1
  PROVE  UNCHANGED Abstract!vars
<1>1. Target' = Target BY DEF Target
<1>2. CASE hpc = "high" BY <1>1, <1>2 DEF Abstract!vars
<1>3. CASE hpc # "high" BY <1>1, <1>3 DEF Abstract!vars
<1> QED BY <1>2, <1>3

LEMMA SelectAsks == ASSUME IInv, IInv', SelectSupervisor, ~late' PROVE Abstract!Next
<1>1. /\ hpc = "high" /\ read <= Len(Script) /\ hpc' = "select"
      /\ UNCHANGED <<read, copy, ver>> /\ ~late
  BY DEF SelectSupervisor
<1>2. Target \in Reg /\ Target' = Target BY <1>1, TargetType DEF IInv, Target
<1>3. got' = << >> /\ Answer' = 0 /\ TypeOK' BY <1>1 DEF IInv, LinkInv, SelectInv
<1>4. Len(InTransit') = Len(got') + Answer' /\ Len(got') = 0 BY <1>3, TransitLength, EmptySeq DEF IInv
<1>5. Len(InTransit') # Size[Target] + 1 BY <1>2, <1>3, <1>4, Depths
<1>6. Abstract!Ask(Target) BY <1>1, <1>2, <1>5 DEF Abstract!Ask
<1> QED BY <1>2, <1>6 DEF Abstract!Next

LEMMA ReadStutters == ASSUME IInv, IInv', ReadByte, ~late' PROVE UNCHANGED Abstract!vars
<1>1. /\ hpc = "read" /\ Shift(Filler) /\ got' = Append(got, Miso) /\ UNCHANGED <<hpc, read, copy>>
      /\ late' = late
  BY ShiftInTime DEF ReadByte, IInv, TypeOK
<1>2. hwTx # << >> /\ TypeOK BY ByteReady DEF IInv
<1>3. /\ hwTx' = Tail(hwTx) /\ got' = Append(got, Head(hwTx)) /\ UNCHANGED <<txFifo, ver>>
  BY <1>1, <1>2 DEF Shift, Miso, fifos
<1>4. got \in Seq(Byte) /\ hwTx \in Seq(Byte) BY <1>2 DEF TypeOK
<1>5. got' \o hwTx' = got \o hwTx BY <1>2, <1>3, <1>4, MoveOne
<1>6. InTransit' = InTransit BY <1>3, <1>5 DEF InTransit
<1> QED BY <1>1, <1>3, <1>6, Stutters

LEMMA DeselectReturns == ASSUME IInv, IInv', DeselectSupervisor, ~late PROVE Abstract!Next
<1>1. /\ hpc = "read" /\ Len(got) = Size[Target] + 1 /\ hpc' = "high" /\ read' = read + 1
      /\ copy' = [copy EXCEPT ![Buffer[Target]] = Tail(got)] /\ UNCHANGED <<ver, late>>
  BY DEF DeselectSupervisor
<1>2. TypeOK /\ ReadInv /\ Target \in Reg BY <1>1, TargetType DEF IInv, LinkInv, ScriptInv
<1>3. Answer = 0 /\ Size[Target] \in Nat BY <1>1, <1>2, Lengths, Depths DEF ReadInv
<1>4. hwTx = << >> /\ txFifo = << >> /\ got \in Seq(Byte) BY <1>2, <1>3, Lengths DEF Answer, TypeOK
<1>5. InTransit = got
  <2>1. got \o << >> = got BY <1>4, ConcatEmptySeq
  <2> QED BY <1>4, <2>1 DEF InTransit
<1>6. read \in Nat \ {0} /\ read' # 1 /\ read' - 1 = read BY <1>1, <1>2, Depths DEF TypeOK
<1>7. copy'[Buffer[Target]] = Tail(got)
  <2>1. Buffer[Target] \in Reg BY <1>2, LinkAssumption
  <2> QED BY <1>1, <1>2, <2>1 DEF TypeOK
<1>8. copy'[Buffer[Script[read' - 1]]] = Tail(got) BY <1>6, <1>7 DEF Target
<1>9. Target # None BY <1>2, Depths
<1>10. Abstract!Return BY <1>1, <1>5, <1>6, <1>8, <1>9 DEF Abstract!Return
<1> QED BY <1>10 DEF Abstract!Next

\* The handlers do not touch the answer, but move it on.
LEMMA ISRStutters == ASSUME IInv, IInv', ISR, ~late PROVE UNCHANGED Abstract!vars
<1>1. UNCHANGED <<hpc, read, got, copy, ver, late>> BY DEF ISR, SPI_CSHandler, SPI1_Handler, host
<1>2. got \in Seq(Byte) /\ hwTx \in Seq(Byte) /\ txFifo \in Seq(Byte) BY DEF IInv, TypeOK
<1>3. InTransit' = InTransit
  <2>1. CASE UNCHANGED <<hwTx, txFifo>> BY <1>1, <2>1 DEF InTransit
  <2>2. CASE txFifo # << >> /\ hwTx' = Append(hwTx, Head(txFifo)) /\ txFifo' = Tail(txFifo)
    <3>1. Head(txFifo) \in Byte /\ Tail(txFifo) \in Seq(Byte) BY <1>2, <2>2, TakeOne
    <3>2. hwTx' \in Seq(Byte) /\ txFifo' \in Seq(Byte) BY <1>2, <2>2, <3>1, PutOne
    <3>3. hwTx' \o txFifo' = hwTx \o txFifo BY <1>2, <2>2, MoveOne
    <3>4. (got \o hwTx') \o txFifo' = got \o (hwTx' \o txFifo') BY <1>2, <3>2, ConcatAssociative
    <3>5. (got \o hwTx) \o txFifo = got \o (hwTx \o txFifo) BY <1>2, ConcatAssociative
    <3> QED BY <1>1, <3>3, <3>4, <3>5 DEF InTransit
  <2>3. UNCHANGED <<hwTx, txFifo>> \/ (txFifo # << >> /\ hwTx' = Append(hwTx, Head(txFifo)) /\ txFifo' = Tail(txFifo))
    BY DEF ISR, SPI_CSHandler, SPI1_Handler, TransmitByte
  <2> QED BY <2>1, <2>2, <2>3
<1> QED BY <1>1, <1>3, Stutters

\* A dummy byte alone is no sample: the value is not longer than the buffer.
LEMMA PollStutters == ASSUME IInv, IInv', Poll, ~late PROVE UNCHANGED Abstract!vars
<1>1. UNCHANGED <<hpc, read, got, copy, hwTx, ver, late>> BY DEF Poll, host
<1>2. TypeOK /\ TypeOK' /\ Target' = Target BY <1>1 DEF IInv, Target
<1>3. hpc # "high" => Target \in Reg BY <1>2, TargetType DEF IInv, ScriptInv
<1>4. CASE txFifo' = txFifo BY <1>1, <1>4, Stutters DEF InTransit
<1>5. CASE hpc = "high" BY <1>1, <1>5, Stutters
<1>6. CASE txFifo' # txFifo /\ hpc # "high"
  <2>1. spc' = "value" BY <1>6, PollTakes, <1>2
  <2>2. hpc' = "sleep" /\ SleepInv'
    BY <1>1, <1>2, <2>1 DEF IInv, TypeOK, LinkInv, HighInv, SelectInv, ReadInv
  <2>3. got = << >> /\ Answer' = 1 BY <1>1, <2>1, <2>2 DEF SleepInv
  <2>4. SleepInv /\ spc = "poll" /\ rxFifo # << >> BY <1>1, <1>2, <2>2, PollTakes DEF IInv, LinkInv
  <2>5. Answer = 0 BY <2>4 DEF SleepInv
  <2>6. Len(InTransit) = 0 /\ Len(InTransit') = 1 BY <1>1, <1>2, <2>3, <2>5, TransitLength, EmptySeq
  <2>7. Size[Target] + 1 # 0 /\ Size[Target] + 1 # 1 BY <1>3, <1>6, Depths
  <2> QED BY <1>1, <1>6, <2>6, <2>7, Stutters
<1> QED BY <1>4, <1>5, <1>6

\* The value is sampled in one step, as the server's loop runs to its end
\* before PollIBCSensors can change it.
LEMMA OnCommandSamples == ASSUME IInv, IInv', OnCommand, ~late PROVE Abstract!Next
<1>1. /\ spc = "value" /\ spc' = "poll"
      /\ UNCHANGED <<hpc, read, got, copy, rdr, hwTx, rxFifo, ver, late>>
  BY DEF OnCommand, host
<1>2. TypeOK /\ TypeOK' /\ Target' = Target BY <1>1 DEF IInv, Target
<1>3. hpc = "sleep" /\ SleepInv
  BY <1>1, <1>2 DEF TypeOK, IInv, LinkInv, HighInv, SelectInv, ReadInv
<1>4. Target \in Reg /\ Target # None /\ Size[Target] \in Nat \ {0} BY <1>2, <1>3, TargetType, Depths DEF IInv, ScriptInv
<1>5. Answer = 1 /\ command = Target /\ got = << >> BY <1>1, <1>3 DEF SleepInv
<1> DEFINE value == Bytes(Target, ver[Target])
<1>6. value \in Seq(Byte) /\ Len(value) = Size[Target] /\ NonblockingWriteFifo(value)
  BY <1>2, <1>4, <1>5, BytesType DEF TypeOK, OnCommand
<1>7. value = Abstract!Bytes(Target, ver[Target]) BY DEF Bytes, Abstract!Bytes
<1> HIDE DEF value
<1>8. Len(txFifo) + Len(value) <= TxDepth BY <1>2, <1>4, <1>5, <1>6, Lengths, Depths DEF Answer
<1>9. txFifo' = txFifo \o value BY <1>2, <1>6, <1>8, WriteFifo
<1>10. Len(InTransit) = 1 BY <1>2, <1>5, TransitLength, EmptySeq
<1>11. InTransit' = InTransit \o value
  <2>1. got \in Seq(Byte) /\ hwTx \in Seq(Byte) /\ txFifo \in Seq(Byte) BY <1>2 DEF TypeOK
  <2>2. got \o hwTx \in Seq(Byte) BY <2>1, ConcatProperties
  <2>3. ((got \o hwTx) \o txFifo) \o value = (got \o hwTx) \o (txFifo \o value)
    BY <2>1, <2>2, <1>6, ConcatAssociative
  <2> QED BY <1>1, <1>9, <2>3 DEF InTransit
<1>12. InTransit \in Seq(Byte) BY <1>2, TransitLength
<1>13. Tail(InTransit') = value /\ Len(InTransit') = Size[Target] + 1
  <2>1. Len(InTransit \o value) = 1 + Size[Target]
    <3>1. Len(InTransit \o value) = Len(InTransit) + Len(value) BY <1>6, <1>12, ConcatProperties
    <3> QED BY <1>6, <1>10, <3>1
  <2>2. Tail(InTransit \o value) = value BY <1>6, <1>10, <1>12, TailOfOne
  <2> QED BY <1>4, <1>11, <2>1, <2>2
<1>14. Len(InTransit) # Size[Target] + 1 BY <1>4, <1>10
<1>15. Abstract!Sample BY <1>1, <1>2, <1>3, <1>4, <1>7, <1>13, <1>14 DEF Abstract!Sample
<1> QED BY <1>1, <1>15 DEF Abstract!Next

LEMMA OtherStutters ==
  ASSUME IInv, IInv', WriteRegister \/ WakeUp, ~late' PROVE UNCHANGED Abstract!vars
<1>1. CASE WakeUp
  <2>1. InTransit' = InTransit BY <1>1 DEF WakeUp, InTransit, periph, fifos
  <2>2. hpc # "high" /\ hpc' # "high" /\ UNCHANGED <<read, copy, ver>> BY <1>1 DEF WakeUp
  <2>3. ~late BY <1>1 DEF WakeUp
  <2>4. late' = late BY <2>3 DEF IInv, TypeOK
  <2> QED BY <2>1, <2>2, <2>4, Stutters
<1>2. CASE WriteRegister
  <2>1. /\ hpc = "select" /\ hpc' = "sleep" /\ Shift(Target) /\ UNCHANGED <<read, got, copy>>
    BY <1>2 DEF WriteRegister
  <2>2. TypeOK /\ TypeOK' /\ SelectInv /\ ~late BY <2>1, ShiftInTime DEF IInv, LinkInv
  <2>3. UNCHANGED <<txFifo, ver>> /\ hwTx' = IF hwTx = << >> THEN << >> ELSE Tail(hwTx)
    BY <2>1 DEF Shift, fifos
  <2>4. hwTx = << >> BY <2>2, Lengths DEF SelectInv, Answer
  <2>5. InTransit' = InTransit BY <2>1, <2>3, <2>4 DEF InTransit
  <2>6. late' = late BY <2>2 DEF TypeOK
  <2> QED BY <2>1, <2>3, <2>5, <2>6, Stutters
<1> QED BY <1>1, <1>2

\* ReadsAreAtomic: while the supervisor is in time every read returns one
\* value of its own register, sampled in the middle of the read.
THEOREM Refinement == Spec => ReadsAreAtomic
<1>1. Init => Abstract!Init
  <2> SUFFICES ASSUME Init PROVE Abstract!Init OBVIOUS
  <2> QED BY DEF Init, Abstract!Init
<1>2. IInv /\ IInv' /\ [Next]_vars => [Abstract!Next]_(Abstract!vars)
  <2> SUFFICES ASSUME IInv, IInv', [Next]_vars PROVE Abstract!Next \/ UNCHANGED Abstract!vars
    OBVIOUS
  <2>1. CASE late'
    <3>1. Abstract!Late BY <2>1 DEF Abstract!Late
    <3> QED BY <3>1 DEF Abstract!Next
  <2>2. CASE ~late'
    <3>1. ~late
      BY <2>2 DEF Next, vars, Host, ISR, Loop, SelectSupervisor, WriteRegister, WakeUp, ReadByte,
                  DeselectSupervisor, SPI_CSHandler, SPI1_Handler, Poll, OnCommand, PollIBCSensors, Shift
    <3>2. CASE Host
      BY <2>2, <3>1, <3>2, SelectAsks, OtherStutters, ReadStutters, DeselectReturns DEF Host
    <3>3. CASE ISR BY <3>1, <3>3, ISRStutters
    <3>4. CASE Loop BY <3>1, <3>4, PollStutters, OnCommandSamples DEF Loop
    <3>5. ASSUME NEW r \in Sensor, PollIBCSensors(r) PROVE Abstract!Next
      <4>1. /\ ver' = [ver EXCEPT ![r] = @ + 1] /\ r \in Reg
            /\ UNCHANGED <<hpc, read, got, copy, hwTx, txFifo, late>>
        BY <3>5, LinkAssumption DEF PollIBCSensors, host, periph, fifos
      <4>2. InTransit' = InTransit /\ Target' = Target BY <4>1 DEF InTransit, Target
      <4>3. Abstract!Change(r) BY <4>1, <4>2 DEF Abstract!Change
      <4> QED BY <4>1, <4>3 DEF Abstract!Next
    <3>6. CASE UNCHANGED vars
      <4>1. UNCHANGED <<hpc, read, got, copy, hwTx, txFifo, ver, late>> BY <3>6 DEF vars, host, periph, fifos
      <4>2. InTransit' = InTransit BY <4>1 DEF InTransit
      <4> QED BY <4>1, <4>2, Stutters
    <3> QED BY <3>2, <3>3, <3>4, <3>5, <3>6 DEF Next
  <2> QED BY <2>1, <2>2
<1> QED BY <1>1, <1>2, Inductive, PTL DEF Spec, ReadsAreAtomic, Abstract!Spec
=============================================================================
