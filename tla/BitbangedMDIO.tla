---------------------------- MODULE BitbangedMDIO ----------------------------
(***************************************************************************)
(* BitbangedMDIOInterface of baset1-media-converter, wire by wire: what it *)
(* puts on MDIO before each clock, when it lets go of the line and when it *)
(* samples it, against a PHY that reacts to each rising edge as IEEE 802.3 *)
(* clause 22 says.  A word is the sequence of its bits in the order in     *)
(* which they are shifted, the highest first; its width is a constant.     *)
(***************************************************************************)
EXTENDS Integers, Sequences

CONSTANTS
  AddrBits, DataBits,  \* 5 and 16
  Preamble,            \* 32: the ones a PHY waits for
  PhyAddr,             \* PHY_ADDR_SPE, PHY_ADDR_BASET
  MmdCtrl, MmdData,    \* registers 0x0d and 0x0e
  DataNoInc,           \* the bit 0x4000, "data, no post inc"
  Target, Status       \* as in Mdio: <<Direct, r>> or <<m, r>> in MMD m

Bit     == {0, 1}
Word(n) == [1..n -> Bit]
Addr    == Word(AddrBits)
Value   == Word(DataBits)
Zero    == [i \in 1..DataBits |-> 0]
Direct  == << >>

ASSUME BitbangedAssumption ==
  /\ AddrBits \in Nat \ {0} /\ DataBits \in Nat \ {0} /\ Preamble \in Nat \ {0}
  /\ {PhyAddr, MmdCtrl, MmdData} \subseteq Addr /\ MmdCtrl # MmdData
  /\ DataNoInc \in 1..DataBits
  /\ Target \subseteq ({Direct} \X (Addr \ {MmdCtrl, MmdData}))
                     \cup ({m \in Value : \A i \in 1..DataNoInc : m[i] = 0} \X Value)
  /\ Status \subseteq Target /\ Target # {}

VARIABLES
  regs,    \* the PHY's registers
  call,    \* the call in progress, or the last one
  frames,  \* its frames from the current one on
  clocks,  \* clocks since the current frame began
  m_ioSet,   \* m_io is set up for the next clock
  ioOut, ioBit,  \* m_io: driven?  and the level written to it
  ret,     \* ret of Read
  ones,    \* PHY: ones since the last frame, up to Preamble
  bits,    \* PHY: the bits of the frame it is receiving
  answer,  \* PHY: the value it is sending
  mmd      \* PHY: the MMD control and address registers

host == <<call, frames, clocks, m_ioSet, ioOut, ioBit, ret>>
phy  == <<ones, bits, answer, mmd>>
busvars == <<regs, host, phy>>

Times(n, x)   == [i \in 1..n |-> x]
ShiftIn(w, b) == [i \in 1..DataBits |-> IF i = DataBits THEN b ELSE w[i + 1]]

-----------------------------------------------------------------------------
(* The host: for each clock of a frame, what m_io does before it.          *)

Float  == [out |-> FALSE, bit |-> 0, sample |-> FALSE]
Sample == [out |-> FALSE, bit |-> 0, sample |-> TRUE]
Put(s) == [i \in 1..Len(s) |-> [out |-> TRUE, bit |-> s[i], sample |-> FALSE]]

Addresses(reg) == PhyAddr \o reg

\* Mutant: no turn-around: m_io is still driven for the first of its clocks.
ReadDrivesTurnaround(reg) ==
  Times(Preamble, Float) \o Put(<<0, 1, 1, 0>> \o Addresses(reg) \o <<1>>)
  \o <<Float>> \o Times(DataBits, Sample)

\* Read: preamble floating high, start, opcode, addresses, turn-around, reply.
Read(reg) ==
  Times(Preamble, Float) \o Put(<<0, 1, 1, 0>> \o Addresses(reg))
  \o <<Float, Float>> \o Times(DataBits, Sample)

\* Mutant: the loop over the data runs once too often.
WriteOneBitMore(reg, val) ==
  Times(Preamble, Float)
  \o Put(<<0, 1, 0, 1>> \o Addresses(reg) \o <<1, 0>> \o val \o <<0>>)
  \o <<Float, Float>>

\* Write: ... constant 2'b10 in the turn-around slot, data, two idle clocks.
Write(reg, val) ==
  Times(Preamble, Float)
  \o Put(<<0, 1, 0, 1>> \o Addresses(reg) \o <<1, 0>> \o val)
  \o <<Float, Float>>

R(reg)      == [op |-> "read", reg |-> reg, value |-> Zero]
W(reg, val) == [op |-> "write", reg |-> reg, value |-> val]
Symbols(f)  == IF f.op = "read" THEN Read(f.reg) ELSE Write(f.reg, f.value)

\* 0x4000 | mmd
DataMode(m) == [m EXCEPT ![DataNoInc] = 1]

\* Mutant: the address function is not selected first.
SelectInDataMode(m, reg) == << W(MmdData, reg), W(MmdCtrl, DataMode(m)) >>

\* What ReadMMD and WriteMMD begin with.
Select(m, reg) ==
  << W(MmdCtrl, m), W(MmdData, reg), W(MmdCtrl, DataMode(m)) >>

FramesOf(c) ==
  LET dev == c.target[1]
      reg == c.target[2]
  IN  IF dev = Direct
      THEN << IF c.op = "read" THEN R(reg) ELSE W(reg, c.value) >>
      ELSE Append(Select(dev, reg),
                  IF c.op = "read" THEN R(MmdData) ELSE W(MmdData, c.value))

Calls == [op : {"read", "write"}, target : Target, value : Value]

Call ==
  /\ frames = << >>
  /\ call' \in {c \in Calls : c.op = "read" => c.value = Zero}
  /\ frames' = FramesOf(call') /\ clocks' = 0 /\ ret' = Zero
  /\ UNCHANGED <<regs, m_ioSet, ioOut, ioBit, phy>>

Symbol == Symbols(Head(frames))[clocks + 1]

-----------------------------------------------------------------------------
(* The PHY.                                                                *)

HeaderLen == 4 + 2 * AddrBits
FrameLen  == HeaderLen + 2 + DataBits

Field(s, from, n) == [i \in 1..n |-> s[from + i]]
IsRead(s)   == s[3] = 1
Addressed(s) == Field(s, 4, AddrBits) = PhyAddr
RegOf(s)    == Field(s, 4 + AddrBits, AddrBits)

\* From the clock after the header to the end of a read frame the PHY drives
\* MDIO: a zero in the turn-around slot, then the answer.
PhyOut == /\ Len(bits) > HeaderLen
          /\ IsRead(bits) /\ Addressed(bits)
PhyBit == IF Len(bits) = HeaderLen + 1 THEN 0
          ELSE answer[Len(bits) - HeaderLen - 1]

\* The level of the line; the pull-up makes it high when nobody drives it.
Wire == IF ioOut THEN ioBit ELSE IF PhyOut THEN PhyBit ELSE 1

InDataMode == mmd.ctrl[DataNoInc] = 1
MmdTarget  == <<[mmd.ctrl EXCEPT ![DataNoInc] = 0], mmd.addr>>

RegValue(r) ==
  CASE r = MmdCtrl -> mmd.ctrl
    [] r = MmdData /\ ~InDataMode -> mmd.addr
    [] OTHER -> LET t == IF r = MmdData THEN MmdTarget ELSE <<Direct, r>>
                IN  IF t \in Target THEN regs[t] ELSE Zero

WriteReg(r, v) ==
  LET t == IF r = MmdData THEN MmdTarget ELSE <<Direct, r>>
  IN  \/ r = MmdCtrl /\ mmd' = [mmd EXCEPT !.ctrl = v] /\ UNCHANGED regs
      \/ /\ r = MmdData /\ ~InDataMode
         /\ mmd' = [mmd EXCEPT !.addr = v] /\ UNCHANGED regs
      \/ /\ r # MmdCtrl /\ (r = MmdData => InDataMode)
         /\ regs' = [u \in Target |-> IF u = t THEN v ELSE regs[u]]
         /\ UNCHANGED mmd

\* A rising edge of MDC between frames: a zero after a preamble begins one.
PhyIdle ==
  /\ bits = << >>
  /\ bits' = IF Wire = 0 /\ ones = Preamble THEN <<0>> ELSE << >>
  /\ ones' = IF Wire = 0 THEN 0 ELSE IF ones < Preamble THEN ones + 1 ELSE ones
  /\ UNCHANGED <<regs, answer, mmd>>

\* ... and within one; two zeros are no start of a frame.
PhyReceives ==
  LET s == Append(bits, Wire)
  IN  /\ bits # << >> /\ UNCHANGED ones
      /\ bits' = IF s = <<0, 0>> \/ Len(s) = FrameLen THEN << >> ELSE s
      /\ answer' = CASE Len(s) = FrameLen -> Zero
                     [] Len(s) = HeaderLen /\ IsRead(s) /\ Addressed(s) -> RegValue(RegOf(s))
                     [] OTHER -> answer
      /\ IF Len(s) = FrameLen /\ ~IsRead(s) /\ Addressed(s)
         THEN WriteReg(RegOf(s), Field(s, HeaderLen + 2, DataBits))
         ELSE UNCHANGED <<regs, mmd>>

\* Status bits change by themselves.
Change ==
  /\ \E t \in Status, v \in Value : regs' = [regs EXCEPT ![t] = v]
  /\ UNCHANGED <<host, phy>>

-----------------------------------------------------------------------------
\* m_io.SetMode, m_io = ..., or the reading of m_io, between two clocks.
SetIo ==
  /\ frames # << >> /\ ~m_ioSet /\ m_ioSet' = TRUE
  /\ ioOut' = Symbol.out
  /\ ioBit' = IF Symbol.out THEN Symbol.bit ELSE ioBit
  /\ ret' = IF Symbol.sample THEN ShiftIn(ret, Wire) ELSE ret
  /\ UNCHANGED <<regs, call, frames, clocks, phy>>

ClockCycle ==
  LET last == clocks + 1 = Len(Symbols(Head(frames)))
  IN  /\ frames # << >> /\ m_ioSet /\ m_ioSet' = FALSE
      /\ PhyIdle \/ PhyReceives
      /\ clocks' = IF last THEN 0 ELSE clocks + 1
      /\ frames' = IF last THEN Tail(frames) ELSE frames
      /\ UNCHANGED <<call, ioOut, ioBit, ret>>

\* The constructor leaves m_io an input; the PHY comes out of its reset.
BusInit ==
  /\ regs = [t \in Target |-> Zero]
  /\ call = [op |-> "read", target |-> CHOOSE t \in Target : TRUE, value |-> Zero]
  /\ frames = << >> /\ clocks = 0 /\ m_ioSet = FALSE
  /\ ioOut = FALSE /\ ioBit = 0 /\ ret = Zero
  /\ ones = 0 /\ bits = << >> /\ answer = Zero /\ mmd = [ctrl |-> Zero, addr |-> Zero]

BusNext == Call \/ SetIo \/ ClockCycle \/ Change

\* The CPU finishes a call it has begun.
BusSpec == BusInit /\ [][BusNext]_busvars /\ WF_busvars(SetIo) /\ WF_busvars(ClockCycle)

-----------------------------------------------------------------------------
BusTypeOK ==
  /\ regs \in [Target -> Value] /\ call \in Calls
  /\ Len(frames) \in 0..4 /\ clocks \in 0..(Preamble + FrameLen + 1)
  /\ m_ioSet \in BOOLEAN /\ ioOut \in BOOLEAN /\ ioBit \in Bit /\ ret \in Value
  /\ ones \in 0..Preamble /\ bits \in Seq(Bit) /\ Len(bits) < FrameLen
  /\ answer \in Value /\ mmd \in [ctrl : Value, addr : Value]

\* Host and PHY never drive MDIO at the same time, at no clock of any frame
\* and not between two frames.
NoContention == ~(ioOut /\ PhyOut)

\* The effect of a call happens in its last frame: of a read when the PHY has
\* its address, of a write with its last data bit.
Done ==
  /\ Len(frames) = 1
  /\ clocks >= Preamble + (IF call.op = "read" THEN HeaderLen ELSE FrameLen)

Abstract == INSTANCE Mdio WITH
  phase <- IF frames = << >> THEN "idle" ELSE IF Done THEN "done" ELSE "called",
  ret   <- IF frames = << >> THEN ret
           ELSE IF Done /\ call.op = "read" THEN answer ELSE Zero,
  NoResult <- Zero

\* Bit by bit and frame by frame, each call reads or writes just the register
\* it names, once, and returns what the PHY held, though an MMD register is
\* reached only through two shared ones and status bits change meanwhile.
CallsAreAtomic == Abstract!Spec
=============================================================================
