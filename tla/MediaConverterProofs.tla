------------------------- MODULE MediaConverterProofs -------------------------
(***************************************************************************)
(* Proofs about the media converter, for any number of resets of its MCU:  *)
(* types, PHYs that answer whenever they are polled, and rates that match; *)
(* and about its MDIO bus, for any widths of the fields of a frame and any *)
(* length of the preamble: one driver at a time, and each call of the      *)
(* interface reads or writes just its register, once.                      *)
(***************************************************************************)
EXTENDS MediaConverter, BitbangedMDIO, SequenceTheorems, TLAPS

\* Where the supply is known: from the release of the resets on.
Late == pc \notin {"hold", "power", "pgood"} \union Stuck

SupplyInv ==
  /\ pc = "pgood" => en["1v0"] /\ en["1v2"]
  /\ Late => en["1v2"] /\ up["1v2"] /\ rst_n["SPE"] /\ rst_n["BaseT"]
  /\ Late => (en["1v0"] /\ up["1v0"]) \/ model = "DP83TC814"

AliveInv == Late /\ pc # "settle" => ready["SPE"] /\ ready["BaseT"]

\* How far the copper side's advertisement has been restricted.
RateInv ==
  /\ pc \in Phy \union {"baset", "adv1000", "adv100", "restart"}
       => (g_speedIsGig <=> model = "DP83TG720S")
  /\ pc = "adv100" => 1000 \notin adv
  /\ pc \in Phy \union {"restart"} /\ model # "DP83TG720S" => adv = {100}

IInv == TypeOK /\ SupplyInv /\ AliveInv /\ RateInv /\ RatesMatch

-----------------------------------------------------------------------------
\* A negotiated rate is one that both ends have.
LEMMA MaxRate == ASSUME NEW S \in SUBSET Rates, S # {} PROVE Max(S) \in S
<1>1. \E x \in S : \A y \in S : x >= y
  <2>0. \A y \in S : y = 10 \/ y = 100 \/ y = 1000
    BY DEF Rates
  <2>1. CASE 1000 \in S BY <2>0, <2>1
  <2>2. CASE 1000 \notin S /\ 100 \in S BY <2>0, <2>2
  <2>3. CASE 1000 \notin S /\ 100 \notin S
    <3>1. 10 \in S /\ \A y \in S : y = 10 BY <2>0, <2>3
    <3> QED BY <3>1
  <2> QED BY <2>1, <2>2, <2>3
<1> QED BY <1>1 DEF Max

\* What power and reset lines do to the PHYs has the right types.
LEMMA FollowType ==
  ASSUME TypeOK, NEW released, NEW rails, PhysFollow(released, rails)
  PROVE  /\ ready' \in [Phy -> BOOLEAN] /\ speed' \in [Phy -> Rates \union {0}]
         /\ sts' \in [Phy -> BOOLEAN] /\ adv' \subseteq Rates
BY DEF TypeOK, PhysFollow

\* The constant functions of the model.
LEMMA NoneAll == None \in [Phy -> BOOLEAN] /\ All \in [Phy -> BOOLEAN]
BY DEF None, All

\* Every step keeps the types, main() never returning among them.
LEMMA TypeInv == ASSUME TypeOK, Next PROVE TypeOK'
<1> USE DEF TypeOK
<1>1. CASE HoldReset \/ ReleaseReset
  BY <1>1, FollowType, NoneAll DEF HoldReset, ReleaseReset, board, report
<1>2. CASE InitPower \/ Settle
  BY <1>2 DEF InitPower, Settle, board, report, phys, supply
<1>3. CASE InitSPEPHY \/ InitBaseTPHY
  BY <1>3 DEF InitSPEPHY, InitBaseTPHY, board, report, phys, supply, Phy
<1>4. CASE Advertise1000 \/ Advertise100
  <2>1. adv' \subseteq adv \union {100} BY <1>4 DEF Advertise1000, Advertise100
  <2>2. adv' \subseteq Rates BY <2>1 DEF Rates
  <2> QED BY <1>4, <2>2 DEF Advertise1000, Advertise100, board, report, supply
<1>5. CASE Restart
  BY <1>5 DEF Restart, board, report, supply, Phy
<1>6. CASE Poll
  BY <1>6 DEF Poll, board, supply
<1>7. CASE Reset
  <2>1. resets' \in 0..MaxResets BY <1>7, ConverterAssumption DEF Reset
  <2> QED BY <1>7, <2>1, FollowType, NoneAll DEF Reset, board
<1>8. ASSUME NEW r \in Rails, RailSettles(r) PROVE TypeOK'
  BY <1>8, FollowType DEF RailSettles, board, report
<1>9. ASSUME NEW p \in Phy, PhyReady(p) PROVE TypeOK'
  BY <1>9 DEF PhyReady, board, report, supply
<1>10. ASSUME NEW p \in Phy, LinkRises(p) PROVE TypeOK'
  <2>1. p = "BaseT" /\ adv \intersect partner # {} => Max(adv \intersect partner) \in Rates
    BY MaxRate
  <2>2. {100, 1000} \subseteq Rates BY DEF Rates
  <2> QED BY <1>10, <2>1, <2>2 DEF LinkRises, board, report, supply
<1>11. ASSUME NEW p \in Phy, LinkFalls(p) PROVE TypeOK'
  BY <1>11 DEF LinkFalls, board, supply
<1>12. CASE FaultHandler \/ USART1_Handler
  BY <1>12 DEF FaultHandler, USART1_Handler, Stuck, board, report, phys, supply
<1> QED BY <1>1, <1>2, <1>3, <1>4, <1>5, <1>6, <1>7, <1>8, <1>9, <1>10, <1>11, <1>12 DEF Next, CPU

-----------------------------------------------------------------------------
\* Up to the IDs: the supply is complete before anybody is asked.
LEMMA BootInv ==
  ASSUME IInv, TypeOK', HoldReset \/ InitPower \/ ReleaseReset \/ Settle PROVE IInv'
<1> USE DEF IInv, SupplyInv, AliveInv, RateInv, RatesMatch, Late, Polling, Phy, Stuck
<1>1. CASE HoldReset BY <1>1 DEF HoldReset
<1>2. CASE InitPower BY <1>2 DEF InitPower, Rails
<1>3. CASE ReleaseReset BY <1>3 DEF ReleaseReset, Rails, All
<1>4. CASE Settle BY <1>4 DEF Settle, Powered, supply, board, phys, report
<1> QED BY <1>1, <1>2, <1>3, <1>4

\* From the IDs to the polling loop.
LEMMA ConfigInv ==
  ASSUME IInv, TypeOK',
         \/ InitSPEPHY \/ InitBaseTPHY \/ Advertise1000 \/ Advertise100 \/ Restart \/ Poll
  PROVE  IInv'
<1> USE DEF IInv, SupplyInv, AliveInv, RateInv, RatesMatch, Late, Polling, Phy, Stuck
<1>1. CASE InitSPEPHY
  BY <1>1 DEF InitSPEPHY, TypeOK, board, phys, Rails
<1>2. CASE InitBaseTPHY
  BY <1>2 DEF InitBaseTPHY, OuiMatches, supply, board, phys, report
<1>3. CASE Advertise1000
  BY <1>3 DEF Advertise1000, supply, board, report
<1>4. CASE Advertise100
  <2>1. \A x \in adv : x = 10 \/ x = 100
    BY <1>4 DEF Advertise100, TypeOK, Rates
  <2>2. \A x : x \in adv' <=> x = 100
    BY <1>4, <2>1 DEF Advertise100
  <2>3. adv' = {100} BY <2>2
  <2> QED BY <1>4, <2>3 DEF Advertise100, supply, board, report
<1>5. CASE Restart
  <2>1. speed'["BaseT"] = 0 BY <1>5 DEF Restart, TypeOK
  <2> QED BY <1>5, <2>1 DEF Restart, supply, board, report
<1>6. CASE Poll
  BY <1>6 DEF Poll, supply, board
<1> QED BY <1>1, <1>2, <1>3, <1>4, <1>5, <1>6

\* The world, and faults and resets of the MCU.
LEMMA WorldInv ==
  ASSUME IInv, TypeOK',
         \/ Reset \/ FaultHandler \/ USART1_Handler
         \/ \E r \in Rails : RailSettles(r)
         \/ \E p \in Phy : PhyReady(p) \/ LinkRises(p) \/ LinkFalls(p)
  PROVE  IInv'
<1> USE DEF IInv, SupplyInv, AliveInv, RateInv, RatesMatch, Late, Polling, Phy, Stuck
<1>1. CASE Reset BY <1>1 DEF Reset
<1>2. ASSUME NEW r \in Rails, RailSettles(r) PROVE IInv'
  <2>1. SupplyInv'
    BY <1>2 DEF RailSettles, TypeOK, board, Rails
  <2>2. Late => UNCHANGED <<ready, speed, adv>> \/ pc = "settle"
    BY <1>2, <2>1 DEF RailSettles, PhysFollow, Powered, TypeOK, board
  <2> QED BY <1>2, <2>1, <2>2 DEF RailSettles, board, report
<1>3. ASSUME NEW p \in Phy, PhyReady(p) PROVE IInv'
  BY <1>3 DEF PhyReady, TypeOK, supply, board, report
<1>4. ASSUME NEW p \in Phy, LinkRises(p) PROVE IInv'
  <2>1. Polling /\ model # "DP83TG720S" => speed'["BaseT"] \in {0, 100}
    <3>1. p = "SPE" => speed'["BaseT"] = speed["BaseT"]
      BY <1>4 DEF LinkRises, TypeOK
    <3>2. p = "BaseT" => adv \intersect partner # {} /\ speed'["BaseT"] = Max(adv \intersect partner)
      BY <1>4 DEF LinkRises, TypeOK
    <3>3. p = "BaseT" => speed'["BaseT"] \in adv
      BY <3>2, MaxRate DEF TypeOK
    <3> QED BY <3>1, <3>3
  <2> QED BY <1>4, <2>1 DEF LinkRises, supply, board, report
<1>5. ASSUME NEW p \in Phy, LinkFalls(p) PROVE IInv'
  <2>1. speed'["BaseT"] \in {0, speed["BaseT"]}
    BY <1>5 DEF LinkFalls, TypeOK
  <2> QED BY <1>5, <2>1 DEF LinkFalls, supply, board
<1>6. CASE FaultHandler \/ USART1_Handler
  BY <1>6 DEF FaultHandler, USART1_Handler, supply, board, phys, report
<1> QED BY <1>1, <1>2, <1>3, <1>4, <1>5, <1>6

-----------------------------------------------------------------------------
\* Whatever the rails, the PHYs, the link partners and any number of resets
\* do, the invariant holds at every step of main().
THEOREM Inductive == Spec => []IInv
<1>1. Init => IInv
  <2> SUFFICES ASSUME Init PROVE IInv
    OBVIOUS
  <2>1. 0 \in 0..MaxResets BY ConverterAssumption
  <2>2. speed \in [Phy -> Rates \union {0}] /\ adv \subseteq Rates BY DEF Init
  <2>3. partner \subseteq Rates BY DEF Init
  <2>4. TypeOK BY <2>1, <2>2, <2>3, NoneAll DEF Init, TypeOK
  <2>5. pc = "hold" BY DEF Init
  <2> QED BY <2>4, <2>5 DEF IInv, SupplyInv, AliveInv, RateInv, RatesMatch, Late, Polling, Phy, Stuck
<1>2. IInv /\ [Next]_vars => IInv'
  <2>1. ASSUME IInv, Next PROVE IInv'
    <3>1. TypeOK' BY <2>1, TypeInv DEF IInv
    <3> QED BY <2>1, <3>1, BootInv, ConfigInv, WorldInv DEF Next, CPU
  <2>2. ASSUME IInv, UNCHANGED vars PROVE IInv'
    BY <2>2 DEF vars, supply, board, phys, report, IInv, TypeOK, SupplyInv, AliveInv, RateInv, RatesMatch,
       Late, Polling
  <2> QED BY <2>1, <2>2
<1> QED BY <1>1, <1>2, PTL DEF Spec

\* The types hold, so main() never returns: it ends in one of its loops.
THEOREM TypeCorrect == Spec => []TypeOK
<1>1. IInv => TypeOK BY DEF IInv
<1> QED BY <1>1, Inductive, PTL

\* The PHYs answer whenever main() polls them: the 1.0 V rail is turned off
\* only for the PHY that can do without it, and a reset starts all over.
THEOREM Answering == Spec => []PhysAlive
<1>1. IInv => PhysAlive
  <2> SUFFICES ASSUME IInv, Polling PROVE ready = All
    BY DEF PhysAlive
  <2>1. ready \in [Phy -> BOOLEAN] /\ ready["SPE"] /\ ready["BaseT"]
    BY DEF IInv, TypeOK, AliveInv, Late, Polling, Phy, Stuck
  <2> QED BY <2>1 DEF All, Phy
<1> QED BY <1>1, Inductive, PTL

\* In the polling loop the copper side never runs at another rate than the
\* SPE side's 100 Mbit/s, whenever its PHY negotiated and with whom.
THEOREM Matching == Spec => []RatesMatch
<1>1. IInv => RatesMatch BY DEF IInv
<1> QED BY <1>1, Inductive, PTL

\* main() gives up only for a PHY of another vendor: when it asks for the
\* vendor, the PHY that should answer does, whatever became of the rails and
\* however often the MCU was reset.
THEOREM HangsForAReason == Spec => [](pc = "hang" => foreign # None)
<1> DEFINE HangInv == pc = "hang" => foreign # None
<1>1. Init => HangInv BY DEF Init
<1>2. IInv /\ HangInv /\ [Next]_vars => HangInv'
  <2> SUFFICES ASSUME IInv, HangInv, [Next]_vars PROVE HangInv' OBVIOUS
  <2>1. ASSUME NEW p \in Phy, ~OuiMatches(p), pc \in {"spe", "baset"} PROVE foreign # None
    <3>1. ready["SPE"] /\ ready["BaseT"] BY <2>1 DEF IInv, AliveInv, Late, Stuck
    <3> QED BY <2>1, <3>1 DEF OuiMatches, None, Phy
  <2>2. CASE InitSPEPHY BY <2>1, <2>2 DEF InitSPEPHY, board, Phy
  <2>3. CASE InitBaseTPHY BY <2>1, <2>3 DEF InitBaseTPHY, board, Phy
  <2>4. CASE pc' # "hang" BY <2>4
  <2>5. CASE pc' = pc /\ foreign' = foreign BY <2>5
  <2>6. InitSPEPHY \/ InitBaseTPHY \/ pc' # "hang" \/ (pc' = pc /\ foreign' = foreign)
    BY DEF Next, CPU, HoldReset, InitPower, ReleaseReset, Settle, Advertise1000, Advertise100, Restart,
       Poll, Reset, FaultHandler, USART1_Handler, RailSettles, PhyReady, LinkRises, LinkFalls, vars,
       board, Phy, Polling, IInv, TypeOK
  <2> QED BY <2>2, <2>3, <2>4, <2>5, <2>6
<1> QED BY <1>1, <1>2, Inductive, PTL DEF Spec

-----------------------------------------------------------------------------
(* The MDIO bus.                                                           *)

LastBit == Preamble + FrameLen  \* the clock with the last bit of a frame

\* Frames of any word; what the host drives in one, and for how many clocks.
AnyFrame == [op : {"read", "write"}, reg : Addr, value : Value]
Sent(f)    == IF f.op = "read" THEN <<0, 1, 1, 0>> \o Addresses(f.reg)
              ELSE <<0, 1, 0, 1>> \o Addresses(f.reg) \o <<1, 0>> \o f.value
SentLen(f) == IF f.op = "read" THEN HeaderLen ELSE FrameLen
SymLen(f)  == IF f.op = "read" THEN LastBit ELSE LastBit + 2

-----------------------------------------------------------------------------
(* The invariant.                                                          *)

\* The frame with which the host still has n to send in the call c.
FrameAt(c, n) ==
  LET dev == c.target[1]
      reg == IF dev = Direct THEN c.target[2] ELSE MmdData
  IN  IF n = 4 THEN W(MmdCtrl, dev)
      ELSE IF n = 3 THEN W(MmdData, c.target[2])
      ELSE IF n = 2 THEN W(MmdCtrl, DataMode(dev))
      ELSE IF c.op = "read" THEN R(reg) ELSE W(reg, c.value)

Frame == FrameAt(call, Len(frames))

FramesInv ==
  /\ frames \in Seq(AnyFrame)
  /\ Len(frames) \in 0..4 /\ (call.target[1] = Direct => Len(frames) < 2)
  /\ \A i \in 1..Len(frames) : frames[i] = FrameAt(call, Len(frames) + 1 - i)

\* How far the PHY is in it: it counts the ones of the preamble, has every bit
\* the host has driven since, and is idle again behind the last.
PhyInv ==
  /\ clocks <= Preamble => bits = << >> /\ ones >= clocks
  /\ clocks \in Preamble + 1..LastBit - 1 =>
       /\ Len(bits) = clocks - Preamble
       /\ \A i \in 1..Len(bits) : i <= SentLen(Frame) => bits[i] = Sent(Frame)[i]
  /\ clocks >= LastBit => bits = << >>

\* What m_io was set up to before the next clock, or for the last one.
IoInv ==
  /\ m_ioSet => /\ ioOut = Symbol.out
                /\ ioOut => ioBit = Symbol.bit
  /\ ~m_ioSet /\ clocks > 0 => ioOut = Symbols(Frame)[clocks].out

\* What the frames so far have made of the MMD registers.  n counts down, by
\* two for each frame: 8 at the start, odd behind a frame's last bit.
Written == clocks >= LastBit
MmdInv ==
  LET n == 2 * Len(frames) - (IF Written THEN 1 ELSE 0)
  IN  call.target[1] # Direct =>
        /\ n \in 4..7 => mmd.ctrl = call.target[1]
        /\ n < 4 => mmd.ctrl = DataMode(call.target[1])
        /\ n < 6 => mmd.addr = call.target[2]

\* The bits of the answer that have been sampled are the last of ret.
RetInv ==
  /\ call.op = "write" => ret = Zero
  /\ frames # << >> /\ Frame.op = "read" =>
       LET n == clocks + (IF m_ioSet THEN 1 ELSE 0) - (Preamble + HeaderLen + 2)
       IN  n \in 1..DataBits => \A i \in 1..n : ret[DataBits - n + i] = answer[i]

BusInv ==
  /\ BusTypeOK /\ FramesInv /\ RetInv
  /\ IF frames = << >> THEN clocks = 0 /\ ~m_ioSet /\ bits = << >>
     ELSE clocks < SymLen(Frame) /\ PhyInv /\ IoInv /\ MmdInv

-----------------------------------------------------------------------------
\* The constants, in the form the proofs use them.
LEMMA Widths ==
  /\ AddrBits \in Nat \ {0} /\ DataBits \in Nat \ {0} /\ Preamble \in Nat \ {0} /\ DataNoInc \in 1..DataBits
  /\ HeaderLen = 4 + 2 * AddrBits /\ FrameLen = HeaderLen + 2 + DataBits /\ LastBit = Preamble + FrameLen
  /\ HeaderLen \in Nat /\ FrameLen \in Nat /\ LastBit \in Nat /\ HeaderLen > 4
  /\ LastBit = Preamble + HeaderLen + 2 + DataBits
BY BitbangedAssumption DEF HeaderLen, FrameLen, LastBit

LEMMA Words ==
  /\ PhyAddr \in Addr /\ MmdCtrl \in Addr /\ MmdData \in Addr /\ MmdCtrl # MmdData /\ Zero \in Value
BY BitbangedAssumption DEF Zero, Value, Word, Bit

\* t or x behind s, and the sequences over S of length n: for the provers to see no
\* more of them than the next lemmas say.
Cat(s, t)    == s \o t
Has(s, S, n) == s \in Seq(S) /\ n \in Nat /\ Len(s) = n

LEMMA ConcatAt ==
  ASSUME NEW S, NEW s \in Seq(S), NEW t \in Seq(S)
  PROVE  /\ s \o t \in Seq(S) /\ Len(s) \in Nat /\ Len(t) \in Nat /\ Len(s \o t) = Len(s) + Len(t)
         /\ \A i \in 1..Len(s) : (s \o t)[i] = s[i]
         /\ \A i \in 1..Len(t) : (s \o t)[Len(s) + i] = t[i]
<1>1. s \o t \in Seq(S) /\ Len(s) \in Nat /\ Len(t) \in Nat /\ Len(s \o t) = Len(s) + Len(t)
  BY ConcatProperties, LenProperties
<1>2. \A i \in 1..Len(s) : (s \o t)[i] = s[i]
  <2> TAKE i \in 1..Len(s)
  <2>1. i \in 1..Len(s) + Len(t) /\ i <= Len(s) BY <1>1
  <2> QED BY <2>1, ConcatProperties
<1>3. \A i \in 1..Len(t) : (s \o t)[Len(s) + i] = t[i]
  <2> TAKE i \in 1..Len(t)
  <2>1. Len(s) + i \in 1..Len(s) + Len(t) /\ ~(Len(s) + i <= Len(s)) /\ (Len(s) + i) - Len(s) = i BY <1>1
  <2> QED BY <2>1, ConcatProperties
<1> QED BY <1>1, <1>2, <1>3

LEMMA CatHas ==
  ASSUME NEW S, NEW s, NEW t, NEW n, NEW m, Has(s, S, n), Has(t, S, m)
  PROVE  Has(Cat(s, t), S, n + m)
BY ConcatAt DEF Cat, Has

LEMMA CatLeft ==
  ASSUME NEW S, NEW s, NEW t, NEW n, NEW m, Has(s, S, n), Has(t, S, m), NEW i \in 1..n
  PROVE  Cat(s, t)[i] = s[i]
BY ConcatAt DEF Cat, Has

LEMMA CatRight ==
  ASSUME NEW S, NEW s, NEW t, NEW n \in Nat, NEW m \in Nat, Has(s, S, n), Has(t, S, m), NEW i \in 1..m
  PROVE  Cat(s, t)[n + i] = t[i]
BY ConcatAt DEF Cat, Has

Ext(s, x) == Append(s, x)

LEMMA ExtHas ==
  ASSUME NEW S, NEW s, NEW n \in Nat, Has(s, S, n), NEW x \in S
  PROVE  /\ Has(Ext(s, x), S, n + 1) /\ Ext(s, x)[n + 1] = x
         /\ \A i \in 1..n : Ext(s, x)[i] = s[i]
<1>1. s \in Seq(S) /\ Len(s) = n BY DEF Has
<1>2. Append(s, x) \in Seq(S) /\ Len(Append(s, x)) = Len(s) + 1 BY <1>1, AppendProperties
<1>3. \A i \in 1..Len(s) : Append(s, x)[i] = s[i] BY <1>1, AppendProperties
<1>4. Append(s, x)[Len(s) + 1] = x BY <1>1, AppendProperties
<1>5. Has(Append(s, x), S, n + 1)
  <2>1. Len(Append(s, x)) = n + 1 BY <1>1, <1>2
  <2>2. n + 1 \in Nat OBVIOUS
  <2> QED BY <1>2, <2>1, <2>2 DEF Has
<1> QED BY <1>1, <1>3, <1>4, <1>5 DEF Ext

\* Words are sequences of bits.
LEMMA WordHas == ASSUME NEW n \in Nat, NEW w \in Word(n) PROVE Has(w, Bit, n)
BY DEF Word, Has

LEMMA TimesHas ==
  ASSUME NEW n \in Nat, NEW S, NEW x \in S
  PROVE  Has(Times(n, x), S, n) /\ \A i \in 1..n : Times(n, x)[i] = x
BY DEF Times, Has

-----------------------------------------------------------------------------
\* The frames, bit by bit.
LEMMA AddressBits ==
  ASSUME NEW reg \in Addr
  PROVE  /\ Has(Addresses(reg), Bit, 2 * AddrBits)
         /\ \A i \in 1..AddrBits : Addresses(reg)[i] = PhyAddr[i]
         /\ \A i \in 1..AddrBits : Addresses(reg)[AddrBits + i] = reg[i]
<1>1. Has(PhyAddr, Bit, AddrBits) /\ Has(reg, Bit, AddrBits) /\ AddrBits \in Nat
  BY Widths, Words, WordHas DEF Addr
<1>2. Addresses(reg) = Cat(PhyAddr, reg) BY DEF Addresses, Cat
<1>3. Has(Addresses(reg), Bit, AddrBits + AddrBits) BY <1>1, <1>2, CatHas
<1>4. \A i \in 1..AddrBits : Addresses(reg)[i] = PhyAddr[i] BY <1>1, <1>2, CatLeft
<1>5. \A i \in 1..AddrBits : Addresses(reg)[AddrBits + i] = reg[i] BY <1>1, <1>2, CatRight
<1>6. AddrBits + AddrBits = 2 * AddrBits BY <1>1
<1> QED BY <1>3, <1>4, <1>5, <1>6

\* What both kinds of frame begin with.
LEMMA HeaderBits ==
  ASSUME NEW reg \in Addr, NEW op, Has(op, Bit, 4)
  PROVE  /\ Has(Cat(op, Addresses(reg)), Bit, HeaderLen)
         /\ \A i \in 1..4 : Cat(op, Addresses(reg))[i] = op[i]
         /\ \A i \in 1..AddrBits : Cat(op, Addresses(reg))[4 + i] = PhyAddr[i]
         /\ \A i \in 1..AddrBits : Cat(op, Addresses(reg))[4 + AddrBits + i] = reg[i]
<1> DEFINE addr == Addresses(reg)
           head == Cat(op, addr)
<1>1. /\ Has(addr, Bit, 2 * AddrBits)
      /\ \A i \in 1..AddrBits : addr[i] = PhyAddr[i]
      /\ \A i \in 1..AddrBits : addr[AddrBits + i] = reg[i]
  BY AddressBits
<1> HIDE DEF addr
<1>2. 4 \in Nat /\ 2 * AddrBits \in Nat /\ AddrBits \in Nat /\ HeaderLen = 4 + 2 * AddrBits BY Widths
<1>3. Has(head, Bit, HeaderLen) BY <1>1, <1>2, CatHas
<1>4. \A i \in 1..4 : head[i] = op[i] BY <1>1, CatLeft
<1>5. \A i \in 1..2 * AddrBits : head[4 + i] = addr[i] BY <1>1, <1>2, CatRight
<1> HIDE DEF head
<1>6. ASSUME NEW i \in 1..AddrBits PROVE head[4 + i] = PhyAddr[i]
  <2>1. i \in 1..2 * AddrBits BY <1>2
  <2> QED BY <1>1, <1>5, <2>1
<1>7. ASSUME NEW i \in 1..AddrBits PROVE head[4 + AddrBits + i] = reg[i]
  <2> DEFINE j == AddrBits + i
  <2>1. j \in 1..2 * AddrBits /\ 4 + AddrBits + i = 4 + j BY <1>2
  <2>2. addr[j] = reg[i] BY <1>1
  <2> HIDE DEF j
  <2> QED BY <1>5, <2>1, <2>2
<1> QED BY <1>3, <1>4, <1>6, <1>7 DEF head, addr

\* How a frame that has been received is understood.
LEMMA SentBits ==
  ASSUME NEW f \in AnyFrame
  PROVE  /\ Has(Sent(f), Bit, SentLen(f)) /\ SentLen(f) \in Nat /\ SentLen(f) >= HeaderLen
         /\ Sent(f)[1] = 0 /\ Sent(f)[2] = 1 /\ (IsRead(Sent(f)) <=> f.op = "read")
         /\ Field(Sent(f), 4, AddrBits) = PhyAddr /\ Field(Sent(f), 4 + AddrBits, AddrBits) = f.reg
         /\ f.op # "read" => Field(Sent(f), HeaderLen + 2, DataBits) = f.value
<1> DEFINE rd   == <<0, 1, 1, 0>>
           wr   == <<0, 1, 0, 1>>
           op   == IF f.op = "read" THEN rd ELSE wr
           head == Cat(op, Addresses(f.reg))
           slot == <<1, 0>>
           s    == Sent(f)
<1>1. f.reg \in Addr /\ f.value \in Value BY DEF AnyFrame
<1>2. /\ Has(op, Bit, 4) /\ op[1] = 0 /\ op[2] = 1 /\ (op[3] = 1 <=> f.op = "read")
  <2>1. Has(rd, Bit, 4) /\ rd[1] = 0 /\ rd[2] = 1 /\ rd[3] = 1 BY DEF Has, Bit
  <2>2. Has(wr, Bit, 4) /\ wr[1] = 0 /\ wr[2] = 1 /\ wr[3] = 0 BY DEF Has, Bit
  <2> QED BY <2>1, <2>2
<1>3. Has(slot, Bit, 2) BY DEF Has, Bit
<1>4. s = IF f.op = "read" THEN head ELSE Cat(Cat(head, slot), f.value) BY DEF Sent, Cat
<1> HIDE DEF op, slot
<1>5. /\ Has(head, Bit, HeaderLen)
      /\ \A i \in 1..4 : head[i] = op[i]
      /\ \A i \in 1..AddrBits : head[4 + i] = PhyAddr[i]
      /\ \A i \in 1..AddrBits : head[4 + AddrBits + i] = f.reg[i]
  BY <1>1, <1>2, HeaderBits
<1> HIDE DEF head, s
<1>6. Has(f.value, Bit, DataBits) BY <1>1, Widths, WordHas DEF Value
<1>7. /\ Has(s, Bit, SentLen(f)) /\ \A i \in 1..HeaderLen : s[i] = head[i]
      /\ f.op # "read" => \A i \in 1..DataBits : s[HeaderLen + 2 + i] = f.value[i]
  <2>1. CASE f.op = "read" BY <1>4, <1>5, <2>1 DEF SentLen
  <2>2. CASE f.op # "read"
    <3> DEFINE hs == Cat(head, slot)
    <3>1. Has(hs, Bit, HeaderLen + 2) /\ \A i \in 1..HeaderLen : hs[i] = head[i]
      BY <1>3, <1>5, CatHas, CatLeft
    <3> HIDE DEF hs
    <3>2. s = Cat(hs, f.value) /\ HeaderLen + 2 \in Nat /\ DataBits \in Nat /\ HeaderLen \in Nat
      BY <1>4, <2>2, Widths DEF hs
    <3>3. Has(s, Bit, (HeaderLen + 2) + DataBits) BY <1>6, <3>1, <3>2, CatHas
    <3>4. \A i \in 1..HeaderLen + 2 : s[i] = hs[i] BY <1>6, <3>1, <3>2, CatLeft
    <3>5. \A i \in 1..DataBits : s[(HeaderLen + 2) + i] = f.value[i] BY <1>6, <3>1, <3>2, CatRight
    <3>6. ASSUME NEW i \in 1..HeaderLen PROVE s[i] = head[i]
      <4>1. i \in 1..HeaderLen + 2 BY <3>2
      <4> QED BY <3>1, <3>4, <4>1
    <3>7. SentLen(f) = (HeaderLen + 2) + DataBits BY <2>2, Widths DEF SentLen
    <3> QED BY <3>3, <3>5, <3>6, <3>7
  <2> QED BY <2>1, <2>2
<1>8. SentLen(f) \in Nat /\ SentLen(f) >= HeaderLen BY Widths DEF SentLen
<1>9. s[1] = 0 /\ s[2] = 1 /\ (s[3] = 1 <=> f.op = "read")
  <2>1. /\ 1 \in 1..HeaderLen /\ 2 \in 1..HeaderLen /\ 3 \in 1..HeaderLen
        /\ 1 \in 1..4 /\ 2 \in 1..4 /\ 3 \in 1..4
    BY Widths
  <2> QED BY <1>2, <1>5, <1>7, <2>1
<1>10. Field(s, 4, AddrBits) = PhyAddr
  <2>1. ASSUME NEW i \in 1..AddrBits PROVE s[4 + i] = PhyAddr[i]
    <3>1. 4 + i \in 1..HeaderLen BY Widths
    <3> QED BY <1>5, <1>7, <3>1
  <2>2. PhyAddr = [i \in 1..AddrBits |-> PhyAddr[i]] BY Words DEF Addr, Word
  <2> QED BY <2>1, <2>2 DEF Field
<1>11. Field(s, 4 + AddrBits, AddrBits) = f.reg
  <2>1. ASSUME NEW i \in 1..AddrBits PROVE s[4 + AddrBits + i] = f.reg[i]
    <3>1. 4 + AddrBits + i \in 1..HeaderLen BY Widths
    <3> QED BY <1>5, <1>7, <3>1
  <2>2. f.reg = [i \in 1..AddrBits |-> f.reg[i]] BY <1>1 DEF Addr, Word
  <2> QED BY <2>1, <2>2 DEF Field
<1>12. f.op # "read" => Field(s, HeaderLen + 2, DataBits) = f.value
  <2>1. f.value = [i \in 1..DataBits |-> f.value[i]] BY <1>1 DEF Value, Word
  <2> QED BY <1>7, <2>1 DEF Field
<1> QED BY <1>7, <1>8, <1>9, <1>10, <1>11, <1>12 DEF s, IsRead

\* What the host does before each clock of a frame.
SymbolSet == [out : BOOLEAN, bit : Bit, sample : BOOLEAN]
Level(b)  == [out |-> TRUE, bit |-> b, sample |-> FALSE]

LEMMA PutHas ==
  ASSUME NEW n \in Nat, NEW q, Has(q, Bit, n)
  PROVE  Has(Put(q), SymbolSet, n) /\ \A i \in 1..n : Put(q)[i] = Level(q[i])
BY DEF Put, Has, SymbolSet, Level

LEMMA SymbolsOf ==
  ASSUME NEW f \in AnyFrame
  PROVE  /\ Has(Symbols(f), SymbolSet, SymLen(f))
         /\ \A i \in 1..Preamble : Symbols(f)[i] = Float
         /\ \A i \in 1..SentLen(f) : Symbols(f)[Preamble + i] = Level(Sent(f)[i])
         /\ \A i \in 1..2 : Symbols(f)[Preamble + SentLen(f) + i] = Float
         /\ f.op = "read" => \A i \in 1..DataBits : Symbols(f)[Preamble + HeaderLen + 2 + i] = Sample
<1> DEFINE pre  == Times(Preamble, Float)
           sent == Put(Sent(f))
           body == Cat(pre, sent)
           idle == <<Float, Float>>
           both == Cat(body, idle)
           data == Times(DataBits, Sample)
           s    == Symbols(f)
<1>1. Float \in SymbolSet /\ Sample \in SymbolSet BY DEF Float, Sample, SymbolSet, Bit
<1>2. /\ Preamble \in Nat /\ DataBits \in Nat /\ HeaderLen \in Nat
      /\ SentLen(f) \in Nat /\ Preamble + SentLen(f) \in Nat
  BY Widths, SentBits
<1>3. Has(pre, SymbolSet, Preamble) /\ \A i \in 1..Preamble : pre[i] = Float BY <1>1, <1>2, TimesHas
<1>4. Has(sent, SymbolSet, SentLen(f)) /\ \A i \in 1..SentLen(f) : sent[i] = Level(Sent(f)[i])
  BY <1>2, SentBits, PutHas
<1>5. Has(idle, SymbolSet, 2) /\ \A i \in 1..2 : idle[i] = Float BY <1>1 DEF Has
<1>6. Has(data, SymbolSet, DataBits) /\ \A i \in 1..DataBits : data[i] = Sample BY <1>1, <1>2, TimesHas
<1>7. s = IF f.op = "read" THEN Cat(both, data) ELSE both
  BY DEF Symbols, Read, Write, Sent, Cat
<1> HIDE DEF pre, sent, idle, data, s
<1>8. /\ Has(body, SymbolSet, Preamble + SentLen(f))
      /\ \A i \in 1..Preamble : body[i] = Float
      /\ \A i \in 1..SentLen(f) : body[Preamble + i] = Level(Sent(f)[i])
  <2>1. Has(body, SymbolSet, Preamble + SentLen(f)) BY <1>3, <1>4, CatHas
  <2>2. \A i \in 1..Preamble : body[i] = Float BY <1>3, <1>4, CatLeft
  <2>3. \A i \in 1..SentLen(f) : body[Preamble + i] = Level(Sent(f)[i]) BY <1>2, <1>3, <1>4, CatRight
  <2> QED BY <2>1, <2>2, <2>3
<1> HIDE DEF body
<1>9. /\ Has(both, SymbolSet, Preamble + SentLen(f) + 2)
      /\ \A i \in 1..Preamble : both[i] = Float
      /\ \A i \in 1..SentLen(f) : both[Preamble + i] = Level(Sent(f)[i])
      /\ \A i \in 1..2 : both[Preamble + SentLen(f) + i] = Float
  <2>1. Has(both, SymbolSet, (Preamble + SentLen(f)) + 2) BY <1>5, <1>8, CatHas
  <2>2. \A i \in 1..Preamble + SentLen(f) : both[i] = body[i] BY <1>5, <1>8, CatLeft
  <2>3. \A i \in 1..2 : both[(Preamble + SentLen(f)) + i] = Float BY <1>2, <1>5, <1>8, CatRight
  <2> HIDE DEF both
  <2>4. ASSUME NEW i \in 1..Preamble PROVE both[i] = Float
    <3>1. i \in 1..Preamble + SentLen(f) BY <1>2
    <3> QED BY <1>8, <2>2, <3>1
  <2>5. ASSUME NEW i \in 1..SentLen(f) PROVE both[Preamble + i] = Level(Sent(f)[i])
    <3>1. Preamble + i \in 1..Preamble + SentLen(f) BY <1>2
    <3> QED BY <1>8, <2>2, <3>1
  <2> QED BY <2>1, <2>3, <2>4, <2>5
<1> HIDE DEF both
<1>10. CASE f.op # "read"
  <2>1. s = both BY <1>7, <1>10
  <2>2. SymLen(f) = Preamble + SentLen(f) + 2 BY <1>10, Widths DEF SymLen, SentLen
  <2> QED BY <1>9, <1>10, <2>1, <2>2 DEF s
<1>11. CASE f.op = "read"
  <2> DEFINE n == Preamble + SentLen(f) + 2
  <2>1. s = Cat(both, data) BY <1>7, <1>11
  <2>2. SymLen(f) = n + DataBits /\ n = Preamble + HeaderLen + 2 BY <1>11, Widths DEF SymLen, SentLen
  <2>3. n \in Nat BY <1>2
  <2>4. Has(both, SymbolSet, n) BY <1>9
  <2>5. Has(s, SymbolSet, n + DataBits) BY <1>6, <2>1, <2>4, CatHas
  <2>6. \A i \in 1..n : s[i] = both[i] BY <1>6, <2>1, <2>4, CatLeft
  <2>7. \A i \in 1..DataBits : s[n + i] = Sample BY <1>2, <1>6, <2>1, <2>3, <2>4, CatRight
  <2>8. ASSUME NEW i \in 1..Preamble PROVE s[i] = Float
    <3>1. i \in 1..n BY <1>2
    <3> QED BY <1>9, <2>6, <3>1
  <2>9. ASSUME NEW i \in 1..SentLen(f) PROVE s[Preamble + i] = Level(Sent(f)[i])
    <3>1. Preamble + i \in 1..n BY <1>2
    <3> QED BY <1>9, <2>6, <3>1
  <2>10. ASSUME NEW i \in 1..2 PROVE s[Preamble + SentLen(f) + i] = Float
    <3>1. Preamble + SentLen(f) + i \in 1..n BY <1>2
    <3> QED BY <1>9, <2>6, <3>1
  <2>11. Has(s, SymbolSet, SymLen(f)) /\ \A i \in 1..DataBits : s[Preamble + HeaderLen + 2 + i] = Sample
    BY <2>2, <2>5, <2>7
  <2> QED BY <2>8, <2>9, <2>10, <2>11 DEF s
<1> QED BY <1>10, <1>11

-----------------------------------------------------------------------------
\* Calls and the frames they consist of.
LEMMA Modes ==
  ASSUME NEW m \in Value, m[DataNoInc] = 0
  PROVE  /\ DataMode(m) \in Value /\ DataMode(m)[DataNoInc] = 1
         /\ [DataMode(m) EXCEPT ![DataNoInc] = 0] = m
BY Widths DEF DataMode, Value, Word, Bit

LEMMA Targets ==
  ASSUME NEW c \in Calls
  PROVE  /\ c.op \in {"read", "write"} /\ c.value \in Value /\ c.target \in Target
         /\ c.target = <<c.target[1], c.target[2]>>
         /\ c.target[1] = Direct => c.target[2] \in Addr \ {MmdCtrl, MmdData}
         /\ c.target[1] # Direct =>
              c.target[1] \in Value /\ c.target[1][DataNoInc] = 0 /\ c.target[2] \in Value
         /\ Target # {}
<1> DEFINE t == c.target
<1>1. c.op \in {"read", "write"} /\ c.value \in Value /\ t \in Target BY DEF Calls
<1>2. \/ t \in {Direct} \X (Addr \ {MmdCtrl, MmdData})
      \/ t \in {m \in Value : \A i \in 1..DataNoInc : m[i] = 0} \X Value
  BY <1>1, BitbangedAssumption
<1>3. ASSUME NEW m \in Value PROVE m # Direct
  <2>1. DOMAIN m = 1..DataBits /\ 1 \in 1..DataBits BY Widths DEF Value, Word
  <2>2. DOMAIN Direct = {} BY DEF Direct
  <2> QED BY <2>1, <2>2
<1> HIDE DEF t
<1>4. CASE t \in {Direct} \X (Addr \ {MmdCtrl, MmdData})
  <2>1. t = <<t[1], t[2]>> /\ t[1] = Direct /\ t[2] \in Addr \ {MmdCtrl, MmdData} BY <1>4
  <2> QED BY <1>1, <2>1, BitbangedAssumption DEF t
<1>5. CASE t \in {m \in Value : \A i \in 1..DataNoInc : m[i] = 0} \X Value
  <2>1. /\ t = <<t[1], t[2]>> /\ t[1] \in Value /\ t[2] \in Value
        /\ \A i \in 1..DataNoInc : t[1][i] = 0
    BY <1>5
  <2>2. t[1][DataNoInc] = 0
    <3>1. DataNoInc \in 1..DataNoInc BY Widths
    <3> QED BY <2>1, <3>1
  <2> QED BY <1>1, <1>3, <2>1, <2>2, BitbangedAssumption DEF t
<1> QED BY <1>2, <1>4, <1>5

LEMMA FrameTypes ==
  ASSUME NEW c \in Calls, NEW n \in 1..4, c.target[1] = Direct => n = 1
  PROVE  FrameAt(c, n) \in AnyFrame
<1>1. /\ c.op \in {"read", "write"} /\ c.value \in Value
      /\ c.target[1] = Direct => c.target[2] \in Addr
      /\ c.target[1] # Direct => c.target[1] \in Value /\ c.target[2] \in Value
      /\ c.target[1] # Direct => DataMode(c.target[1]) \in Value
  BY Targets, Modes
<1>2. \A r \in Addr, v \in Value : R(r) \in AnyFrame /\ W(r, v) \in AnyFrame
  BY Words DEF R, W, AnyFrame
<1>3. MmdCtrl \in Addr /\ MmdData \in Addr BY Words
<1> QED BY <1>1, <1>2, <1>3 DEF FrameAt

\* The frames a call begins with.
LEMMA NewFrames ==
  ASSUME NEW c \in Calls
  PROVE  LET q == FramesOf(c)
         IN  /\ q \in Seq(AnyFrame) /\ q # << >>
             /\ Len(q) = IF c.target[1] = Direct THEN 1 ELSE 4
             /\ \A i \in 1..Len(q) : q[i] = FrameAt(c, Len(q) + 1 - i)
<1> DEFINE q == FramesOf(c)
           dev == c.target[1]
<1>1. CASE dev = Direct
  <2>1. q = << FrameAt(c, 1) >> BY <1>1 DEF FramesOf, FrameAt
  <2>2. FrameAt(c, 1) \in AnyFrame BY FrameTypes
  <2> QED BY <1>1, <2>1, <2>2
<1>2. CASE dev # Direct
  <2> DEFINE a == FrameAt(c, 4)
             b == FrameAt(c, 3)
             d == FrameAt(c, 2)
             e == FrameAt(c, 1)
  <2>1. q = Append(<<a, b, d>>, e) BY <1>2 DEF FramesOf, FrameAt, Select
  <2>2. a \in AnyFrame /\ b \in AnyFrame /\ d \in AnyFrame /\ e \in AnyFrame BY <1>2, FrameTypes
  <2>3. \A i \in 1..4 : FrameAt(c, 4 + 1 - i) =
                         IF i = 1 THEN a ELSE IF i = 2 THEN b ELSE IF i = 3 THEN d ELSE e
    <3> TAKE i \in 1..4
    <3>1. i = 1 \/ i = 2 \/ i = 3 \/ i = 4 OBVIOUS
    <3>2. 4 + 1 - i = IF i = 1 THEN 4 ELSE IF i = 2 THEN 3 ELSE IF i = 3 THEN 2 ELSE 1 BY <3>1
    <3> QED BY <3>1, <3>2
  <2> DEFINE p == <<a, b, d>>
  <2> HIDE DEF a, b, d, e, q
  <2>4. Has(p, AnyFrame, 3) /\ p[1] = a /\ p[2] = b /\ p[3] = d BY <2>2 DEF Has
  <2>5. q = Ext(p, e) BY <2>1 DEF Ext
  <2> HIDE DEF p
  <2>6. Has(q, AnyFrame, 4) /\ q[1] = a /\ q[2] = b /\ q[3] = d /\ q[4] = e
    <3>1. Has(q, AnyFrame, 3 + 1) /\ q[3 + 1] = e /\ \A i \in 1..3 : q[i] = p[i]
      BY <2>2, <2>4, <2>5, ExtHas
    <3>2. 1 \in 1..3 /\ 2 \in 1..3 /\ 3 \in 1..3 /\ 3 + 1 = 4 OBVIOUS
    <3> QED BY <2>4, <3>1, <3>2
  <2>7. \A i \in 1..4 : q[i] = FrameAt(c, 4 + 1 - i)
    <3> TAKE i \in 1..4
    <3>1. i = 1 \/ i = 2 \/ i = 3 \/ i = 4 OBVIOUS
    <3> QED BY <2>3, <2>6, <3>1
  <2>8. q \in Seq(AnyFrame) /\ Len(q) = 4 BY <2>6 DEF Has
  <2>9. q # << >> BY <2>8, EmptySeq
  <2> QED BY <1>2, <2>7, <2>8, <2>9 DEF q
<1> QED BY <1>1, <1>2 DEF q

\* The frame in progress, and what is left behind it.
LEMMA Current ==
  ASSUME call \in Calls, FramesInv, frames # << >>
  PROVE  /\ Len(frames) \in 1..4 /\ (call.target[1] = Direct => Len(frames) = 1)
         /\ Head(frames) = Frame /\ Frame \in AnyFrame
         /\ Tail(frames) \in Seq(AnyFrame) /\ Len(Tail(frames)) = Len(frames) - 1
         /\ \A i \in 1..Len(Tail(frames)) : Tail(frames)[i] = FrameAt(call, Len(Tail(frames)) + 1 - i)
<1>1. /\ frames \in Seq(AnyFrame) /\ Len(frames) \in Nat /\ Len(frames) # 0
      /\ Len(frames) \in 0..4 /\ (call.target[1] = Direct => Len(frames) < 2)
      /\ \A i \in 1..Len(frames) : frames[i] = FrameAt(call, Len(frames) + 1 - i)
  BY EmptySeq, LenProperties DEF FramesInv
<1> DEFINE n == Len(frames)
<1>2. n \in 1..4 /\ (call.target[1] = Direct => n = 1)
  <2>1. n \in 0..4 /\ n # 0 /\ (call.target[1] = Direct => n < 2) BY <1>1
  <2> HIDE DEF n
  <2> QED BY <2>1
<1>3. Head(frames) = Frame
  <2>1. Head(frames) = frames[1] /\ 1 \in 1..Len(frames) /\ Len(frames) + 1 - 1 = Len(frames)
    BY <1>1, <1>2, HeadTailProperties
  <2> QED BY <1>1, <2>1 DEF Frame
<1>4. Frame \in AnyFrame BY <1>2, FrameTypes DEF Frame
<1>5. /\ Tail(frames) \in Seq(AnyFrame) /\ Len(Tail(frames)) = Len(frames) - 1
      /\ \A i \in 1..Len(Tail(frames)) : Tail(frames)[i] = frames[i + 1]
  BY <1>1, HeadTailProperties
<1>6. ASSUME NEW i \in 1..Len(Tail(frames))
      PROVE  Tail(frames)[i] = FrameAt(call, Len(Tail(frames)) + 1 - i)
  <2> DEFINE t == Len(Tail(frames))
  <2>1. i + 1 \in 1..n /\ n + 1 - (i + 1) = t + 1 - i
    <3>1. n \in Nat /\ t = n - 1 /\ i \in 1..t BY <1>1, <1>5
    <3> HIDE DEF n, t
    <3> QED BY <3>1
  <2>2. frames[i + 1] = FrameAt(call, Len(frames) + 1 - (i + 1)) BY <1>1, <2>1
  <2> QED BY <1>5, <2>1, <2>2
<1> QED BY <1>2, <1>3, <1>4, <1>5, <1>6

-----------------------------------------------------------------------------
\* What the PHY understands of a frame once it has its header.
LEMMA HeaderKnown ==
  ASSUME NEW f \in AnyFrame, NEW s, \A i \in 1..HeaderLen : s[i] = Sent(f)[i]
  PROVE  (IsRead(s) <=> f.op = "read") /\ Addressed(s) /\ RegOf(s) = f.reg
<1>1. /\ AddrBits \in Nat /\ HeaderLen = 4 + 2 * AddrBits /\ HeaderLen > 4 BY Widths
<1>2. IsRead(s) <=> f.op = "read"
  <2>1. 3 \in 1..HeaderLen BY <1>1
  <2> QED BY <2>1, SentBits DEF IsRead
<1>3. Field(s, 4, AddrBits) = Field(Sent(f), 4, AddrBits)
  <2>1. \A i \in 1..AddrBits : 4 + i \in 1..HeaderLen BY <1>1
  <2> QED BY <2>1 DEF Field
<1>4. Field(s, 4 + AddrBits, AddrBits) = Field(Sent(f), 4 + AddrBits, AddrBits)
  <2>1. \A i \in 1..AddrBits : 4 + AddrBits + i \in 1..HeaderLen BY <1>1
  <2> QED BY <2>1 DEF Field
<1> QED BY <1>2, <1>3, <1>4, SentBits DEF Addressed, RegOf

\* The PHY's registers keep their types.
LEMMA RegTypes ==
  ASSUME BusTypeOK, NEW r
  PROVE  /\ RegValue(r) \in Value
         /\ \A v \in Value : WriteReg(r, v) =>
              regs' \in [Target -> Value] /\ mmd' \in [ctrl : Value, addr : Value]
<1>1. regs \in [Target -> Value] /\ mmd \in [ctrl : Value, addr : Value] /\ Zero \in Value
  BY Words DEF BusTypeOK
<1>2. RegValue(r) \in Value BY <1>1 DEF RegValue
<1>3. ASSUME NEW v \in Value, WriteReg(r, v)
      PROVE  regs' \in [Target -> Value] /\ mmd' \in [ctrl : Value, addr : Value]
  BY <1>1, <1>3 DEF WriteReg
<1> QED BY <1>2, <1>3

\* One clock of a frame that has begun, for the PHY.
LEMMA Received ==
  ASSUME PhyReceives, NEW s, s = Ext(bits, Wire)
  PROVE  /\ bits # << >> /\ ones' = ones
         /\ Len(s) = FrameLen => bits' = << >> /\ answer' = Zero
         /\ s # <<0, 0>> /\ Len(s) # FrameLen => bits' = s
         /\ Len(s) # FrameLen =>
              answer' = IF Len(s) = HeaderLen /\ IsRead(s) /\ Addressed(s) THEN RegValue(RegOf(s)) ELSE answer
         /\ IF Len(s) = FrameLen /\ ~IsRead(s) /\ Addressed(s)
            THEN WriteReg(RegOf(s), Field(s, HeaderLen + 2, DataBits))
            ELSE UNCHANGED <<regs, mmd>>
<1>1. FrameLen # HeaderLen BY Widths
<1>2. s = Append(bits, Wire) BY DEF Ext
<1>3. /\ bits # << >> /\ UNCHANGED ones
      /\ bits' = IF s = <<0, 0>> \/ Len(s) = FrameLen THEN << >> ELSE s
      /\ answer' = CASE Len(s) = FrameLen -> Zero
                     [] Len(s) = HeaderLen /\ IsRead(s) /\ Addressed(s) -> RegValue(RegOf(s))
                     [] OTHER -> answer
      /\ IF Len(s) = FrameLen /\ ~IsRead(s) /\ Addressed(s)
         THEN WriteReg(RegOf(s), Field(s, HeaderLen + 2, DataBits))
         ELSE UNCHANGED <<regs, mmd>>
  BY <1>2, Zenon DEF PhyReceives
<1>4. Len(s) = FrameLen => answer' = Zero BY <1>1, <1>3, Zenon
<1>5. Len(s) # FrameLen =>
        answer' = IF Len(s) = HeaderLen /\ IsRead(s) /\ Addressed(s) THEN RegValue(RegOf(s)) ELSE answer
  BY <1>1, <1>3, Zenon
<1> QED BY <1>3, <1>4, <1>5, Zenon

\* The frame in progress under the invariant.
LEMMA Progress ==
  ASSUME BusInv, frames # << >>
  PROVE  /\ Head(frames) = Frame /\ Frame \in AnyFrame /\ Symbol = Symbols(Frame)[clocks + 1]
         /\ Len(Symbols(Frame)) = SymLen(Frame) /\ clocks \in Nat /\ clocks + 1 \in 1..SymLen(Frame)
         /\ PhyInv /\ IoInv /\ MmdInv /\ FramesInv /\ BusTypeOK /\ RetInv
         /\ Symbol \in SymbolSet
<1>1. BusTypeOK /\ FramesInv /\ RetInv /\ clocks < SymLen(Frame) /\ PhyInv /\ IoInv /\ MmdInv BY DEF BusInv
<1>2. call \in Calls BY <1>1 DEF BusTypeOK
<1>3. Head(frames) = Frame /\ Frame \in AnyFrame BY <1>1, <1>2, Current
<1>4. Has(Symbols(Frame), SymbolSet, SymLen(Frame)) BY <1>3, SymbolsOf
<1>5. clocks \in Nat BY <1>1, Widths DEF BusTypeOK
<1>6. SymLen(Frame) \in Nat BY Widths DEF SymLen
<1>7. clocks + 1 \in 1..SymLen(Frame) BY <1>1, <1>5, <1>6
<1>8. Symbol = Symbols(Frame)[clocks + 1] BY <1>3 DEF Symbol
<1>9. Len(Symbols(Frame)) = SymLen(Frame) BY <1>4 DEF Has
<1>10. Symbol \in SymbolSet BY <1>4, <1>7, <1>8, ElementOfSeq DEF Has
<1> QED BY <1>1, <1>3, <1>5, <1>7, <1>8, <1>9, <1>10

\* The last clocks of a frame: how many there are depends on its kind.
LEMMA Lengths ==
  ASSUME NEW f \in AnyFrame
  PROVE  /\ SentLen(f) \in Nat /\ SymLen(f) \in Nat /\ SentLen(f) >= HeaderLen
         /\ f.op = "read" => SentLen(f) = HeaderLen /\ SymLen(f) = LastBit
         /\ f.op # "read" => SentLen(f) = FrameLen /\ SymLen(f) = LastBit + 2
BY Widths DEF SentLen, SymLen

\* What the PHY puts on the line is a level.
LEMMA PhyLevel == ASSUME BusTypeOK PROVE PhyOut => PhyBit \in Bit
<1>1. /\ bits \in Seq(Bit) /\ Len(bits) < FrameLen /\ answer \in Value BY DEF BusTypeOK
<1> SUFFICES ASSUME PhyOut PROVE PhyBit \in Bit
  OBVIOUS
<1> DEFINE n == Len(bits)
<1>2. n \in Nat /\ n > HeaderLen /\ n < FrameLen BY <1>1, LenProperties DEF PhyOut
<1>3. PhyBit = IF n = HeaderLen + 1 THEN 0 ELSE answer[n - HeaderLen - 1] BY DEF PhyBit
<1> HIDE DEF n
<1>4. n = HeaderLen + 1 \/ n - HeaderLen - 1 \in 1..DataBits BY <1>2, Widths
<1>5. \A i \in 1..DataBits : answer[i] \in Bit BY <1>1 DEF Value, Word
<1> QED BY <1>3, <1>4, <1>5 DEF Bit

\* What the line carries at a clock the host has set m_io up for.
LEMMA Line ==
  ASSUME BusInv, frames # << >>, m_ioSet, NEW k, k = clocks + 1
  PROVE  /\ Wire \in Bit
         /\ k <= Preamble \/ k > LastBit => Wire = 1
         /\ \A i \in 1..SentLen(Frame) : k = Preamble + i => Wire = Sent(Frame)[i]
<1> DEFINE f == Frame
           s == Symbols(f)
<1>1. /\ f \in AnyFrame /\ clocks \in Nat /\ k \in 1..SymLen(f)
      /\ PhyInv /\ BusTypeOK
      /\ ioOut = s[k].out /\ (ioOut => ioBit = s[k].bit)
  BY Progress DEF IoInv
<1>2. Wire \in Bit
  <2>1. ioBit \in Bit BY <1>1 DEF BusTypeOK
  <2>2. PhyOut => PhyBit \in Bit BY <1>1, PhyLevel
  <2> QED BY <2>1, <2>2 DEF Wire, Bit
<1>3. /\ \A i \in 1..Preamble : s[i] = Float
      /\ \A i \in 1..SentLen(f) : s[Preamble + i] = Level(Sent(f)[i])
      /\ \A i \in 1..2 : s[Preamble + SentLen(f) + i] = Float
  BY <1>1, SymbolsOf
<1>4. /\ SentLen(f) \in Nat /\ SymLen(f) \in Nat
      /\ f.op = "read" => SymLen(f) = LastBit
      /\ f.op # "read" => SentLen(f) = FrameLen /\ SymLen(f) = LastBit + 2
  BY <1>1, Lengths
<1> HIDE DEF f, s
<1>5. ASSUME k <= Preamble \/ k > LastBit PROVE Wire = 1
  <2>1. bits = << >> BY <1>1, <1>5, Widths DEF PhyInv
  <2>2. ~PhyOut
    <3>1. Len(bits) = 0 BY <2>1
    <3> QED BY <3>1, Widths DEF PhyOut
  <2>3. s[k] = Float
    <3>1. CASE k <= Preamble
      <4>1. k \in 1..Preamble BY <1>1, <1>4, <3>1, Widths
      <4> QED BY <1>3, <4>1
    <3>2. CASE k > LastBit
      <4>1. f.op # "read" BY <1>1, <1>4, <3>2, Widths
      <4> DEFINE i == k - LastBit
      <4>2. i \in 1..2 /\ k = Preamble + SentLen(f) + i BY <1>1, <1>4, <3>2, <4>1, Widths
      <4> HIDE DEF i
      <4> QED BY <1>3, <4>2
    <3> QED BY <1>5, <3>1, <3>2
  <2>4. ioOut = FALSE BY <1>1, <2>3 DEF Float
  <2> QED BY <2>2, <2>4 DEF Wire
<1>6. ASSUME NEW i \in 1..SentLen(f), k = Preamble + i PROVE Wire = Sent(f)[i]
  <2>1. s[k] = Level(Sent(f)[i]) BY <1>3, <1>6
  <2>2. ioOut = TRUE /\ ioBit = Sent(f)[i] BY <1>1, <2>1 DEF Level
  <2> QED BY <2>2 DEF Wire
<1> QED BY <1>2, <1>5, <1>6 DEF f

\* Behind the addresses of a read the host lets go of the line.
LEMMA Released ==
  ASSUME NEW f \in AnyFrame, f.op = "read", NEW k \in Preamble + HeaderLen + 1..LastBit
  PROVE  Symbols(f)[k].out = FALSE
<1> DEFINE s == Symbols(f)
<1>1. /\ \A i \in 1..2 : s[Preamble + HeaderLen + i] = Float
      /\ \A i \in 1..DataBits : s[Preamble + HeaderLen + 2 + i] = Sample
  BY SymbolsOf, Lengths
<1> HIDE DEF s
<1> DEFINE j == k - (Preamble + HeaderLen)
           n == k - (Preamble + HeaderLen + 2)
<1>2. \/ j \in 1..2 /\ k = Preamble + HeaderLen + j
      \/ n \in 1..DataBits /\ k = Preamble + HeaderLen + 2 + n
  BY Widths
<1> HIDE DEF j, n
<1>3. s[k] = Float \/ s[k] = Sample BY <1>1, <1>2
<1> QED BY <1>3 DEF Float, Sample, s

\* ... and when the host samples it, in a read: one bit of the answer.
LEMMA Answered ==
  ASSUME BusInv, frames # << >>, ~m_ioSet, Frame.op = "read",
         NEW n \in 1..DataBits, clocks = Preamble + HeaderLen + 1 + n
  PROVE  Wire = answer[n]
<1> DEFINE f == Frame
           s == Symbols(f)
<1>1. /\ f \in AnyFrame /\ f.op = "read" /\ clocks \in Nat /\ clocks + 1 \in 1..SymLen(f)
      /\ PhyInv /\ BusTypeOK /\ IoInv
  BY Progress
<1>2. SentLen(f) = HeaderLen /\ SymLen(f) = LastBit BY <1>1, Lengths
<1>3. s[clocks].out = FALSE
  <2>1. clocks \in Preamble + HeaderLen + 1..LastBit BY Widths
  <2> QED BY <1>1, <2>1, Released
<1>4. ioOut = FALSE BY <1>1, <1>3, Widths DEF IoInv
<1>5. clocks \in Preamble + 1..LastBit - 1 BY <1>1, <1>2, Widths
<1>6. Len(bits) = clocks - Preamble /\ \A i \in 1..Len(bits) : i <= SentLen(f) => bits[i] = Sent(f)[i]
  BY <1>1, <1>5 DEF PhyInv
<1> HIDE DEF f
<1>7. \A i \in 1..HeaderLen : bits[i] = Sent(f)[i]
  <2>1. \A i \in 1..HeaderLen : i \in 1..clocks - Preamble /\ i <= SentLen(f) BY <1>2, Widths
  <2> QED BY <1>6, <2>1
<1>8. IsRead(bits) /\ Addressed(bits) BY <1>1, <1>7, HeaderKnown
<1>9. Len(bits) = HeaderLen + 1 + n
  <2>1. clocks - Preamble = HeaderLen + 1 + n BY Widths
  <2> QED BY <1>6, <2>1
<1> DEFINE l == Len(bits)
<1>10. PhyOut /\ PhyBit = answer[n]
  <2>1. PhyOut <=> (l > HeaderLen) BY <1>8, Zenon DEF PhyOut
  <2>2. PhyBit = IF l = HeaderLen + 1 THEN 0 ELSE answer[l - HeaderLen - 1] BY DEF PhyBit
  <2>3. l = HeaderLen + 1 + n BY <1>9
  <2> HIDE DEF l
  <2>4. l > HeaderLen /\ l # HeaderLen + 1 /\ l - HeaderLen - 1 = n BY <2>3, Widths
  <2> QED BY <2>1, <2>2, <2>4
<1> QED BY <1>4, <1>10 DEF Wire

\* What the PHY makes of the clock that the host has set m_io up for: it
\* stays in step with the host, looks up the register of a read when it has
\* the header, and writes the register of a write with its last bit.
LEMMA OneClock ==
  ASSUME BusInv, frames # << >>, m_ioSet, PhyIdle \/ PhyReceives, NEW k, k = clocks + 1
  PROVE  /\ bits' \in Seq(Bit) /\ Len(bits') < FrameLen /\ ones' \in 0..Preamble /\ answer' \in Value
         /\ k <= Preamble => bits' = << >> /\ ones' >= k
         /\ k \in Preamble + 1..LastBit - 1 =>
              /\ Len(bits') = k - Preamble
              /\ \A i \in 1..Len(bits') : i <= SentLen(Frame) => bits'[i] = Sent(Frame)[i]
         /\ k >= LastBit => bits' = << >>
         /\ Frame.op = "read" /\ k = Preamble + HeaderLen => answer' = RegValue(Frame.reg)
         /\ k \in Preamble + HeaderLen + 1..LastBit - 1 => answer' = answer
         /\ IF k = LastBit /\ Frame.op # "read" THEN WriteReg(Frame.reg, Frame.value)
            ELSE UNCHANGED <<regs, mmd>>
<1> DEFINE f == Frame
<1>1. /\ f \in AnyFrame /\ clocks \in Nat /\ k \in 1..SymLen(f) /\ PhyInv
      /\ ones \in 0..Preamble /\ bits \in Seq(Bit) /\ Len(bits) < FrameLen /\ answer \in Value
      /\ BusTypeOK
  BY Progress DEF BusTypeOK
<1>2. /\ Wire \in Bit
      /\ k <= Preamble \/ k > LastBit => Wire = 1
      /\ \A i \in 1..SentLen(f) : k = Preamble + i => Wire = Sent(f)[i]
  BY Line
<1>3. /\ SentLen(f) \in Nat /\ SymLen(f) \in Nat /\ SentLen(f) >= HeaderLen
      /\ f.op = "read" => SentLen(f) = HeaderLen /\ SymLen(f) = LastBit
      /\ f.op # "read" => SentLen(f) = FrameLen /\ SymLen(f) = LastBit + 2
  BY <1>1, Lengths
<1>4. Sent(f)[1] = 0 /\ Sent(f)[2] = 1 BY <1>1, SentBits
<1> HIDE DEF f
<1>5. /\ Preamble \in Nat /\ Preamble > 0 /\ DataBits \in Nat /\ DataBits > 0
      /\ HeaderLen \in Nat /\ HeaderLen > 4
      /\ FrameLen = HeaderLen + 2 + DataBits /\ LastBit = Preamble + FrameLen
  BY Widths
<1>6. ASSUME k <= Preamble + 1 \/ k > LastBit
      PROVE  /\ bits' = IF Wire = 0 /\ ones = Preamble THEN <<0>> ELSE << >>
             /\ ones' = IF Wire = 0 THEN 0 ELSE IF ones < Preamble THEN ones + 1 ELSE ones
             /\ UNCHANGED <<regs, answer, mmd>>
  <2>1. bits = << >> BY <1>1, <1>5, <1>6 DEF PhyInv
  <2> QED BY <2>1 DEF PhyIdle, PhyReceives
<1>7. CASE k <= Preamble \/ k > LastBit
  <2>1. /\ bits' = << >> /\ UNCHANGED <<regs, answer, mmd>>
        /\ ones' = IF ones < Preamble THEN ones + 1 ELSE ones
    BY <1>2, <1>5, <1>6, <1>7
  <2>2. ones' \in 0..Preamble BY <1>1, <1>5, <2>1
  <2>3. k <= Preamble => ones' >= k BY <1>1, <1>5, <2>1 DEF PhyInv
  <2>4. bits' \in Seq(Bit) /\ Len(bits') < FrameLen BY <1>5, <2>1
  <2>5. ~(k \in Preamble + 1..LastBit - 1) /\ k # LastBit /\ k # Preamble + HeaderLen
    BY <1>5, <1>7
  <2>6. ~(k \in Preamble + HeaderLen + 1..LastBit - 1) BY <1>5, <1>7
  <2> QED BY <1>1, <2>1, <2>2, <2>3, <2>4, <2>5, <2>6 DEF f
<1>8. CASE k = Preamble + 1
  <2>1. Wire = 0 /\ ones = Preamble
    <3>1. 1 \in 1..SentLen(f) BY <1>3, <1>5
    <3>2. Wire = 0 BY <1>2, <1>4, <1>8, <3>1
    <3>3. ones >= Preamble BY <1>1, <1>5, <1>8 DEF PhyInv
    <3> QED BY <1>1, <1>5, <3>2, <3>3
  <2>2. bits' = <<0>> /\ ones' = 0 /\ UNCHANGED <<regs, answer, mmd>> BY <1>5, <1>6, <1>8, <2>1
  <2>3. bits' \in Seq(Bit) /\ Len(bits') = 1 /\ bits'[1] = 0 BY <2>2 DEF Bit
  <2>4. \A i \in 1..Len(bits') : i <= SentLen(f) => bits'[i] = Sent(f)[i]
    <3> TAKE i \in 1..Len(bits')
    <3>1. i = 1 BY <2>3
    <3> QED BY <1>4, <2>3, <3>1
  <2>5. ~(k <= Preamble) /\ k < LastBit /\ k # Preamble + HeaderLen /\ k - Preamble = 1 /\ 1 < FrameLen
    BY <1>5, <1>8
  <2>6. ~(k \in Preamble + HeaderLen + 1..LastBit - 1) BY <1>5, <1>8
  <2>7. ones' \in 0..Preamble BY <1>5, <2>2
  <2>8. ~(k >= LastBit) /\ k # LastBit BY <1>1, <1>5, <2>5
  <2> QED BY <1>1, <2>2, <2>3, <2>4, <2>5, <2>6, <2>7, <2>8 DEF f
<1>9. CASE k \in Preamble + 2..LastBit
  <2> DEFINE s == Ext(bits, Wire)
             n == k - Preamble
  <2>1. /\ n \in 2..FrameLen /\ n - 1 \in Nat /\ (n - 1) + 1 = n /\ clocks - Preamble = n - 1
        /\ clocks \in Preamble + 1..LastBit - 1 /\ k = Preamble + n
    BY <1>1, <1>5, <1>9
  <2>2. Has(bits, Bit, n - 1) /\ \A i \in 1..n - 1 : i <= SentLen(f) => bits[i] = Sent(f)[i]
    BY <1>1, <2>1 DEF PhyInv, Has, f
  <2> HIDE DEF n
  <2>3. Has(s, Bit, n) /\ s[n] = Wire /\ \A i \in 1..n - 1 : s[i] = bits[i]
    BY <1>2, <2>1, <2>2, ExtHas
  <2>4. PhyReceives
    <3>1. bits # << >>
      <4>1. Len(bits) = n - 1 /\ n - 1 > 0 BY <2>1, <2>2 DEF Has
      <4> QED BY <4>1
    <3> QED BY <3>1 DEF PhyIdle
  <2>5. /\ ones' = ones
        /\ Len(s) = FrameLen => bits' = << >> /\ answer' = Zero
        /\ s # <<0, 0>> /\ Len(s) # FrameLen => bits' = s
        /\ Len(s) # FrameLen =>
             answer' = IF Len(s) = HeaderLen /\ IsRead(s) /\ Addressed(s) THEN RegValue(RegOf(s)) ELSE answer
        /\ IF Len(s) = FrameLen /\ ~IsRead(s) /\ Addressed(s)
           THEN WriteReg(RegOf(s), Field(s, HeaderLen + 2, DataBits))
           ELSE UNCHANGED <<regs, mmd>>
    BY <2>4, Received
  <2> HIDE DEF s
  <2>6. \A i \in 1..n : i <= SentLen(f) => s[i] = Sent(f)[i]
    <3> SUFFICES ASSUME NEW i \in 1..n, i <= SentLen(f) PROVE s[i] = Sent(f)[i]
      OBVIOUS
    <3>1. CASE i = n
      <4>1. n \in 1..SentLen(f) BY <1>3, <2>1, <3>1
      <4> QED BY <1>2, <2>1, <2>3, <3>1, <4>1
    <3>2. CASE i # n
      <4>1. i \in 1..n - 1 BY <2>1, <3>2
      <4> QED BY <2>2, <2>3, <4>1
    <3> QED BY <3>1, <3>2
  <2>7. Len(s) = n BY <2>3 DEF Has
  <2>8. n >= HeaderLen => (IsRead(s) <=> f.op = "read") /\ Addressed(s) /\ RegOf(s) = f.reg
    <3>1. n >= HeaderLen => \A i \in 1..HeaderLen : i \in 1..n /\ i <= SentLen(f) BY <1>3, <1>5, <2>1
    <3> QED BY <1>1, <2>6, <3>1, HeaderKnown DEF f
  <2>9. CASE k = LastBit
    <3>1. n = FrameLen /\ n >= HeaderLen BY <1>5, <2>1, <2>9
    <3>2. bits' = << >> /\ answer' = Zero /\ Zero \in Value BY <2>5, <2>7, <3>1, Words
    <3>3. f.op # "read" => Field(s, HeaderLen + 2, DataBits) = f.value
      <4> SUFFICES ASSUME f.op # "read" PROVE Field(s, HeaderLen + 2, DataBits) = f.value
        OBVIOUS
      <4>1. \A i \in 1..DataBits : HeaderLen + 2 + i \in 1..n /\ HeaderLen + 2 + i <= SentLen(f)
        BY <1>3, <1>5, <3>1
      <4>2. \A i \in 1..DataBits : s[HeaderLen + 2 + i] = Sent(f)[HeaderLen + 2 + i] BY <2>6, <4>1
      <4>3. Field(s, HeaderLen + 2, DataBits) = Field(Sent(f), HeaderLen + 2, DataBits) BY <4>2 DEF Field
      <4> QED BY <1>1, <4>3, SentBits DEF f
    <3>4. IF f.op # "read" THEN WriteReg(f.reg, f.value) ELSE UNCHANGED <<regs, mmd>>
      BY <2>5, <2>7, <2>8, <3>1, <3>3
    <3>5. ~(k <= Preamble) /\ ~(k \in Preamble + 1..LastBit - 1) /\ k # Preamble + HeaderLen
          /\ ~(k \in Preamble + HeaderLen + 1..LastBit - 1)
      BY <1>5, <2>9
    <3>6. bits' \in Seq(Bit) /\ Len(bits') < FrameLen BY <1>5, <3>2
    <3> QED BY <1>1, <2>5, <2>9, <3>2, <3>4, <3>5, <3>6 DEF f
  <2>10. CASE k # LastBit
    <3>1. n # FrameLen /\ n < FrameLen BY <1>5, <2>1, <2>10
    <3>2. s # <<0, 0>>
      <4>1. 2 \in 1..n /\ 2 <= SentLen(f) BY <1>3, <1>5, <2>1
      <4>2. s[2] = 1 BY <1>4, <2>6, <4>1
      <4> QED BY <4>2
    <3>3. bits' = s BY <2>5, <2>7, <3>1, <3>2
    <3>4. bits' \in Seq(Bit) /\ Len(bits') = n /\ Len(bits') < FrameLen BY <2>3, <3>1, <3>3 DEF Has
    <3>5. \A i \in 1..Len(bits') : i <= SentLen(f) => bits'[i] = Sent(f)[i] BY <2>6, <3>3, <3>4
    <3>6. answer' = IF n = HeaderLen /\ IsRead(s) /\ Addressed(s) THEN RegValue(RegOf(s)) ELSE answer
      BY <2>5, <2>7, <3>1
    <3>7. answer' \in Value BY <1>1, <3>6, RegTypes
    <3>8. f.op = "read" /\ k = Preamble + HeaderLen => answer' = RegValue(f.reg)
      <4> SUFFICES ASSUME f.op = "read", k = Preamble + HeaderLen PROVE answer' = RegValue(f.reg)
        OBVIOUS
      <4>1. n = HeaderLen BY <1>5, <2>1
      <4> QED BY <1>5, <2>8, <3>6, <4>1
    <3>9. k \in Preamble + HeaderLen + 1..LastBit - 1 => answer' = answer
      <4>1. k \in Preamble + HeaderLen + 1..LastBit - 1 => n # HeaderLen BY <1>5, <2>1
      <4> QED BY <3>6, <4>1
    <3>10. UNCHANGED <<regs, mmd>> BY <2>5, <2>7, <3>1
    <3>11. ~(k <= Preamble) /\ ~(k >= LastBit) /\ k - Preamble = n BY <1>5, <1>9, <2>1, <2>10
    <3> QED BY <1>1, <2>5, <2>10, <3>4, <3>5, <3>7, <3>8, <3>9, <3>10, <3>11 DEF f
  <2> QED BY <2>9, <2>10
<1>10. k <= Preamble \/ k > LastBit \/ k = Preamble + 1 \/ k \in Preamble + 2..LastBit BY <1>1, <1>3, <1>5
<1> QED BY <1>7, <1>8, <1>9, <1>10

-----------------------------------------------------------------------------
\* The kinds of frame by their places in a call.
LEMMA Kinds ==
  ASSUME BusInv, frames # << >>
  PROVE  /\ call \in Calls /\ Len(frames) \in 1..4 /\ (call.target[1] = Direct => Len(frames) = 1)
         /\ Len(frames) = 1 =>
              /\ Frame.op = call.op /\ (call.op # "read" => Frame.value = call.value)
              /\ Frame.reg = IF call.target[1] = Direct THEN call.target[2] ELSE MmdData
         /\ Len(frames) # 1 => Frame.op # "read"
         /\ Len(frames) = 2 => Frame.reg = MmdCtrl /\ Frame.value = DataMode(call.target[1])
         /\ Len(frames) = 3 => Frame.reg = MmdData /\ Frame.value = call.target[2]
         /\ Len(frames) = 4 => Frame.reg = MmdCtrl /\ Frame.value = call.target[1]
<1>1. BusTypeOK /\ FramesInv BY DEF BusInv
<1>2. call \in Calls BY <1>1 DEF BusTypeOK
<1>3. Len(frames) \in 1..4 /\ (call.target[1] = Direct => Len(frames) = 1) BY <1>1, <1>2, Current
<1>4. call.op \in {"read", "write"} BY <1>2, Targets
<1> DEFINE n == Len(frames)
<1>5. Frame = FrameAt(call, n) BY DEF Frame
<1>6. n \in 1..4 BY <1>3
<1> HIDE DEF n
<1>7. n = 1 => /\ Frame.op = call.op /\ (call.op # "read" => Frame.value = call.value)
               /\ Frame.reg = IF call.target[1] = Direct THEN call.target[2] ELSE MmdData
  BY <1>4, <1>5 DEF FrameAt, R, W
<1>8. n # 1 => Frame.op # "read" BY <1>5, <1>6 DEF FrameAt, W
<1>9. /\ n = 2 => Frame.reg = MmdCtrl /\ Frame.value = DataMode(call.target[1])
      /\ n = 3 => Frame.reg = MmdData /\ Frame.value = call.target[2]
      /\ n = 4 => Frame.reg = MmdCtrl /\ Frame.value = call.target[1]
  BY <1>5 DEF FrameAt, W
<1> QED BY <1>2, <1>3, <1>7, <1>8, <1>9 DEF n

\* What a call's last frame finds in the MMD registers, if it needs them.
LEMMA Selected ==
  ASSUME BusInv, frames # << >>, Len(frames) = 1, call.target[1] # Direct
  PROVE  InDataMode /\ MmdTarget = call.target
<1>1. MmdInv /\ call \in Calls BY Progress DEF BusTypeOK
<1>2. mmd.ctrl = DataMode(call.target[1]) /\ mmd.addr = call.target[2] BY <1>1 DEF MmdInv
<1>3. call.target[1] \in Value /\ call.target[1][DataNoInc] = 0
      /\ call.target = <<call.target[1], call.target[2]>>
  BY <1>1, Targets
<1> QED BY <1>2, <1>3, Modes DEF InDataMode, MmdTarget

\* What the PHY does with the last bit of each write frame: the first three
\* only select, the last one writes the register that the call names.
LEMMA WriteEffect ==
  ASSUME BusInv, frames # << >>, ~Written, Frame.op # "read", WriteReg(Frame.reg, Frame.value)
  PROVE  /\ Len(frames) = 4 => mmd'.ctrl = call.target[1]
         /\ Len(frames) = 3 => mmd'.ctrl = mmd.ctrl /\ mmd'.addr = call.target[2]
         /\ Len(frames) = 2 => mmd'.ctrl = DataMode(call.target[1]) /\ mmd'.addr = mmd.addr
         /\ Len(frames) # 1 => UNCHANGED regs
         /\ Len(frames) = 1 =>
              call.op = "write" /\ UNCHANGED mmd /\ regs' = [regs EXCEPT ![call.target] = call.value]
<1> DEFINE n   == Len(frames)
           r   == Frame.reg
           v   == Frame.value
           dev == call.target[1]
           reg == call.target[2]
<1>1. /\ call \in Calls /\ n \in 1..4 /\ (call.target[1] = Direct => n = 1)
      /\ n = 1 =>
           /\ Frame.op = call.op /\ (call.op # "read" => Frame.value = call.value)
           /\ Frame.reg = IF call.target[1] = Direct THEN call.target[2] ELSE MmdData
      /\ n = 2 => Frame.reg = MmdCtrl /\ Frame.value = DataMode(call.target[1])
      /\ n = 3 => Frame.reg = MmdData /\ Frame.value = call.target[2]
      /\ n = 4 => Frame.reg = MmdCtrl /\ Frame.value = call.target[1]
  BY Kinds
<1>2. MmdInv /\ regs \in [Target -> Value] /\ mmd \in [ctrl : Value, addr : Value]
  BY Progress DEF BusTypeOK
<1>3. /\ call.op \in {"read", "write"} /\ call.target \in Target
      /\ call.target = <<call.target[1], call.target[2]>>
      /\ call.target[1] = Direct => call.target[2] \in Addr \ {MmdCtrl, MmdData}
      /\ call.target[1] # Direct => call.target[1] \in Value /\ call.target[1][DataNoInc] = 0
  BY <1>1, Targets
<1>4. MmdCtrl # MmdData BY Words
<1>5. n # 1 => dev # Direct BY <1>1
<1>6. n = 3 => mmd.ctrl = dev BY <1>2, <1>5 DEF MmdInv
<1>10. n = 1 \/ n = 2 \/ n = 3 \/ n = 4
  <2>1. n \in 1..4 BY <1>1
  <2> HIDE DEF n
  <2> QED BY <2>1
<1> HIDE DEF n
<1> DEFINE E ==
      /\ n = 4 => mmd'.ctrl = dev
      /\ n = 3 => mmd'.ctrl = mmd.ctrl /\ mmd'.addr = reg
      /\ n = 2 => mmd'.ctrl = DataMode(dev) /\ mmd'.addr = mmd.addr
      /\ n # 1 => UNCHANGED regs
      /\ n = 1 =>
           call.op = "write" /\ UNCHANGED mmd /\ regs' = [regs EXCEPT ![call.target] = call.value]
<1>7. ASSUME n = 4 \/ n = 2 PROVE E
  <2>1. r = MmdCtrl /\ (n = 4 => v = dev) /\ (n = 2 => v = DataMode(dev)) BY <1>1, <1>7
  <2>2. mmd' = [mmd EXCEPT !.ctrl = v] /\ UNCHANGED regs BY <1>4, <2>1 DEF WriteReg
  <2>3. mmd'.ctrl = v /\ mmd'.addr = mmd.addr BY <1>2, <2>2
  <2> QED BY <1>7, <2>1, <2>2, <2>3
<1>8. ASSUME n = 3 PROVE E
  <2>1. r = MmdData /\ v = reg BY <1>1, <1>8
  <2>2. ~InDataMode BY <1>3, <1>5, <1>6, <1>8 DEF InDataMode
  <2>3. mmd' = [mmd EXCEPT !.addr = v] /\ UNCHANGED regs BY <1>4, <2>1, <2>2 DEF WriteReg
  <2>4. mmd'.addr = v /\ mmd'.ctrl = mmd.ctrl BY <1>2, <2>3
  <2> QED BY <1>8, <2>1, <2>3, <2>4
<1>9. ASSUME n = 1 PROVE E
  <2> DEFINE t == IF r = MmdData THEN MmdTarget ELSE <<Direct, r>>
  <2>1. call.op = "write" /\ v = call.value BY <1>1, <1>3, <1>9
  <2>2. r # MmdCtrl /\ (r = MmdData => InDataMode) /\ t = call.target
    <3>1. CASE dev = Direct
      <4>1. r = reg /\ reg # MmdCtrl /\ reg # MmdData BY <1>1, <1>3, <1>9, <3>1
      <4> QED BY <1>3, <3>1, <4>1
    <3>2. CASE dev # Direct
      <4>1. r = MmdData BY <1>1, <1>9, <3>2
      <4>2. InDataMode /\ MmdTarget = call.target BY <1>9, <3>2, Selected DEF n
      <4> QED BY <1>4, <4>1, <4>2
    <3> QED BY <3>1, <3>2
  <2>3. regs' = [u \in Target |-> IF u = t THEN v ELSE regs[u]] /\ UNCHANGED mmd
    BY <2>2 DEF WriteReg
  <2>4. regs' = [regs EXCEPT ![call.target] = call.value] BY <1>2, <2>1, <2>2, <2>3
  <2>5. n # 4 /\ n # 3 /\ n # 2 BY <1>9
  <2> QED BY <1>9, <2>1, <2>3, <2>4, <2>5, Zenon
<1> QED BY <1>7, <1>8, <1>9, <1>10 DEF n

\* What it looks up for a read: the register that the call names.
LEMMA ReadEffect ==
  ASSUME BusInv, frames # << >>, Frame.op = "read"
  PROVE  Len(frames) = 1 /\ call.op = "read" /\ RegValue(Frame.reg) = regs[call.target]
<1>1. Len(frames) = 1 /\ call.op = "read" /\ call \in Calls
      /\ Frame.reg = IF call.target[1] = Direct THEN call.target[2] ELSE MmdData
  BY Kinds
<1>2. /\ call.target \in Target /\ call.target = <<call.target[1], call.target[2]>>
      /\ call.target[1] = Direct => call.target[2] \in Addr \ {MmdCtrl, MmdData}
  BY <1>1, Targets
<1>3. MmdCtrl # MmdData BY Words
<1> DEFINE r == Frame.reg
           t == IF r = MmdData THEN MmdTarget ELSE <<Direct, r>>
<1>4. r # MmdCtrl /\ (r = MmdData => InDataMode) /\ t = call.target
  <2>1. CASE call.target[1] = Direct BY <1>1, <1>2, <2>1
  <2>2. CASE call.target[1] # Direct
    <3>1. InDataMode /\ MmdTarget = call.target BY <1>1, <2>2, Selected
    <3> QED BY <1>1, <1>3, <2>2, <3>1
  <2> QED BY <2>1, <2>2
<1>5. RegValue(r) = IF t \in Target THEN regs[t] ELSE Zero
  <2> HIDE DEF r
  <2> QED BY <1>4, Zenon DEF RegValue
<1> QED BY <1>1, <1>2, <1>4, <1>5

-----------------------------------------------------------------------------
\* A call begins with the bus at rest.
LEMMA CallInv == ASSUME BusInv, Call PROVE BusInv'
<1>1. /\ BusTypeOK /\ frames = << >> /\ clocks = 0 /\ ~m_ioSet /\ bits = << >> BY DEF BusInv, Call
<1>2. /\ call' \in Calls /\ frames' = FramesOf(call') /\ clocks' = 0 /\ ret' = Zero
      /\ UNCHANGED <<regs, m_ioSet, ioOut, ioBit, ones, bits, answer, mmd>>
  BY DEF Call, phy
<1>3. /\ frames' \in Seq(AnyFrame) /\ frames' # << >>
      /\ Len(frames') = IF call'.target[1] = Direct THEN 1 ELSE 4
      /\ \A i \in 1..Len(frames') : frames'[i] = FrameAt(call', Len(frames') + 1 - i)
  BY <1>2, NewFrames
<1>4. FramesInv'
  <2>1. Len(frames') \in 0..4 /\ (call'.target[1] = Direct => Len(frames') < 2)
    <3>1. CASE call'.target[1] = Direct BY <1>3, <3>1
    <3>2. CASE call'.target[1] # Direct BY <1>3, <3>2
    <3> QED BY <3>1, <3>2
  <2> QED BY <1>3, <2>1 DEF FramesInv
<1>5. /\ Preamble \in Nat /\ Preamble > 0 /\ FrameLen \in Nat /\ LastBit \in Nat /\ LastBit > 0
      /\ HeaderLen \in Nat /\ Zero \in Value
  BY Widths, Words
<1>6. BusTypeOK'
  <2>1. Len(frames') \in 0..4 BY <1>4 DEF FramesInv
  <2>2. 0 \in 0..(Preamble + FrameLen + 1) BY <1>5
  <2> QED BY <1>1, <1>2, <1>5, <2>1, <2>2 DEF BusTypeOK
<1>7. RetInv'
  <2>1. m_ioSet' = FALSE BY <1>1, <1>2 DEF BusTypeOK
  <2>2. ~(0 + 0 - (Preamble + HeaderLen + 2) \in 1..DataBits) BY <1>5
  <2> QED BY <1>2, <2>1, <2>2 DEF RetInv
<1>8. 0 < SymLen(Frame)' BY <1>5 DEF SymLen
<1>9. PhyInv' BY <1>1, <1>2, <1>5 DEF PhyInv, BusTypeOK
<1>10. IoInv' BY <1>1, <1>2 DEF IoInv
<1>11. MmdInv'
  <2>1. ~Written' BY <1>2, <1>5 DEF Written
  <2>2. call'.target[1] # Direct => 2 * Len(frames') - 0 = 8 BY <1>3
  <2> QED BY <2>1, <2>2 DEF MmdInv
<1> QED BY <1>2, <1>3, <1>4, <1>6, <1>7, <1>8, <1>9, <1>10, <1>11 DEF BusInv

\* The host sets m_io up, and takes a bit of the answer if it samples it.
LEMMA SetIoInv == ASSUME BusInv, SetIo PROVE BusInv'
<1>1. /\ frames # << >> /\ ~m_ioSet /\ m_ioSet' = TRUE
      /\ ioOut' = Symbol.out
      /\ ioBit' = IF Symbol.out THEN Symbol.bit ELSE ioBit
      /\ ret' = IF Symbol.sample THEN ShiftIn(ret, Wire) ELSE ret
      /\ UNCHANGED <<regs, call, frames, clocks, ones, bits, answer, mmd>>
  BY DEF SetIo, phy
<1> DEFINE f == Frame
           s == Symbols(f)
           k == clocks + 1
<1>2. /\ f \in AnyFrame /\ Symbol = s[k] /\ clocks \in Nat /\ k \in 1..SymLen(f)
      /\ PhyInv /\ MmdInv /\ FramesInv /\ BusTypeOK /\ RetInv /\ Symbol \in SymbolSet
      /\ clocks < SymLen(f)
  BY <1>1, Progress DEF BusInv
<1>3. Frame' = f /\ Symbol' = Symbol BY <1>1 DEF Frame, Symbol
<1>4. ASSUME NEW n \in 1..DataBits, k = Preamble + HeaderLen + 2 + n, f.op = "read"
      PROVE  Symbol.sample = TRUE /\ Wire = answer[n]
  <2>1. Symbol = Sample BY <1>2, <1>4, SymbolsOf
  <2>2. clocks = Preamble + HeaderLen + 1 + n BY <1>2, <1>4, Widths
  <2>3. Wire = answer[n] BY <1>1, <1>4, <2>2, Answered
  <2> QED BY <2>1, <2>3 DEF Sample
<1>5. ASSUME Symbol.sample
      PROVE  f.op = "read" /\ \E n \in 1..DataBits : k = Preamble + HeaderLen + 2 + n
  <2>1. /\ \A i \in 1..Preamble : s[i] = Float
        /\ \A i \in 1..SentLen(f) : s[Preamble + i] = Level(Sent(f)[i])
        /\ \A i \in 1..2 : s[Preamble + SentLen(f) + i] = Float
    BY <1>2, SymbolsOf
  <2>2. /\ SentLen(f) \in Nat /\ SymLen(f) \in Nat
        /\ f.op = "read" => SentLen(f) = HeaderLen /\ SymLen(f) = LastBit
        /\ f.op # "read" => SentLen(f) = FrameLen /\ SymLen(f) = LastBit + 2
    BY <1>2, Lengths
  <2>3. Symbol # Float /\ \A b : Symbol # Level(b) BY <1>5 DEF Float, Level
  <2> HIDE DEF s, f
  <2>4. ~(k \in 1..Preamble) BY <1>2, <2>1, <2>3
  <2>5. ~\E i \in 1..SentLen(f) : k = Preamble + i BY <1>2, <2>1, <2>3
  <2>6. ~\E i \in 1..2 : k = Preamble + SentLen(f) + i BY <1>2, <2>1, <2>3
  <2> HIDE DEF k
  <2> DEFINE j == k - Preamble
  <2>7. k \in Nat /\ k \in 1..SymLen(f) BY <1>2, <2>2
  <2>8. k > Preamble BY <2>4, <2>7, Widths
  <2>9. ~(j \in 1..SentLen(f))
    <3>1. k = Preamble + j BY <2>7, Widths
    <3> QED BY <2>5, <3>1
  <2>10. j > SentLen(f) BY <2>2, <2>7, <2>8, <2>9, Widths
  <2> DEFINE m == j - SentLen(f)
  <2>11. m # 1 /\ m # 2
    <3>1. k = Preamble + SentLen(f) + m BY <2>2, <2>7, Widths
    <3> QED BY <2>6, <3>1
  <2>12. m \in Nat /\ m > 2 BY <2>2, <2>7, <2>8, <2>10, <2>11, Widths
  <2>13. f.op = "read"
    <3>1. f.op # "read" => m <= 2 BY <2>2, <2>7, Widths
    <3> QED BY <2>12, <3>1
  <2> DEFINE n == k - (Preamble + HeaderLen + 2)
  <2>14. n \in 1..DataBits /\ k = Preamble + HeaderLen + 2 + n BY <2>2, <2>7, <2>12, <2>13, Widths
  <2> QED BY <2>13, <2>14
<1>6. ret' \in Value /\ (call'.op = "write" => ret' = Zero)
  <2>1. ret \in Value /\ Wire \in Bit
    <3>1. ioBit \in Bit /\ (PhyOut => PhyBit \in Bit) BY <1>2, PhyLevel DEF BusTypeOK
    <3> QED BY <1>2, <3>1 DEF BusTypeOK, Wire, Bit
  <2>2. ShiftIn(ret, Wire) \in Value
    <3>1. \A i \in 1..DataBits : i # DataBits => i + 1 \in 1..DataBits BY Widths
    <3> QED BY <2>1, <3>1 DEF ShiftIn, Value, Word
  <2>3. call.op = "write" => ~Symbol.sample
    <3>1. f.op = "read" => call.op = "read" BY <1>1, ReadEffect
    <3> QED BY <1>5, <3>1
  <2> QED BY <1>1, <1>2, <2>1, <2>2, <2>3 DEF RetInv
<1>7. BusTypeOK'
  <2>1. ioOut' \in BOOLEAN /\ ioBit' \in Bit BY <1>1, <1>2 DEF SymbolSet, BusTypeOK
  <2> QED BY <1>1, <1>2, <1>6, <2>1 DEF BusTypeOK
<1>8. RetInv'
  <2>1. ASSUME f.op = "read", NEW n \in 1..DataBits, clocks + 1 - (Preamble + HeaderLen + 2) = n
        PROVE  \A i \in 1..n : ret'[DataBits - n + i] = answer[i]
    <3>1. k = Preamble + HeaderLen + 2 + n BY <1>2, <2>1, Widths
    <3>2. Symbol.sample = TRUE /\ Wire = answer[n] BY <1>4, <2>1, <3>1
    <3>3. ret' = [i \in 1..DataBits |-> IF i = DataBits THEN answer[n] ELSE ret[i + 1]]
      BY <1>1, <3>2 DEF ShiftIn
    <3>4. n # 1 => \A i \in 1..n - 1 : ret[DataBits - (n - 1) + i] = answer[i]
      <4>1. clocks + 0 - (Preamble + HeaderLen + 2) = n - 1 BY <1>2, <2>1, Widths
      <4>2. n # 1 => n - 1 \in 1..DataBits BY <2>1, Widths
      <4> QED BY <1>1, <1>2, <2>1, <4>1, <4>2 DEF RetInv
    <3> TAKE i \in 1..n
    <3>5. CASE i = n
      <4>1. DataBits - n + i = DataBits /\ DataBits \in 1..DataBits BY <3>5, Widths
      <4> QED BY <3>3, <3>5, <4>1
    <3>6. CASE i # n
      <4> DEFINE p == DataBits - n + i
      <4>1. p \in 1..DataBits /\ p # DataBits /\ p + 1 = DataBits - (n - 1) + i /\ i \in 1..n - 1 /\ n # 1
        BY <3>6, Widths
      <4> HIDE DEF p
      <4>2. ret'[p] = ret[p + 1] BY <3>3, <4>1
      <4>3. ret[DataBits - (n - 1) + i] = answer[i] BY <3>4, <4>1
      <4> QED BY <4>1, <4>2, <4>3 DEF p
    <3> QED BY <3>5, <3>6
  <2>2. answer' = answer /\ clocks' = clocks /\ m_ioSet' = TRUE BY <1>1
  <2> QED BY <1>3, <1>6, <2>1, <2>2 DEF RetInv
<1>9. PhyInv' BY <1>1, <1>2, <1>3 DEF PhyInv
<1>10. IoInv' BY <1>1, <1>3 DEF IoInv
<1>11. MmdInv' BY <1>1, <1>2 DEF MmdInv, Written
<1>12. FramesInv' BY <1>1, <1>2 DEF FramesInv
<1>13. frames' # << >> /\ clocks' < SymLen(Frame)' BY <1>1, <1>2, <1>3 DEF SymLen
<1> QED BY <1>7, <1>8, <1>9, <1>10, <1>11, <1>12, <1>13 DEF BusInv

\* A clock within a frame.
LEMMA ClockInv ==
  ASSUME BusInv, ClockCycle, clocks + 1 # SymLen(Frame)
  PROVE  BusInv' /\ frames' = frames /\ clocks' = clocks + 1
<1> DEFINE f == Frame
           s == Symbols(f)
           k == clocks + 1
<1>1. /\ frames # << >> /\ m_ioSet /\ m_ioSet' = FALSE /\ (PhyIdle \/ PhyReceives)
      /\ UNCHANGED <<call, ioOut, ioBit, ret>>
  BY DEF ClockCycle
<1>2. /\ f \in AnyFrame /\ Symbol = s[k] /\ clocks \in Nat /\ k \in 1..SymLen(f)
      /\ Head(frames) = f /\ Len(s) = SymLen(f)
      /\ IoInv /\ MmdInv /\ FramesInv /\ BusTypeOK /\ RetInv
  BY <1>1, Progress
<1>3. frames' = frames /\ clocks' = k BY <1>2 DEF ClockCycle
<1>4. /\ bits' \in Seq(Bit) /\ Len(bits') < FrameLen /\ ones' \in 0..Preamble /\ answer' \in Value
      /\ k <= Preamble => bits' = << >> /\ ones' >= k
      /\ k \in Preamble + 1..LastBit - 1 =>
           /\ Len(bits') = k - Preamble
           /\ \A i \in 1..Len(bits') : i <= SentLen(f) => bits'[i] = Sent(f)[i]
      /\ k >= LastBit => bits' = << >>
      /\ k \in Preamble + HeaderLen + 1..LastBit - 1 => answer' = answer
      /\ IF k = LastBit /\ f.op # "read" THEN WriteReg(f.reg, f.value) ELSE UNCHANGED <<regs, mmd>>
  BY <1>1, OneClock
<1>5. Frame' = f BY <1>1, <1>3 DEF Frame
<1>6. /\ k < SymLen(f) /\ k \in Nat /\ SymLen(f) \in Nat /\ SymLen(f) <= LastBit + 2
      /\ f.op = "read" => SymLen(f) = LastBit
  BY <1>2, Lengths, Widths
<1>7. BusTypeOK'
  <2>1. k \in 0..(Preamble + FrameLen + 1) BY <1>6, Widths
  <2>2. regs' \in [Target -> Value] /\ mmd' \in [ctrl : Value, addr : Value]
    <3>1. f.value \in Value BY <1>2 DEF AnyFrame
    <3>2. regs \in [Target -> Value] /\ mmd \in [ctrl : Value, addr : Value] BY <1>2 DEF BusTypeOK
    <3>3. WriteReg(f.reg, f.value) => regs' \in [Target -> Value] /\ mmd' \in [ctrl : Value, addr : Value]
      BY <1>2, <3>1, RegTypes
    <3> QED BY <1>4, <3>2, <3>3
  <2> QED BY <1>1, <1>2, <1>3, <1>4, <2>1, <2>2 DEF BusTypeOK
<1>8. FramesInv' BY <1>1, <1>2, <1>3 DEF FramesInv
<1>9. PhyInv' BY <1>3, <1>4, <1>5 DEF PhyInv
<1>10. IoInv'
  <2>1. ioOut' = s[k].out BY <1>1, <1>2 DEF IoInv
  <2> QED BY <1>1, <1>3, <1>5, <2>1 DEF IoInv
<1>11. RetInv'
  <2>1. call'.op = "write" => ret' = Zero BY <1>1, <1>2 DEF RetInv
  <2>2. ASSUME f.op = "read", k + 0 - (Preamble + HeaderLen + 2) \in 1..DataBits,
               NEW i \in 1..k + 0 - (Preamble + HeaderLen + 2)
        PROVE  ret'[DataBits - (k + 0 - (Preamble + HeaderLen + 2)) + i] = answer'[i]
    <3>1. k \in Preamble + HeaderLen + 1..LastBit - 1 BY <1>6, <2>2, Widths
    <3>2. answer' = answer BY <1>4, <3>1
    <3>3. clocks + 1 - (Preamble + HeaderLen + 2) = k + 0 - (Preamble + HeaderLen + 2) BY <1>2, Widths
    <3>4. ret[DataBits - (k + 0 - (Preamble + HeaderLen + 2)) + i] = answer[i]
      BY <1>1, <1>2, <2>2, <3>3 DEF RetInv
    <3> QED BY <1>1, <3>2, <3>4
  <2> HIDE DEF f, k
  <2> QED BY <1>1, <1>3, <1>5, <2>1, <2>2 DEF RetInv
<1>12. MmdInv'
  <2> DEFINE n == Len(frames)
  <2>1. call' = call /\ Len(frames') = n /\ n \in 1..4 BY <1>1, <1>3, Kinds
  <2>2. CASE k = LastBit /\ f.op # "read"
    <3>1. ~Written /\ Written' BY <1>2, <1>3, <2>2, Widths DEF Written
    <3>2. WriteReg(f.reg, f.value) BY <1>4, <2>2
    <3>3. /\ n = 4 => mmd'.ctrl = call.target[1]
          /\ n = 3 => mmd'.ctrl = mmd.ctrl /\ mmd'.addr = call.target[2]
          /\ n = 2 => mmd'.ctrl = DataMode(call.target[1]) /\ mmd'.addr = mmd.addr
          /\ n = 1 => mmd' = mmd
      BY <1>1, <2>2, <3>1, <3>2, WriteEffect
    <3>4. call.target[1] # Direct =>
            /\ 2 * n - 0 \in 4..7 => mmd.ctrl = call.target[1]
            /\ 2 * n - 0 < 4 => mmd.ctrl = DataMode(call.target[1])
            /\ 2 * n - 0 < 6 => mmd.addr = call.target[2]
      BY <1>2, <3>1 DEF MmdInv
    <3> HIDE DEF n
    <3>5. call.target[1] # Direct =>
            /\ 2 * n - 1 \in 4..7 => mmd'.ctrl = call.target[1]
            /\ 2 * n - 1 < 4 => mmd'.ctrl = DataMode(call.target[1])
            /\ 2 * n - 1 < 6 => mmd'.addr = call.target[2]
      <4>1. n = 1 \/ n = 2 \/ n = 3 \/ n = 4 BY <2>1
      <4> QED BY <3>3, <3>4, <4>1
    <3> QED BY <2>1, <3>1, <3>5 DEF MmdInv
  <2>3. CASE ~(k = LastBit /\ f.op # "read")
    <3>1. mmd' = mmd BY <1>4, <2>3
    <3>2. Written' <=> Written BY <1>2, <1>3, <1>6, <2>3, Widths DEF Written
    <3> QED BY <1>2, <2>1, <3>1, <3>2 DEF MmdInv
  <2> QED BY <2>2, <2>3
<1>13. frames' # << >> /\ clocks' < SymLen(Frame)' BY <1>1, <1>3, <1>5, <1>6 DEF SymLen
<1>14. BusInv' BY <1>7, <1>8, <1>9, <1>10, <1>11, <1>12, <1>13 DEF BusInv
<1> QED BY <1>3, <1>14

\* The last clock of a frame.
LEMMA LastClockInv ==
  ASSUME BusInv, ClockCycle, clocks + 1 = SymLen(Frame)
  PROVE  /\ BusInv' /\ frames' = Tail(frames) /\ UNCHANGED <<regs, mmd>>
         /\ frames' = << >> <=> Len(frames) = 1
<1> DEFINE f == Frame
           s == Symbols(f)
           k == clocks + 1
           n == Len(frames)
<1>1. /\ frames # << >> /\ m_ioSet /\ m_ioSet' = FALSE /\ (PhyIdle \/ PhyReceives)
      /\ UNCHANGED <<call, ioOut, ioBit, ret>>
  BY DEF ClockCycle
<1>2. /\ f \in AnyFrame /\ clocks \in Nat /\ k \in 1..SymLen(f)
      /\ Head(frames) = f /\ Len(s) = SymLen(f)
      /\ MmdInv /\ FramesInv /\ BusTypeOK /\ RetInv
  BY <1>1, Progress
<1>3. frames' = Tail(frames) /\ clocks' = 0 BY <1>2 DEF ClockCycle
<1>4. call \in Calls BY <1>2 DEF BusTypeOK
<1>5. /\ n \in 1..4 /\ (call.target[1] = Direct => n = 1)
      /\ frames' \in Seq(AnyFrame) /\ Len(frames') = n - 1
      /\ \A i \in 1..Len(frames') : frames'[i] = FrameAt(call, Len(frames') + 1 - i)
  BY <1>1, <1>2, <1>3, <1>4, Current
<1>7. k >= LastBit /\ ~(k = LastBit /\ f.op # "read") BY <1>2, Lengths, Widths
<1>8. /\ bits' = << >> /\ bits' \in Seq(Bit) /\ Len(bits') < FrameLen
      /\ ones' \in 0..Preamble /\ answer' \in Value
      /\ UNCHANGED <<regs, mmd>>
  BY <1>1, <1>7, OneClock
<1>9. FramesInv'
  <2>1. Len(frames') \in 0..4 /\ (call'.target[1] = Direct => Len(frames') < 2)
    <3>1. call' = call BY <1>1
    <3> DEFINE m == Len(frames')
    <3>2. m = n - 1 /\ n \in 1..4 /\ (call.target[1] = Direct => n = 1) BY <1>5
    <3> HIDE DEF m, n
    <3>3. m \in 0..4 BY <3>2
    <3>4. call.target[1] = Direct => m < 2 BY <3>2
    <3> QED BY <3>1, <3>3, <3>4 DEF m
  <2> QED BY <1>1, <1>5, <2>1 DEF FramesInv
<1>10. BusTypeOK'
  <2>1. 0 \in 0..(Preamble + FrameLen + 1) BY Widths
  <2>2. Len(frames') \in 0..4 BY <1>9 DEF FramesInv
  <2> QED BY <1>1, <1>2, <1>3, <1>8, <2>1, <2>2 DEF BusTypeOK
<1>11. RetInv'
  <2>1. call'.op = "write" => ret' = Zero BY <1>1, <1>2 DEF RetInv
  <2>2. ~(0 + 0 - (Preamble + HeaderLen + 2) \in 1..DataBits) BY Widths
  <2> QED BY <1>1, <1>3, <2>1, <2>2 DEF RetInv
<1>12. PhyInv' BY <1>3, <1>8, Widths DEF PhyInv
<1>13. IoInv' BY <1>1, <1>3 DEF IoInv
<1>14. n # 1 => MmdInv'
  <2> SUFFICES ASSUME n # 1 PROVE MmdInv'
    OBVIOUS
  <2>1. f.op # "read" BY <1>1, Kinds
  <2>2. Written /\ ~Written'
    <3>1. clocks >= LastBit BY <1>2, <2>1, Lengths, Widths
    <3> QED BY <1>3, <3>1, Widths DEF Written
  <2>3. call' = call /\ mmd' = mmd /\ Len(frames') = n - 1 BY <1>1, <1>5, <1>8
  <2>4. call.target[1] # Direct =>
          /\ 2 * n - 1 \in 4..7 => mmd.ctrl = call.target[1]
          /\ 2 * n - 1 < 4 => mmd.ctrl = DataMode(call.target[1])
          /\ 2 * n - 1 < 6 => mmd.addr = call.target[2]
    BY <1>2, <2>2 DEF MmdInv
  <2>5. n \in 1..4 BY <1>5
  <2> HIDE DEF n
  <2>6. call.target[1] # Direct =>
          /\ 2 * (n - 1) - 0 \in 4..7 => mmd.ctrl = call.target[1]
          /\ 2 * (n - 1) - 0 < 4 => mmd.ctrl = DataMode(call.target[1])
          /\ 2 * (n - 1) - 0 < 6 => mmd.addr = call.target[2]
    <3>1. n = 2 \/ n = 3 \/ n = 4 BY <2>5
    <3> QED BY <2>4, <3>1
  <2> QED BY <2>2, <2>3, <2>6 DEF MmdInv
<1>15. 0 < SymLen(Frame)' BY Widths DEF SymLen
<1>16. frames' = << >> <=> n = 1
  <2>1. frames' = << >> <=> Len(frames') = 0 BY <1>5, EmptySeq
  <2>2. Len(frames') = 0 <=> n = 1
    <3>1. n \in 1..4 /\ Len(frames') = n - 1 BY <1>5
    <3> HIDE DEF n
    <3> QED BY <3>1
  <2> QED BY <2>1, <2>2
<1>17. BusInv'
  BY <1>1, <1>3, <1>8, <1>9, <1>10, <1>11, <1>12, <1>13, <1>14, <1>15, <1>16 DEF BusInv
<1> QED BY <1>3, <1>8, <1>16, <1>17

\* Status bits that change touch nothing else.
LEMMA ChangeInv == ASSUME BusInv, Change PROVE BusInv'
<1>1. UNCHANGED <<host, phy>> BY DEF Change
<1>2. /\ UNCHANGED <<call, frames, clocks, m_ioSet, ioOut, ioBit, ret>>
      /\ UNCHANGED <<ones, bits, answer, mmd>>
  BY <1>1 DEF host, phy
<1>3. regs' \in [Target -> Value]
  <2>1. regs \in [Target -> Value] BY DEF BusInv, BusTypeOK
  <2> QED BY <2>1 DEF Change
<1>4. BusTypeOK' /\ FramesInv' /\ RetInv'
  BY <1>2, <1>3 DEF BusInv, BusTypeOK, FramesInv, RetInv, Frame
<1>5. frames # << >> => clocks' < SymLen(Frame)' /\ PhyInv' /\ IoInv' /\ MmdInv'
  BY <1>2 DEF BusInv, PhyInv, IoInv, MmdInv, Frame, Symbol, Written, SymLen
<1> QED BY <1>2, <1>4, <1>5 DEF BusInv

\* The PHY never loses its place in a frame, and the MMD registers and what
\* has been sampled are always those of the call in progress.
THEOREM BusInductive == BusSpec => []BusInv
<1>1. BusInit => BusInv
  <2> SUFFICES ASSUME BusInit PROVE BusInv
    OBVIOUS
  <2>1. /\ regs = [t \in Target |-> Zero]
        /\ call = [op |-> "read", target |-> CHOOSE t \in Target : TRUE, value |-> Zero]
        /\ frames = << >> /\ clocks = 0 /\ m_ioSet = FALSE
        /\ ioOut = FALSE /\ ioBit = 0 /\ ret = Zero
        /\ ones = 0 /\ bits = << >> /\ answer = Zero /\ mmd = [ctrl |-> Zero, addr |-> Zero]
    BY DEF BusInit
  <2>2. Zero \in Value /\ Target # {} BY Words, BitbangedAssumption
  <2>3. call \in Calls BY <2>1, <2>2 DEF Calls
  <2>4. Len(frames) = 0 /\ frames \in Seq(AnyFrame) /\ bits \in Seq(Bit) /\ Len(bits) = 0 BY <2>1
  <2>5. 0 \in 0..(Preamble + FrameLen + 1) /\ 0 \in 0..Preamble /\ 0 < FrameLen BY Widths
  <2>6. BusTypeOK
    <3>1. regs \in [Target -> Value] /\ mmd \in [ctrl : Value, addr : Value] BY <2>1, <2>2
    <3>2. Len(frames) \in 0..4 /\ ioBit \in Bit BY <2>1, <2>4 DEF Bit
    <3> QED BY <2>1, <2>2, <2>3, <2>4, <2>5, <3>1, <3>2 DEF BusTypeOK
  <2>7. FramesInv BY <2>4 DEF FramesInv
  <2>8. RetInv BY <2>1 DEF RetInv
  <2> QED BY <2>1, <2>6, <2>7, <2>8 DEF BusInv
<1>2. BusInv /\ [BusNext]_busvars => BusInv'
  <2>1. ASSUME BusInv, BusNext PROVE BusInv'
    BY <2>1, CallInv, SetIoInv, ClockInv, LastClockInv, ChangeInv DEF BusNext
  <2>2. ASSUME BusInv, UNCHANGED busvars PROVE BusInv'
    <3>1. UNCHANGED <<regs, call, frames, clocks, m_ioSet, ioOut, ioBit, ret, ones, bits, answer, mmd>>
      BY <2>2 DEF busvars, host, phy
    <3>2. BusTypeOK' /\ FramesInv' /\ RetInv'
      BY <2>2, <3>1 DEF BusInv, BusTypeOK, FramesInv, RetInv, Frame
    <3>3. frames # << >> => clocks' < SymLen(Frame)' /\ PhyInv' /\ IoInv' /\ MmdInv'
      BY <2>2, <3>1 DEF BusInv, PhyInv, IoInv, MmdInv, Frame, Symbol, Written, SymLen
    <3> QED BY <2>2, <3>1, <3>2, <3>3 DEF BusInv
  <2> QED BY <2>1, <2>2
<1> QED BY <1>1, <1>2, PTL DEF BusSpec

\* The types of the bus hold; no frame is longer than the PHY takes it for.
THEOREM BusTypes == BusSpec => []BusTypeOK
<1>1. BusInv => BusTypeOK BY DEF BusInv
<1> QED BY <1>1, BusInductive, PTL

\* Host and PHY never drive MDIO at the same time, whatever the widths.
THEOREM OneDriver == BusSpec => []NoContention
<1>1. BusInv => NoContention
  <2> SUFFICES ASSUME BusInv, ioOut = TRUE, PhyOut PROVE FALSE
    BY DEF BusInv, BusTypeOK, NoContention
  <2>1. bits # << >>
    <3>1. Len(<< >>) = 0 /\ ~(0 > HeaderLen) BY Widths
    <3> QED BY <3>1 DEF PhyOut
  <2>2. frames # << >> BY <2>1 DEF BusInv
  <2> DEFINE f == Frame
  <2>3. /\ f \in AnyFrame /\ PhyInv /\ IoInv /\ clocks \in Nat /\ clocks + 1 \in 1..SymLen(f)
        /\ Symbol = Symbols(f)[clocks + 1] /\ m_ioSet \in BOOLEAN
    BY <2>2, Progress DEF BusTypeOK
  <2> HIDE DEF f
  <2>4. clocks \in Preamble + 1..LastBit - 1 BY <2>1, <2>3, Widths DEF PhyInv
  <2>5. Len(bits) = clocks - Preamble /\ \A i \in 1..Len(bits) : i <= SentLen(f) => bits[i] = Sent(f)[i]
    BY <2>3, <2>4 DEF PhyInv, f
  <2>6. clocks - Preamble > HeaderLen BY <2>5 DEF PhyOut
  <2>7. f.op = "read"
    <3>1. SentLen(f) \in Nat /\ SentLen(f) >= HeaderLen BY <2>3, Lengths
    <3>2. \A i \in 1..HeaderLen : i \in 1..clocks - Preamble /\ i <= SentLen(f) BY <2>3, <2>6, <3>1, Widths
    <3>3. \A i \in 1..HeaderLen : bits[i] = Sent(f)[i] BY <2>5, <3>2
    <3>4. IsRead(bits) BY DEF PhyOut
    <3> QED BY <2>3, <3>3, <3>4, HeaderKnown
  <2>8. SymLen(f) = LastBit BY <2>3, <2>7, Lengths
  <2>9. /\ clocks \in Preamble + HeaderLen + 1..LastBit /\ clocks > 0
        /\ clocks + 1 \in Preamble + HeaderLen + 1..LastBit
    BY <2>3, <2>4, <2>6, <2>8, Widths
  <2>10. Symbols(f)[clocks].out = FALSE /\ Symbols(f)[clocks + 1].out = FALSE
    BY <2>3, <2>7, <2>9, Released
  <2> QED BY <2>3, <2>9, <2>10 DEF IoInv, f
<1> QED BY <1>1, BusInductive, PTL

-----------------------------------------------------------------------------
(* The abstract interface.                                                 *)
Phase  == IF frames = << >> THEN "idle" ELSE IF Done THEN "done" ELSE "called"
Result == IF frames = << >> THEN ret
          ELSE IF Done /\ call.op = "read" THEN answer ELSE Zero

\* Done, by the clocks of the last frame.
LEMMA WhenDone ==
  ASSUME BusInv, frames # << >>
  PROVE  Done <=> Len(frames) = 1 /\ IF Frame.op = "read" THEN clocks >= Preamble + HeaderLen ELSE Written
<1>1. Len(frames) = 1 => Frame.op = call.op BY Kinds
<1>2. LastBit = Preamble + FrameLen BY Widths
<1> QED BY <1>1, <1>2 DEF Done, Written

LEMMA AbstractCall == ASSUME BusInv, Call PROVE Abstract!Call
<1>1. frames = << >> /\ call' \in Calls /\ frames' = FramesOf(call') /\ clocks' = 0 /\ UNCHANGED regs
  BY DEF Call
<1>2. frames' # << >> BY <1>1, NewFrames
<1>3. ~Done' BY <1>1, Widths DEF Done
<1> QED BY <1>1, <1>2, <1>3 DEF Abstract!Call, Abstract!Calls, Calls

LEMMA AbstractSetIo == ASSUME BusInv, SetIo PROVE UNCHANGED <<regs, Phase, call, Result>>
<1>1. frames # << >> /\ UNCHANGED <<regs, call, frames, clocks, answer>> BY DEF SetIo, phy
<1>2. Done' <=> Done BY <1>1 DEF Done
<1> QED BY <1>1, <1>2 DEF Phase, Result

LEMMA AbstractChange == ASSUME BusInv, Change PROVE Abstract!Change
<1>1. /\ \E t \in Status, v \in Value : regs' = [regs EXCEPT ![t] = v]
      /\ UNCHANGED <<call, frames, clocks, ret, answer>>
  BY DEF Change, host, phy
<1>2. Done' <=> Done BY <1>1 DEF Done
<1> QED BY <1>1, <1>2 DEF Abstract!Change

\* A clock within a frame is the effect of the call or invisible.
LEMMA AbstractClock ==
  ASSUME BusInv, ClockCycle, clocks + 1 # SymLen(Frame)
  PROVE  Abstract!Effect \/ UNCHANGED <<regs, Phase, call, Result>>
<1> DEFINE f == Frame
           k == clocks + 1
           n == Len(frames)
<1>1. frames # << >> /\ m_ioSet /\ (PhyIdle \/ PhyReceives) /\ call' = call BY DEF ClockCycle
<1>2. BusInv' /\ frames' = frames /\ clocks' = k BY ClockInv
<1>3. Frame' = f BY <1>1, <1>2 DEF Frame
<1>4. /\ f \in AnyFrame /\ clocks \in Nat /\ k \in 1..SymLen(f) BY <1>1, Progress
<1>5. /\ f.op = "read" /\ k = Preamble + HeaderLen => answer' = RegValue(f.reg)
      /\ k \in Preamble + HeaderLen + 1..LastBit - 1 => answer' = answer
      /\ IF k = LastBit /\ f.op # "read" THEN WriteReg(f.reg, f.value) ELSE UNCHANGED <<regs, mmd>>
  BY <1>1, OneClock
<1>6. /\ Done <=> n = 1 /\ IF f.op = "read" THEN clocks >= Preamble + HeaderLen ELSE Written
      /\ Done' <=> n = 1 /\ IF f.op = "read" THEN k >= Preamble + HeaderLen ELSE Written'
      /\ n = 1 => f.op = call.op
  <2>1. n = 1 => f.op = call.op BY <1>1, Kinds
  <2>2. Done' <=> n = 1 /\ k >= Preamble + (IF call.op = "read" THEN HeaderLen ELSE FrameLen)
    BY <1>1, <1>2 DEF Done
  <2>3. Written' <=> k >= Preamble + FrameLen BY <1>2, Widths DEF Written
  <2> QED BY <1>1, <2>1, <2>2, <2>3, WhenDone
<1>7. /\ SymLen(f) \in Nat /\ (f.op = "read" => SymLen(f) = LastBit) /\ k < SymLen(f)
      /\ Written <=> clocks >= LastBit
      /\ Written' <=> k >= LastBit
  BY <1>2, <1>4, Lengths DEF Written
<1>8. CASE ~Done /\ Done'
  <2>1. n = 1 /\ f.op = call.op BY <1>6, <1>8
  <2>2. CASE f.op = "read"
    <3>1. k = Preamble + HeaderLen BY <1>4, <1>6, <1>8, <2>2, Widths
    <3>2. k # LastBit BY <3>1, Widths
    <3>3. answer' = regs[call.target] /\ UNCHANGED regs BY <1>1, <1>5, <2>2, <3>1, <3>2, ReadEffect
    <3> QED BY <1>1, <1>2, <1>8, <2>1, <2>2, <3>3 DEF Abstract!Effect
  <2>3. CASE f.op # "read"
    <3>1. k = LastBit /\ ~Written BY <1>4, <1>6, <1>7, <1>8, <2>3, Widths
    <3>2. call.op = "write" /\ regs' = [regs EXCEPT ![call.target] = call.value]
      BY <1>1, <1>5, <2>1, <2>3, <3>1, WriteEffect
    <3> QED BY <1>1, <1>2, <1>8, <3>2 DEF Abstract!Effect
  <2> QED BY <2>2, <2>3
<1>9. CASE Done
  <2>1. n = 1 /\ f.op = call.op BY <1>6, <1>9
  <2>2. Done' BY <1>4, <1>6, <1>7, <1>9, Widths
  <2>3. UNCHANGED regs
    <3>1. ~(k = LastBit /\ f.op # "read") BY <1>4, <1>6, <1>7, <1>9, Widths
    <3> QED BY <1>5, <3>1
  <2>4. call.op = "read" => answer' = answer
    <3>1. f.op = "read" => k \in Preamble + HeaderLen + 1..LastBit - 1 BY <1>4, <1>6, <1>7, <1>9, Widths
    <3> QED BY <1>5, <2>1, <3>1
  <2> QED BY <1>1, <1>2, <1>9, <2>2, <2>3, <2>4 DEF Phase, Result
<1>10. CASE ~Done /\ ~Done'
  <2>1. UNCHANGED regs
    <3>1. CASE ~(k = LastBit /\ f.op # "read") BY <1>5, <3>1
    <3>2. CASE k = LastBit /\ f.op # "read"
      <4>1. n # 1 /\ ~Written BY <1>4, <1>6, <1>7, <1>10, <3>2, Widths
      <4> QED BY <1>1, <1>5, <3>2, <4>1, WriteEffect
    <3> QED BY <3>1, <3>2
  <2> QED BY <1>1, <1>2, <1>10, <2>1 DEF Phase, Result
<1> QED BY <1>8, <1>9, <1>10

\* The last clock of the last frame is the return of the call.
LEMMA AbstractLastClock ==
  ASSUME BusInv, ClockCycle, clocks + 1 = SymLen(Frame)
  PROVE  Abstract!Return \/ UNCHANGED <<regs, Phase, call, Result>>
<1>1. frames # << >> /\ m_ioSet /\ UNCHANGED <<call, ret>> BY DEF ClockCycle
<1>2. BusInv' /\ frames' = Tail(frames) /\ UNCHANGED regs /\ (frames' = << >> <=> Len(frames) = 1)
  BY LastClockInv
<1>3. clocks' = 0
  <2>1. Head(frames) = Frame /\ Len(Symbols(Frame)) = SymLen(Frame) BY <1>1, Progress
  <2> QED BY <2>1 DEF ClockCycle
<1>4. Frame \in AnyFrame /\ clocks \in Nat /\ RetInv BY <1>1, Progress
<1>5. /\ Frame.op = "read" => clocks = LastBit - 1
      /\ Frame.op # "read" => clocks = LastBit + 1
  BY <1>4, Lengths, Widths
<1>6. CASE Len(frames) # 1
  <2>1. frames' # << >> /\ ~Done BY <1>2, <1>6 DEF Done
  <2>2. ~Done' BY <1>3, Widths DEF Done
  <2> QED BY <1>1, <1>2, <2>1, <2>2 DEF Phase, Result
<1>7. CASE Len(frames) = 1
  <2>1. Frame.op = call.op /\ frames' = << >> BY <1>1, <1>2, <1>7, Kinds
  <2>2. Done
    <3>1. IF Frame.op = "read" THEN clocks >= Preamble + HeaderLen ELSE Written
      BY <1>5, Widths DEF Written
    <3> QED BY <1>1, <1>7, <3>1, WhenDone
  <2>3. ret = IF call.op = "read" THEN answer ELSE Zero
    <3>1. CASE call.op = "read"
      <4>1. clocks + 1 - (Preamble + HeaderLen + 2) = DataBits /\ DataBits \in 1..DataBits
        BY <1>5, <2>1, <3>1, Widths
      <4>2. \A i \in 1..DataBits : ret[DataBits - DataBits + i] = answer[i]
        BY <1>1, <1>4, <2>1, <3>1, <4>1 DEF RetInv
      <4>3. \A i \in 1..DataBits : DataBits - DataBits + i = i BY Widths
      <4>4. \A i \in 1..DataBits : ret[i] = answer[i] BY <4>2, <4>3
      <4>5. ret \in Value /\ answer \in Value BY DEF BusInv, BusTypeOK
      <4>6. ret = answer
        <5>1. /\ ret = [i \in 1..DataBits |-> ret[i]]
              /\ answer = [i \in 1..DataBits |-> answer[i]]
          BY <4>5 DEF Value, Word
        <5> QED BY <4>4, <5>1
      <4> QED BY <3>1, <4>6
    <3>2. CASE call.op # "read"
      <4>1. call.op = "write"
        <5>1. call \in Calls BY DEF BusInv, BusTypeOK
        <5> QED BY <3>2, <5>1 DEF Calls
      <4> QED BY <1>4, <3>2, <4>1 DEF RetInv
    <3> QED BY <3>1, <3>2
  <2> QED BY <1>1, <1>2, <2>1, <2>2, <2>3 DEF Abstract!Return
<1> QED BY <1>6, <1>7

\* Whatever the widths, each Read, Write, ReadMMD and WriteMMD touches just
\* the register it names, once, between call and return, and returns what the
\* PHY held: the bit-banged bus implements the abstract interface.
THEOREM CallsHappenOnce == BusSpec => Abstract!Safety
<1>1. BusInit => Abstract!Init
  <2> SUFFICES ASSUME BusInit PROVE Abstract!Init
    OBVIOUS
  <2>1. regs \in [Target -> Value] /\ frames = << >> /\ ret = Zero BY Words DEF BusInit
  <2>2. call \in [op : {"read", "write"}, target : Target, value : Value]
    <3>1. Target # {} BY BitbangedAssumption
    <3>2. call = [op |-> "read", target |-> CHOOSE t \in Target : TRUE, value |-> Zero] BY DEF BusInit
    <3> QED BY <3>1, <3>2, Words
  <2> QED BY <2>1, <2>2 DEF Abstract!Init, Abstract!Calls
<1>2. BusInv /\ [BusNext]_busvars => [Abstract!Next]_(Abstract!mdvars)
  <2>1. UNCHANGED <<regs, Phase, call, Result>> => UNCHANGED Abstract!mdvars
    BY DEF Phase, Result, Abstract!mdvars
  <2>2. ASSUME BusInv, BusNext PROVE Abstract!Next \/ UNCHANGED <<regs, Phase, call, Result>>
    <3>1. CASE Call BY <2>2, <3>1, AbstractCall DEF Abstract!Next
    <3>2. CASE SetIo BY <2>2, <3>2, AbstractSetIo
    <3>3. CASE ClockCycle BY <2>2, <3>3, AbstractClock, AbstractLastClock DEF Abstract!Next
    <3>4. CASE Change BY <2>2, <3>4, AbstractChange DEF Abstract!Next
    <3> QED BY <2>2, <3>1, <3>2, <3>3, <3>4 DEF BusNext
  <2>3. ASSUME UNCHANGED busvars PROVE UNCHANGED <<regs, Phase, call, Result>>
    <3>1. UNCHANGED <<regs, call, frames, clocks, ret, answer>> BY <2>3 DEF busvars, host, phy
    <3>2. Done' <=> Done BY <3>1 DEF Done
    <3> QED BY <3>1, <3>2 DEF Phase, Result
  <2> QED BY <2>1, <2>2, <2>3
<1> QED BY <1>1, <1>2, BusInductive, PTL DEF BusSpec, Abstract!Safety
=============================================================================
