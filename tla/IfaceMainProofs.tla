---------------------------- MODULE IfaceMainProofs ----------------------------
(***************************************************************************)
(* Proofs about the main MCU of fpga-stm32-ifaces, for every width of the  *)
(* timer, every set of link speeds and any number of resets: types, ticks  *)
(* that are neither early nor late, the speed the stack is told, and a     *)
(* boot that uses nothing before it is set up.  The timers come first:     *)
(* TInv is kept by every step of LoopTimers.                               *)
(***************************************************************************)
EXTENDS IfaceMain, TLAPS

-----------------------------------------------------------------------------
(* The timers.                                                             *)

\* The timer has been wound back, or will be before it can wrap.
CountInv ==
  /\ pc \in {"10Hz", "1Hz"} => count < LogTimerMax + lap
  /\ pc \in {"phy", "poll", "wind"} => count < LogTimerMax + MaxLap + lap

\* A deadline whose period has not passed yet lies as far ahead, or farther.
Ahead(next, age, period) == age < period => next >= count + period - age

\* Unless a deadline was due at a wind-back, a deadline is where its last tick
\* put it, and each tick was late by no more than the way round the loop.
Exact(next, age, period) == next + age = count + period
LateInv ==
  ~slipped => /\ Exact(next1HzTick, since1, Period1) /\ Exact(next10HzTick, since10, Period10)
              /\ since1 <= Period1 + lap
              /\ pc = "1Hz" => since10 < Period10 + lap
              /\ pc # "1Hz" => since10 < Period10 + MaxLap + lap

TInv ==
  /\ TimersOK /\ CountInv /\ LateInv
  /\ pc = "poll" => sincePhy >= PhyPeriod
  /\ Ahead(next1HzTick, since1, Period1) /\ Ahead(next10HzTick, since10, Period10)
  /\ Ahead(nextPhyPoll, sincePhy, PhyPeriod)

-----------------------------------------------------------------------------
\* The constants as numbers.
LEMMA Constants ==
  /\ W \in Nat \ {0} /\ LogTimerMax \in Nat \ {0} /\ MaxLap \in Nat \ {0}
  /\ Period1 \in Nat \ {0} /\ Period10 \in Nat \ {0} /\ PhyPeriod \in Nat \ {0}
  /\ MaxLap < Period10 /\ MaxLap < PhyPeriod /\ MaxLap < Period1
  /\ LogTimerMax + MaxLap + Period1 < W /\ LogTimerMax + MaxLap + Period10 < W
  /\ LogTimerMax + 2 * MaxLap + PhyPeriod <= W /\ 2 * MaxLap < LogTimerMax
<1>1. /\ W \in Nat \ {0} /\ LogTimerMax \in Nat \ {0} /\ MaxLap \in Nat \ {0}
      /\ Period1 \in Nat \ {0} /\ Period10 \in Nat \ {0} /\ PhyPeriod \in Nat \ {0}
  BY LoopTimersAssumption
<1> QED BY <1>1, LoopTimersAssumption

\* Arithmetic modulo W, with and without a wrap.
LEMMA Modulo ==
  ASSUME NEW a \in Int PROVE a % W \in 0..W - 1 /\ (a \in 0..W - 1 => a % W = a)
BY Constants, SMT

LEMMA NoWrap == ASSUME NEW a \in Nat, NEW p \in Nat, a + p < W PROVE (a + p) % W = a + p
BY Constants, Modulo

\* The variables as numbers.
LEMMA Numbers ==
  ASSUME TInv
  PROVE  /\ count \in Nat /\ lap \in Nat /\ lap <= MaxLap /\ count < LogTimerMax + 2 * MaxLap
         /\ next1HzTick \in Nat /\ next10HzTick \in Nat /\ nextPhyPoll \in Nat
         /\ since1 \in Nat /\ since10 \in Nat /\ sincePhy \in Nat
BY Constants DEF TInv, TimersOK

-----------------------------------------------------------------------------
\* A tick ages everything by one, and does not wrap the timer.
LEMMA TickInv == ASSUME TInv, Tick PROVE TInv'
<1>1. count + 1 \in 0..W - 1 BY Constants, Numbers
<1>2. count' = count + 1 BY <1>1, Modulo, Numbers DEF Tick
<1>3. /\ lap' = lap + 1 /\ lap < MaxLap /\ pc' = pc /\ slipped' = slipped
      /\ next1HzTick' = next1HzTick /\ next10HzTick' = next10HzTick /\ nextPhyPoll' = nextPhyPoll
  BY DEF Tick, deadlines
<1>4. /\ since1' = Older(since1, Period1) /\ since10' = Older(since10, Period10)
      /\ sincePhy' = Older(sincePhy, PhyPeriod)
  BY DEF Tick
<1>5. CountInv' BY <1>2, <1>3, Numbers, Constants DEF CountInv, TInv
<1>6. TimersOK'
  <2>1. \A p \in Nat : \A a \in 0..Cap(p) : Older(a, p) \in 0..Cap(p)
    BY Constants DEF Older, Cap
  <2>2. /\ since1' \in 0..Cap(Period1) /\ since10' \in 0..Cap(Period10)
        /\ sincePhy' \in 0..Cap(PhyPeriod)
    BY <1>4, <2>1, Constants DEF TInv, TimersOK
  <2>3. count' \in 0..LogTimerMax + 2 * MaxLap - 1
    <3>1. pc \in {"10Hz", "1Hz"} \/ pc \in {"phy", "poll", "wind"} BY DEF TInv, TimersOK
    <3> QED BY <1>2, <1>3, <3>1, Numbers, Constants DEF CountInv, TInv
  <2>4. lap' \in 0..MaxLap BY <1>3, Numbers, Constants
  <2> QED BY <1>3, <2>2, <2>3, <2>4 DEF TInv, TimersOK
<1>7. /\ Ahead(next1HzTick, since1, Period1)' /\ Ahead(next10HzTick, since10, Period10)'
      /\ Ahead(nextPhyPoll, sincePhy, PhyPeriod)'
  BY <1>2, <1>3, <1>4, Numbers, Constants DEF Ahead, Older, Cap, TInv
<1>8. LateInv'
  <2> SUFFICES ASSUME ~slipped PROVE LateInv'
    BY <1>3 DEF LateInv
  <2>1. since1 < Cap(Period1) /\ since10 < Cap(Period10)
    BY Numbers, Constants DEF TInv, LateInv, Cap
  <2>2. since1' = since1 + 1 /\ since10' = since10 + 1 BY <1>4, <2>1 DEF Older
  <2> QED BY <1>2, <1>3, <2>2, Numbers, Constants DEF TInv, LateInv, Exact
<1>9. (pc = "poll" => sincePhy >= PhyPeriod)'
  BY <1>3, <1>4, Numbers, Constants DEF TInv, Older
<1> QED BY <1>5, <1>6, <1>7, <1>8, <1>9 DEF TInv

\* PollPHYs, and when it is next.
LEMMA PollInv == ASSUME TInv, PhyCheck \/ PhyPolled PROVE TInv'
<1>1. CASE PhyCheck
  <2>1. pc' = "poll" => sincePhy >= PhyPeriod
    BY <1>1, Numbers, Constants DEF PhyCheck, TInv, Ahead
  <2> QED BY <1>1, <2>1 DEF PhyCheck, TInv, TimersOK, CountInv, LateInv, Exact, Ahead, deadlines, ages
<1>2. CASE PhyPolled
  <2>0. pc = "poll" /\ count < LogTimerMax + MaxLap + lap BY <1>2 DEF PhyPolled, TInv, CountInv
  <2>1. count + PhyPeriod \in 0..W - 1 BY <2>0, Numbers, Constants
  <2>5. (count + PhyPeriod) % W = count + PhyPeriod BY <2>1, NoWrap, Numbers, Constants
  <2>2. nextPhyPoll' = count + PhyPeriod /\ sincePhy' = 0 BY <1>2, <2>5 DEF PhyPolled
  <2>3. nextPhyPoll' \in 0..W - 1 /\ 0 \in 0..Cap(PhyPeriod) BY <2>1, <2>2, Constants DEF Cap
  <2>4. Ahead(nextPhyPoll, sincePhy, PhyPeriod)'
    BY <1>2, <2>2, Numbers, Constants DEF PhyPolled, Ahead
  <2> QED BY <1>2, <2>2, <2>3, <2>4 DEF PhyPolled, TInv, TimersOK, CountInv, LateInv, Exact, Ahead
<1> QED BY <1>1, <1>2

\* A deadline that follows the timer keeps its distance, unless it was due.
LEMMA Shift ==
  ASSUME TInv, NEW next \in 0..W - 1, count >= LogTimerMax
  PROVE  /\ (next - LogTimerMax) % W \in 0..W - 1
         /\ next >= LogTimerMax => (next - LogTimerMax) % W = next - LogTimerMax
<1>1. next - LogTimerMax \in Int BY Constants
<1>2. next >= LogTimerMax => next - LogTimerMax \in 0..W - 1 BY Constants
<1> QED BY <1>1, <1>2, Modulo

\* Winding back, or not.
LEMMA WindInv == ASSUME TInv, WindBack PROVE TInv'
<1>1. /\ pc = "wind" /\ pc' = "10Hz" /\ nextPhyPoll' = nextPhyPoll /\ lap' = lap
      /\ since1' = since1 /\ since10' = since10 /\ sincePhy' = sincePhy
  BY DEF WindBack, WindBackTo, ages
<1>2. CASE count < LogTimerMax
  <2>1. UNCHANGED <<count, next1HzTick, next10HzTick, slipped>>
    BY <1>2, Numbers, Constants DEF WindBack, WindBackTo
  <2>2. count < LogTimerMax + lap BY <1>2, Numbers, Constants
  <2> QED BY <1>1, <2>1, <2>2 DEF TInv, TimersOK, CountInv, LateInv, Exact, Ahead
<1>3. CASE count >= LogTimerMax
  <2>1. /\ count' = count - LogTimerMax
        /\ next1HzTick' = (next1HzTick - LogTimerMax) % W
        /\ next10HzTick' = (next10HzTick - LogTimerMax) % W
        /\ slipped' = (slipped \/ next1HzTick < LogTimerMax \/ next10HzTick < LogTimerMax)
    BY <1>3 DEF WindBack, WindBackTo
  <2>2. next1HzTick \in 0..W - 1 /\ next10HzTick \in 0..W - 1 BY DEF TInv, TimersOK
  <2>3. /\ next1HzTick' \in 0..W - 1 /\ next10HzTick' \in 0..W - 1
        /\ next1HzTick >= LogTimerMax => next1HzTick' = next1HzTick - LogTimerMax
        /\ next10HzTick >= LogTimerMax => next10HzTick' = next10HzTick - LogTimerMax
    BY <1>3, <2>1, <2>2, Shift
  <2>4. count' \in 0..LogTimerMax - 1 BY <1>3, <2>1, Numbers, Constants
  <2>5. TimersOK'
    <3>1. count' \in 0..LogTimerMax + 2 * MaxLap - 1 BY <2>4, Constants
    <3>2. slipped' \in BOOLEAN BY <2>1
    <3> QED BY <1>1, <2>3, <3>1, <3>2 DEF TInv, TimersOK
  <2>6. CountInv' BY <1>1, <2>4, Numbers, Constants DEF CountInv
  <2>7. Ahead(next1HzTick, since1, Period1)'
    BY <1>1, <1>3, <2>1, <2>3, Numbers, Constants DEF TInv, Ahead
  <2>8. Ahead(next10HzTick, since10, Period10)'
    BY <1>1, <1>3, <2>1, <2>3, Numbers, Constants DEF TInv, Ahead
  <2>9. Ahead(nextPhyPoll, sincePhy, PhyPeriod)'
    BY <1>1, <1>3, <2>1, Numbers, Constants DEF TInv, Ahead
  <2>10. LateInv'
    <3> SUFFICES ASSUME ~slipped' PROVE LateInv' BY DEF LateInv
    <3>1. ~slipped /\ ~(next1HzTick < LogTimerMax) /\ ~(next10HzTick < LogTimerMax)
      BY <2>1, Zenon
    <3>2. /\ next1HzTick' = next1HzTick - LogTimerMax /\ next10HzTick' = next10HzTick - LogTimerMax
      BY <2>3, <3>1, Numbers, Constants
    <3>3. /\ Exact(next1HzTick, since1, Period1) /\ Exact(next10HzTick, since10, Period10)
          /\ since1 <= Period1 + lap /\ since10 < Period10 + MaxLap + lap
      BY <1>1, <3>1 DEF TInv, LateInv
    <3>4. Exact(next1HzTick, since1, Period1)' /\ Exact(next10HzTick, since10, Period10)'
      BY <1>1, <2>1, <3>2, <3>3, Numbers, Constants DEF Exact
    <3> QED BY <1>1, <3>3, <3>4 DEF LateInv
  <2> QED BY <1>1, <2>5, <2>6, <2>7, <2>8, <2>9, <2>10 DEF TInv
<1> QED BY <1>2, <1>3, Numbers, Constants

\* The ticks.
LEMMA ChecksInv == ASSUME TInv, Check10Hz \/ Check1Hz PROVE TInv'
<1>1. CASE Check10Hz
  <2>1. /\ pc = "10Hz" /\ pc' = "1Hz"
        /\ UNCHANGED <<count, next1HzTick, nextPhyPoll, lap, since1, sincePhy, slipped>>
    BY <1>1 DEF Check10Hz
  <2>2. CASE count >= next10HzTick
    <3>1. count + Period10 \in 0..W - 1 BY <2>1, Numbers, Constants DEF TInv, CountInv
    <3>7. (count + Period10) % W = count + Period10 BY <3>1, NoWrap, Numbers, Constants
    <3>2. next10HzTick' = count + Period10 /\ since10' = 0 BY <1>1, <2>2, <3>7 DEF Check10Hz
    <3>3. next10HzTick' \in 0..W - 1 /\ since10' \in 0..Cap(Period10)
      BY <3>1, <3>2, Constants DEF Cap
    <3>4. TimersOK' BY <2>1, <3>3 DEF TInv, TimersOK
    <3>5. LateInv' BY <2>1, <3>2, Numbers, Constants DEF TInv, LateInv, Exact
    <3>6. Ahead(next10HzTick, since10, Period10)' BY <2>1, <3>2, Numbers, Constants DEF Ahead
    <3> QED BY <2>1, <3>4, <3>5, <3>6 DEF TInv, CountInv, Ahead
  <2>3. CASE count < next10HzTick
    <3>1. UNCHANGED <<next10HzTick, since10>> BY <1>1, <2>3, Numbers DEF Check10Hz
    <3>2. LateInv' BY <2>1, <2>3, <3>1, Numbers, Constants DEF TInv, LateInv, Exact
    <3> QED BY <2>1, <3>1, <3>2 DEF TInv, TimersOK, CountInv, Ahead
  <2> QED BY <2>2, <2>3, Numbers
<1>2. CASE Check1Hz
  <2>1. /\ pc = "1Hz" /\ pc' = "phy" /\ lap' = 0
        /\ UNCHANGED <<count, next10HzTick, nextPhyPoll, since10, sincePhy, slipped>>
    BY <1>2 DEF Check1Hz
  <2>2. CountInv' BY <2>1, Numbers, Constants DEF TInv, CountInv
  <2>3. ~slipped => since10 < Period10 + MaxLap + lap'
    BY <2>1, Numbers, Constants DEF TInv, LateInv
  <2>4. CASE count >= next1HzTick
    <3>1. count + Period1 \in 0..W - 1 BY <2>1, Numbers, Constants DEF TInv, CountInv
    <3>7. (count + Period1) % W = count + Period1 BY <3>1, NoWrap, Numbers, Constants
    <3>2. next1HzTick' = count + Period1 /\ since1' = 0 BY <1>2, <2>4, <3>7 DEF Check1Hz
    <3>3. next1HzTick' \in 0..W - 1 /\ since1' \in 0..Cap(Period1) /\ lap' \in 0..MaxLap
      BY <2>1, <3>1, <3>2, Constants DEF Cap
    <3>4. TimersOK' BY <2>1, <3>3 DEF TInv, TimersOK
    <3>5. LateInv' BY <2>1, <2>3, <3>2, Numbers, Constants DEF TInv, LateInv, Exact
    <3>6. Ahead(next1HzTick, since1, Period1)' BY <2>1, <3>2, Numbers, Constants DEF Ahead
    <3> QED BY <2>1, <2>2, <3>4, <3>5, <3>6 DEF TInv, Ahead
  <2>5. CASE count < next1HzTick
    <3>1. UNCHANGED <<next1HzTick, since1>> BY <1>2, <2>5, Numbers DEF Check1Hz
    <3>2. LateInv' BY <2>1, <2>3, <2>5, <3>1, Numbers, Constants DEF TInv, LateInv, Exact
    <3>3. lap' \in 0..MaxLap BY <2>1, Constants
    <3> QED BY <2>1, <2>2, <3>1, <3>2, <3>3 DEF TInv, TimersOK, Ahead
  <2> QED BY <2>4, <2>5, Numbers
<1> QED BY <1>1, <1>2

\* The start, and a reset.
LEMMA StartInv == (Init => TInv) /\ (TimersReset => TInv')
<1> DEFINE Fresh(p) == p \in 0..Cap(p)
<1>0. /\ 0 \in 0..W - 1 /\ 0 \in 0..MaxLap /\ 0 \in 0..LogTimerMax + 2 * MaxLap - 1
      /\ Fresh(Period1) /\ Fresh(Period10) /\ Fresh(PhyPeriod)
  BY Constants DEF Cap
<1>1. ASSUME Init PROVE TInv
  <2>1. TimersOK BY <1>0, <1>1 DEF Init, TimersOK
  <2>2. CountInv /\ LateInv BY <1>1, Constants DEF Init, CountInv, LateInv, Exact
  <2> QED BY <1>1, <2>1, <2>2, Constants DEF Init, TInv, Ahead
<1>2. ASSUME TimersReset PROVE TInv'
  <2>1. TimersOK' BY <1>0, <1>2 DEF TimersReset, TimersOK
  <2>2. CountInv' /\ LateInv' BY <1>2, Constants DEF TimersReset, CountInv, LateInv, Exact
  <2> QED BY <1>2, <2>1, <2>2, Constants DEF TimersReset, TInv, Ahead
<1> QED BY <1>1, <1>2

-----------------------------------------------------------------------------
\* No step makes a tick early: a deadline that has been reached is at least a
\* period old.
LEMMA NoneEarly ==
  ASSUME TInv, Tick \/ PhyCheck \/ PhyPolled \/ WindBack \/ Check10Hz \/ Check1Hz
  PROVE  ~Early
<1>1. CASE Tick
  BY <1>1, Numbers, Constants DEF Tick, Older, Early
<1>2. CASE PhyCheck \/ WindBack
  BY <1>2, Numbers DEF PhyCheck, WindBack, WindBackTo, ages, Early
<1>3. CASE PhyPolled
  BY <1>3, Numbers, Constants DEF PhyPolled, TInv, Early
<1>4. CASE Check10Hz
  BY <1>4, Numbers, Constants DEF Check10Hz, TInv, Ahead, Early
<1>5. CASE Check1Hz
  BY <1>5, Numbers, Constants DEF Check1Hz, TInv, Ahead, Early
<1> QED BY <1>1, <1>2, <1>3, <1>4, <1>5

-----------------------------------------------------------------------------
(* The firmware.                                                           *)

\* While no drop is latched the link is up, at the speed that PollPHYs has
\* read, if it is between its two reads, and told the stack.
SpeedInv ==
  /\ SpeedIsTrue
  /\ ~latch => link # NoLink
  /\ pc = "poll" /\ ~latch => bctl = link

IInv == TInv /\ TypeOK /\ SpeedInv

-----------------------------------------------------------------------------
\* A call of the boot leaves timers and reports alone.
LEMMA BootCallKeeps ==
  ASSUME NEW name, NEW needs, NEW gives, BootCall(name, needs, gives)
  PROVE  /\ UNCHANGED <<timers, linkState, fpga, resets>> /\ boot' = boot + 1
         /\ ~Booted /\ hung' \in {"no", "misuse"}
BY DEF BootCall

\* What all the calls of the boot have in common: only HoldPHY touches the PHY.
LEMMA BootKeeps ==
  ASSUME Boot
  PROVE  /\ UNCHANGED <<timers, linkState, fpga, resets>> /\ boot' = boot + 1
         /\ ~Booted /\ hung' \in {"no", "misuse"}
         /\ UNCHANGED phy \/ (link' = NoLink /\ latch' = TRUE)
<1>1. CASE BSP_InitPower \/ BSP_InitClocks \/ BSP_InitUART \/ BSP_InitLog \/ InitRTC \/ InitSupervisor
  BY <1>1, BootCallKeeps DEF BSP_InitPower, BSP_InitClocks, BSP_InitUART, BSP_InitLog, InitRTC, InitSupervisor
<1>2. CASE InitFMC \/ DoInitKVS \/ InitI2C \/ InitEEPROM \/ InitITM
  BY <1>2, BootCallKeeps DEF InitFMC, DoInitKVS, InitI2C, InitEEPROM, InitITM
<1>3. CASE InitFPGA
  BY <1>3, BootCallKeeps DEF InitFPGA, WaitForDone, LoopbackTest, WaitForStatus, ReadFPGA, InitFPGAFlash
<1>4. CASE InitNet
  BY <1>4, BootCallKeeps DEF InitNet, HoldPHY, InitManagementPHY, InitIP, ConfigureIP, InitProtocols,
     RegisterProtocolHandlers
<1>5. CASE InitApp
  BY <1>5, BootCallKeeps DEF InitApp, InitLEDs, InitDTS, InitSensors, App_Init
<1> QED BY <1>1, <1>2, <1>3, <1>4, <1>5 DEF Boot

\* Every step leaves the timers alone or is one of LoopTimers.
LEMMA TimerStep ==
  ASSUME Next
  PROVE  \/ Tick \/ PhyCheck \/ PhyPolled \/ WindBack \/ Check10Hz \/ Check1Hz \/ TimersReset
         \/ UNCHANGED vars
BY BootKeeps DEF Next, CPU, ReadControl, ReadStatus, TimerChecks, TimerTicks, FaultHandler, Reset,
   FPGALoads, LinkRises, LinkFalls, timers

\* So the timers keep what LoopTimersProofs shows of them.
LEMMA TimersInv == ASSUME IInv, Next \/ UNCHANGED allVars PROVE TInv'
<1>1. CASE UNCHANGED vars
  BY <1>1 DEF IInv, TInv, TimersOK, CountInv, LateInv, Exact, Ahead, vars, deadlines, ages
<1>2. UNCHANGED allVars => UNCHANGED vars BY DEF allVars, timers
<1> QED BY <1>1, <1>2, TimerStep, TickInv, PollInv, WindInv, ChecksInv, StartInv DEF IInv

-----------------------------------------------------------------------------
\* Types: every speed that is reported has been read from the PHY.
LEMMA TypeInv == ASSUME IInv, Next, TInv' PROVE TypeOK'
<1> USE DEF IInv, TypeOK
<1>0. TimersOK' BY DEF TInv
<1>1. CASE Boot
  <2>1. boot' \in 1..Len(BootOrder) + 1
    <3>1. Len(BootOrder) = 26 BY DEF BootOrder, Order
    <3> QED BY <1>1, <3>1, BootKeeps DEF Booted
  <2>2. link' \in Speeds \cup {NoLink} /\ latch' \in BOOLEAN BY <1>1, BootKeeps DEF phy
  <2>3. hung' \in {"no", "fault", "misuse"} /\ UNCHANGED <<linkState, fpga, resets>> BY <1>1, BootKeeps
  <2> QED BY <1>0, <2>1, <2>2, <2>3 DEF linkState
<1>2. CASE ReadControl
  <2>1. bctl' \in Speeds \cup {0}
    BY <1>2 DEF ReadControl
  <2> QED BY <1>0, <1>2, <2>1 DEF ReadControl, Same, phy
<1>3. CASE ReadStatus
  <2>1. g_basetLinkSpeed' \in Speeds \cup {0, 255} BY <1>3 DEF ReadStatus, Report
  <2> QED BY <1>0, <1>3, <2>1 DEF ReadStatus, Report, Same
<1>4. CASE TimerChecks \/ TimerTicks \/ FaultHandler
  BY <1>0, <1>4 DEF TimerChecks, TimerTicks, FaultHandler, Same, linkState, phy
<1>5. CASE Reset
  <2>1. resets' \in 0..MaxResets BY <1>5, IfaceMainAssumption DEF Reset
  <2>2. 1 \in 1..Len(BootOrder) + 1
    <3>1. Len(BootOrder) = 26 BY DEF BootOrder, Order
    <3> QED BY <3>1
  <2> QED BY <1>0, <1>5, <2>1, <2>2 DEF Reset, phy
<1>6. CASE FPGALoads
  BY <1>0, <1>6 DEF FPGALoads, linkState, phy
<1>7. CASE LinkRises \/ LinkFalls
  <2>1. link' \in Speeds \cup {NoLink} /\ latch' \in BOOLEAN BY <1>7 DEF LinkRises, LinkFalls
  <2>2. UNCHANGED <<boot, hung, linkState, fpga, resets>> BY <1>7 DEF LinkRises, LinkFalls
  <2> QED BY <1>0, <2>1, <2>2 DEF linkState
<1> QED BY <1>1, <1>2, <1>3, <1>4, <1>5, <1>6, <1>7 DEF Next, CPU

\* The link state: latched drops make the order of the two reads harmless.
LEMMA LinkInv == ASSUME IInv, Next PROVE SpeedInv'
<1> USE DEF IInv, SpeedInv, SpeedIsTrue
<1>1. CASE Boot
  <2>1. UNCHANGED <<pc, g_basetLinkUp, g_basetLinkSpeed, bctl>>
    BY <1>1, BootKeeps DEF timers, vars, linkState
  <2> QED BY <1>1, <2>1, BootKeeps DEF phy
<1>2. CASE ReadControl
  <2>1. pc' = "poll" /\ link # NoLink => bctl' = link
    BY <1>2 DEF ReadControl
  <2> QED BY <1>2, <2>1 DEF ReadControl, PhyCheck, Same, phy
<1>3. CASE ReadStatus
  <2>1. pc = "poll" /\ pc' = "wind" /\ UNCHANGED <<bctl, link>> /\ latch' = (link = NoLink)
    BY <1>3 DEF ReadStatus, PhyPolled
  <2>2. g_basetLinkUp' => ~latch /\ (g_basetLinkSpeed' = IF g_basetLinkUp THEN g_basetLinkSpeed ELSE bctl)
    BY <1>3 DEF ReadStatus, Report
  <2> QED BY <2>1, <2>2
<1>4. CASE TimerChecks
  <2>1. pc' # "poll" BY <1>4 DEF TimerChecks, WindBack, WindBackTo, Check10Hz, Check1Hz
  <2> QED BY <1>4, <2>1 DEF TimerChecks, linkState, phy
<1>5. CASE TimerTicks \/ FaultHandler \/ FPGALoads
  <2>1. UNCHANGED <<pc, linkState, phy>>
    BY <1>5 DEF TimerTicks, Tick, FaultHandler, FPGALoads, timers, vars
  <2> QED BY <2>1 DEF linkState, phy
<1>6. CASE Reset
  BY <1>6 DEF Reset, TimersReset, phy
<1>7. CASE LinkRises
  BY <1>7 DEF LinkRises, linkState, timers, vars
<1>8. CASE LinkFalls
  BY <1>8 DEF LinkFalls, linkState, timers, vars
<1> QED BY <1>1, <1>2, <1>3, <1>4, <1>5, <1>6, <1>7, <1>8 DEF Next, CPU

-----------------------------------------------------------------------------
\* The invariant holds at power-up, and every step keeps it.
THEOREM Inductive == Spec => []IInv
<1>1. MainInit => IInv
  <2> SUFFICES ASSUME MainInit PROVE IInv OBVIOUS
  <2>1. TInv BY StartInv DEF MainInit
  <2>2. 1 \in 1..Len(BootOrder) + 1
    <3>1. Len(BootOrder) = 26 BY DEF BootOrder, Order
    <3> QED BY <3>1
  <2>3. 0 \in 0..MaxResets BY IfaceMainAssumption
  <2>4. TypeOK BY <2>1, <2>2, <2>3 DEF MainInit, TypeOK, TInv
  <2> QED BY <2>1, <2>4 DEF MainInit, IInv, SpeedInv, SpeedIsTrue
<1>2. IInv /\ [Next]_allVars => IInv'
  <2>1. ASSUME IInv, Next PROVE IInv'
    BY <2>1, TimersInv, TypeInv, LinkInv DEF IInv
  <2>2. ASSUME IInv, UNCHANGED allVars PROVE IInv'
    <3>1. TInv' BY <2>2, TimersInv
    <3> QED BY <2>2, <3>1
        DEF IInv, TInv, TypeOK, SpeedInv, SpeedIsTrue, allVars, timers, vars, linkState, phy
  <2> QED BY <2>1, <2>2
<1> QED BY <1>1, <1>2, PTL DEF Spec

\* The types hold: the timer stays far below the end of its width.
THEOREM TypeCorrect == Spec => []TypeOK
<1>1. IInv => TypeOK BY DEF IInv
<1> QED BY <1>1, Inductive, PTL

\* The stack never has a wrong speed for a link that is up, whatever the link
\* does between the two reads of PollPHYs.
THEOREM TrueSpeed == Spec => []SpeedIsTrue
<1>1. IInv => SpeedIsTrue BY DEF IInv, SpeedInv
<1> QED BY <1>1, Inductive, PTL

\* The 1 Hz and 10 Hz ticks are late by at most two passes of the loop, unless
\* one of them was due when the timer was wound back.
THEOREM OnTime == Spec => []OnTimeUnlessSlipped
<1>1. IInv => OnTimeUnlessSlipped
  BY Numbers, Constants DEF IInv, TInv, LateInv, OnTimeUnlessSlipped
<1> QED BY <1>1, Inductive, PTL

\* No tick comes before a whole period has passed, slipped deadlines included.
THEOREM NoneTooEarly == Spec => NeverEarly
<1>1. IInv /\ [Next]_allVars => [~Early]_allVars
  <2> SUFFICES ASSUME IInv, Next, ~TimersReset PROVE ~Early
    <3>1. ASSUME IInv, TimersReset PROVE ~Early
      BY <3>1, Numbers, Constants DEF TimersReset, Early, IInv
    <3> QED BY <3>1
  <2>1. CASE UNCHANGED vars
    BY <2>1, Numbers DEF vars, ages, Early, IInv
  <2> QED BY <2>1, TimerStep, NoneEarly DEF IInv
<1> QED BY <1>1, Inductive, PTL DEF Spec, NeverEarly

-----------------------------------------------------------------------------
(* The boot.                                                               *)

\* What the calls before the next one have set up, of all that a later call or
\* the main loop uses.
BootInv ==
  /\ hung # "misuse"
  /\ boot > 1 => "power" \in ready
  /\ boot > 2 => {"HSE", "PLL1", "PLL2"} \subseteq ready
  /\ boot > 3 => "g_cliUART" \in ready
  /\ boot > 4 => "g_log" \in ready
  /\ boot > 7 => "FMC" \in ready
  /\ boot > 8 => "DONE" \in ready
  /\ boot > 10 => "FDEVINFO" \in ready
  /\ boot > 12 => "FPGA_GPIOA" \in ready
  /\ boot > 13 => "g_kvs" \in ready
  /\ boot > 14 => "I2C" \in ready
  /\ boot > 15 => "g_macAddress" \in ready
  /\ boot > 17 => "g_phyMdio" \in ready
  /\ boot > 18 => {"g_ethIface", "g_ethIRQ"} \subseteq ready
  /\ boot > 19 => "g_ipConfig" \in ready
  /\ boot > 20 => "g_ethProtocol" \in ready
  /\ boot > 21 => "g_iperfServer" \in ready
  /\ boot > 26 => "console" \in ready

\* A call is made at its place in the order.
LEMMA Place ==
  ASSUME TypeOK, NEW name, NEW needs, NEW gives, BootCall(name, needs, gives)
  PROVE  /\ boot \in 1..26 /\ Order[boot] = name
         /\ boot' = boot + 1 /\ ready' = ready \cup gives
         /\ hung = "no" /\ hung' = IF needs \subseteq ready THEN "no" ELSE "misuse"
<1>1. Len(BootOrder) = 26 BY DEF BootOrder, Order
<1> QED BY <1>1 DEF TypeOK, BootCall, Booted, BootOrder

\* Every call finds what it needs, and leaves what it sets up.
LEMMA BootStep == ASSUME TypeOK, BootInv, Boot PROVE BootInv'
<1>1. CASE BSP_InitPower BY <1>1, Place DEF BSP_InitPower, Order, BootInv
<1>2. CASE BSP_InitClocks BY <1>2, Place DEF BSP_InitClocks, Order, BootInv
<1>3. CASE BSP_InitUART BY <1>3, Place DEF BSP_InitUART, Order, BootInv
<1>4. CASE BSP_InitLog BY <1>4, Place DEF BSP_InitLog, Order, BootInv
<1>5. CASE InitRTC BY <1>5, Place DEF InitRTC, Order, BootInv
<1>6. CASE InitSupervisor BY <1>6, Place DEF InitSupervisor, Order, BootInv
<1>7. CASE InitFMC BY <1>7, Place DEF InitFMC, Order, BootInv
<1>8. CASE WaitForDone BY <1>8, Place DEF WaitForDone, Order, BootInv
<1>9. CASE LoopbackTest BY <1>9, Place DEF LoopbackTest, Order, BootInv
<1>10. CASE WaitForStatus BY <1>10, Place DEF WaitForStatus, Order, BootInv
<1>11. CASE ReadFPGA BY <1>11, Place DEF ReadFPGA, Order, BootInv
<1>12. CASE InitFPGAFlash BY <1>12, Place DEF InitFPGAFlash, Order, BootInv
<1>13. CASE DoInitKVS BY <1>13, Place DEF DoInitKVS, Order, BootInv
<1>14. CASE InitI2C BY <1>14, Place DEF InitI2C, Order, BootInv
<1>15. CASE InitEEPROM BY <1>15, Place DEF InitEEPROM, Order, BootInv
<1>16. CASE HoldPHY BY <1>16, Place DEF HoldPHY, Order, BootInv
<1>17. CASE InitManagementPHY BY <1>17, Place DEF InitManagementPHY, Order, BootInv
<1>18. CASE InitIP BY <1>18, Place DEF InitIP, Order, BootInv
<1>19. CASE ConfigureIP BY <1>19, Place DEF ConfigureIP, Order, BootInv
<1>20. CASE InitProtocols BY <1>20, Place DEF InitProtocols, Order, BootInv
<1>21. CASE RegisterProtocolHandlers BY <1>21, Place DEF RegisterProtocolHandlers, Order, BootInv
<1>22. CASE InitITM BY <1>22, Place DEF InitITM, Order, BootInv
<1>23. CASE InitLEDs BY <1>23, Place DEF InitLEDs, Order, BootInv
<1>24. CASE InitDTS BY <1>24, Place DEF InitDTS, Order, BootInv
<1>25. CASE InitSensors BY <1>25, Place DEF InitSensors, Order, BootInv
<1>26. CASE App_Init BY <1>26, Place DEF App_Init, Order, BootInv
<1> QED
  BY <1>1, <1>2, <1>3, <1>4, <1>5, <1>6, <1>7, <1>8, <1>9, <1>10, <1>11, <1>12, <1>13, <1>14, <1>15,
     <1>16, <1>17, <1>18, <1>19, <1>20, <1>21, <1>22, <1>23, <1>24, <1>25, <1>26
     DEF Boot, InitFPGA, InitNet, InitApp

\* The boot never uses what it has not set up, however often it is begun
\* anew, and ends where the main loop has all that it uses.
THEOREM NothingTooEarly == Spec => [](hung # "misuse" /\ (Booted /\ hung = "no" => InMainLoop))
<1>1. MainInit => BootInv BY DEF MainInit, BootInv
<1>2. TypeOK /\ BootInv /\ [Next]_allVars => BootInv'
  <2> SUFFICES ASSUME TypeOK, BootInv, [Next]_allVars PROVE BootInv' OBVIOUS
  <2>1. CASE Boot BY <2>1, BootStep
  <2>2. CASE Reset BY <2>2 DEF Reset, BootInv
  <2>3. CASE FaultHandler BY <2>3 DEF FaultHandler, BootInv
  <2>4. CASE UNCHANGED <<boot, ready, hung>> BY <2>4 DEF BootInv
  <2>5. Boot \/ Reset \/ FaultHandler \/ UNCHANGED <<boot, ready, hung>>
    BY DEF Next, CPU, ReadControl, ReadStatus, TimerChecks, TimerTicks, Same, FPGALoads, LinkRises,
       LinkFalls, allVars
  <2> QED BY <2>1, <2>2, <2>3, <2>4, <2>5
<1>3. TypeOK /\ BootInv => hung # "misuse" /\ (Booted /\ hung = "no" => InMainLoop)
  <2>1. Len(BootOrder) = 26 BY DEF BootOrder, Order
  <2> QED BY <2>1 DEF TypeOK, BootInv, Booted, InMainLoop
<1> QED BY <1>1, <1>2, <1>3, TypeCorrect, PTL DEF Spec
=============================================================================
