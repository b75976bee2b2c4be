------------------------------ MODULE LoopTimers ------------------------------
(***************************************************************************)
(* The timers of the main MCU of fpga-stm32-ifaces: its main loop compares *)
(* the free-running log timer with three deadlines held in 32-bit static   *)
(* variables, and winds the timer back before it can wrap.                 *)
(***************************************************************************)
EXTENDS Integers

CONSTANTS
  W,                        \* the timer and the deadlines are counted modulo W
  LogTimerMax,              \* logTimerMax
  Period1, Period10, PhyPeriod,   \* 10000, 1000 and 500 ticks
  MaxLap                    \* bound: ticks that one loop iteration may take

ASSUME LoopTimersAssumption ==
  /\ {W, LogTimerMax, Period1, Period10, PhyPeriod, MaxLap} \subseteq Nat \ {0}
  /\ MaxLap < Period10 /\ MaxLap < PhyPeriod /\ MaxLap < Period1
  /\ LogTimerMax + MaxLap + Period1 < W /\ LogTimerMax + MaxLap + Period10 < W
  /\ LogTimerMax + 2 * MaxLap + PhyPeriod <= W /\ W < 2 * LogTimerMax

VARIABLES
  count,                                \* g_logTimer.GetCount()
  next1HzTick, next10HzTick, nextPhyPoll,
  pc,                                   \* next timer check of the iteration
  lap,                                  \* ticks since the iteration began
  since1, since10, sincePhy,            \* ticks since each last fired, capped (history)
  slipped                               \* a deadline was due when the timer was wound back (history)

deadlines == <<next1HzTick, next10HzTick, nextPhyPoll>>
ages      == <<since1, since10, sincePhy>>
vars      == <<count, deadlines, pc, lap, ages, slipped>>

Cap(p) == p + 2 * MaxLap + 1

Init ==
  /\ count = 0 /\ next1HzTick = 0 /\ next10HzTick = 0 /\ nextPhyPoll = 0
  /\ pc = "phy" /\ lap = 0 /\ slipped = FALSE
  /\ since1 = Period1 /\ since10 = Period10 /\ sincePhy = PhyPeriod

\* A reset of the MCU.
TimersReset ==
  /\ count' = 0 /\ next1HzTick' = 0 /\ next10HzTick' = 0 /\ nextPhyPoll' = 0
  /\ pc' = "phy" /\ lap' = 0 /\ slipped' = FALSE
  /\ since1' = Period1 /\ since10' = Period10 /\ sincePhy' = PhyPeriod

-----------------------------------------------------------------------------
Older(age, period) == IF age < Cap(period) THEN age + 1 ELSE age

Tick ==
  /\ lap < MaxLap /\ lap' = lap + 1 /\ count' = (count + 1) % W
  /\ since1' = Older(since1, Period1) /\ since10' = Older(since10, Period10)
  /\ sincePhy' = Older(sincePhy, PhyPeriod)
  /\ UNCHANGED <<deadlines, pc, slipped>>

\* PollPHYs is called when its deadline has come.
PhyCheck ==
  /\ pc = "phy" /\ pc' = IF count >= nextPhyPoll THEN "poll" ELSE "wind"
  /\ UNCHANGED <<count, deadlines, lap, ages, slipped>>

\* Its deadline is set when it returns.
PhyPolled ==
  /\ pc = "poll" /\ pc' = "wind"
  /\ nextPhyPoll' = (count + PhyPeriod) % W /\ sincePhy' = 0
  /\ UNCHANGED <<count, next1HzTick, next10HzTick, lap, since1, since10, slipped>>

\* UpdateOffset(logTimerMax): from limit on, the timer is wound back and the
\* deadlines become n1 and n10.
WindBackTo(limit, n1, n10) ==
  /\ pc = "wind" /\ pc' = "10Hz"
  /\ IF count >= limit
     THEN /\ count' = count - LogTimerMax /\ next1HzTick' = n1 /\ next10HzTick' = n10
          /\ slipped' = (slipped \/ next1HzTick < LogTimerMax \/ next10HzTick < LogTimerMax)
     ELSE UNCHANGED <<count, next1HzTick, next10HzTick, slipped>>
  /\ UNCHANGED <<nextPhyPoll, lap, ages>>

\* Mutants: wound back too late; a deadline left behind; a deadline set to zero.
WindBackLate    == WindBackTo(2 * LogTimerMax, (next1HzTick - LogTimerMax) % W, (next10HzTick - LogTimerMax) % W)
WindBackKeeps   == WindBackTo(LogTimerMax, next1HzTick, (next10HzTick - LogTimerMax) % W)
WindBackRestart == WindBackTo(LogTimerMax, (next1HzTick - LogTimerMax) % W, 0)

\* Two of the three deadlines follow the timer, modulo the width of the type.
WindBack == WindBackTo(LogTimerMax, (next1HzTick - LogTimerMax) % W, (next10HzTick - LogTimerMax) % W)

\* OnAgingTick10x: activity LEDs and TCP retransmits.
Check10Hz ==
  /\ pc = "10Hz" /\ pc' = "1Hz"
  /\ IF count >= next10HzTick
     THEN next10HzTick' = (count + Period10) % W /\ since10' = 0
     ELSE UNCHANGED <<next10HzTick, since10>>
  /\ UNCHANGED <<count, next1HzTick, nextPhyPoll, lap, since1, sincePhy, slipped>>

\* OnAgingTick, last in the loop.
Check1Hz ==
  /\ pc = "1Hz" /\ pc' = "phy" /\ lap' = 0
  /\ IF count >= next1HzTick
     THEN next1HzTick' = (count + Period1) % W /\ since1' = 0
     ELSE UNCHANGED <<next1HzTick, since1>>
  /\ UNCHANGED <<count, next10HzTick, nextPhyPoll, since10, sincePhy, slipped>>

-----------------------------------------------------------------------------
\* The timer never comes near the end of its 32 bits (the range of count).
TimersOK ==
  /\ count \in 0..LogTimerMax + 2 * MaxLap - 1
  /\ next1HzTick \in 0..W - 1 /\ next10HzTick \in 0..W - 1 /\ nextPhyPoll \in 0..W - 1
  /\ pc \in {"phy", "poll", "wind", "10Hz", "1Hz"} /\ lap \in 0..MaxLap
  /\ since1 \in 0..Cap(Period1) /\ since10 \in 0..Cap(Period10)
  /\ sincePhy \in 0..Cap(PhyPeriod) /\ slipped \in BOOLEAN

\* Winding the timer back never makes a tick come early: whatever happens to
\* the deadlines, two ticks are a whole period apart.  This is what must not be.
Early == \/ since10' < since10 /\ since10 < Period10
         \/ since1' < since1 /\ since1 < Period1
         \/ sincePhy' < sincePhy /\ sincePhy < PhyPeriod

\* The ticks that WindBack cares for stay on time across it, unless one of
\* them had come due since it was last checked.
OnTimeUnlessSlipped ==
  ~slipped => since10 <= Period10 + 2 * MaxLap /\ since1 <= Period1 + 2 * MaxLap
=============================================================================
