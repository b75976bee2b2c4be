--------------------------- MODULE IfaceSuperProofs ---------------------------
(***************************************************************************)
(* Proofs about the supervisor of fpga-stm32-ifaces, for every table of    *)
(* rails and resets and every setting of the timer: types, the safety of   *)
(* rails and resets, and LEDs that are dark in the fault state.            *)
(***************************************************************************)
EXTENDS IfaceSuper, PowerResetProofs

\* The sequencer's invariant, and what the main loop adds to it.
IInv ==
  /\ PRInv
  /\ TypeOK
  /\ pc = "init" => ~powerOn /\ mode # "ramp"
  /\ mode = "hang" => ~pgoodLed

\* An LED pass happens only while no shutdown is going on; where its next
\* blink lands stays within the timer's range.
LEMMA UpdateLEDsInv == ASSUME IInv, UpdateLEDs PROVE IInv'
<1>1. /\ mode = "run" /\ pc' = "super" /\ pgoodLed' = powerOn
      /\ UNCHANGED <<sequencer, faultLed, world, count>>
  BY DEF UpdateLEDs
<1>2. sysokLed' \in BOOLEAN
  BY DEF UpdateLEDs, IInv, PRInv, PRTypeOK
<1>3. PRInv'
  BY <1>1, <1>2 DEF IInv, PRInv, PRTypeOK, RailOrder, sequencer, world
<1>4. nextBlink' \in 0..LogTimerMax /\ sinceBlink' \in 0..BlinkDelay
  <2>1. Deadline \in 0..LogTimerMax
    BY IfaceSuperAssumption DEF Deadline, IInv, TypeOK
  <2>2. 0 \in 0..BlinkDelay
    BY IfaceSuperAssumption
  <2>3. UNCHANGED <<nextBlink, sinceBlink>> \/ (nextBlink' = Deadline /\ sinceBlink' = 0)
    BY DEF UpdateLEDs
  <2> QED BY <2>1, <2>2, <2>3 DEF IInv, TypeOK
<1>5. TypeOK'
  BY <1>1, <1>3, <1>4 DEF IInv, PRInv, PRTypeOK, TypeOK
<1> QED BY <1>1, <1>3, <1>5 DEF IInv, sequencer

\* Steps that leave the main loop's own variables alone.
LEMMA OutsideInv ==
  ASSUME IInv, Sequencing \/ Hardware \/ HardFault_Handler, UNCHANGED <<pc, pgoodLed, timer>>
  PROVE  IInv'
<1>1. PRInv'
  BY RampInv, ShutdownInv, HardwareInv DEF IInv, Sequencing
<1>2. (pc = "init" => ~powerOn' /\ mode' # "ramp") /\ (mode' = "hang" => mode = "hang")
  <2>1. CASE Sequencing
    BY <2>1 DEF Sequencing, RampEnable, RampNext, RampDone, RampTimeout, ShutRail, PowerOffDone,
       PanicShutdown, BeginShutdown, IInv, RailUp
  <2>2. CASE Hardware
    BY <2>2 DEF Hardware, RailSettles, BrownOut, FpgaConfigured, FpgaLost, sequencer, IInv
  <2>3. CASE HardFault_Handler
    BY <2>3 DEF HardFault_Handler, PanicShutdown, BeginShutdown
  <2> QED BY <2>1, <2>2, <2>3
<1>3. TypeOK' BY <1>1 DEF IInv, PRInv, TypeOK, timer
<1> QED BY <1>1, <1>2, <1>3 DEF IInv

\* The other steps of the main loop, and the end of a shutdown.
LEMMA LoopInv ==
  ASSUME IInv, App_Init \/ UpdateOffset \/ SuperIteration \/ IfaceOnFault
  PROVE  IInv'
<1>1. CASE App_Init
  <2>1. PRInv' BY <1>1, PowerOnInv DEF App_Init, IInv
  <2> QED BY <1>1, <2>1 DEF App_Init, PowerOn, IInv, PRInv, TypeOK, timer
<1>2. CASE UpdateOffset
  <2>1. PRInv'
    BY <1>2 DEF UpdateOffset, IInv, PRInv, PRTypeOK, RailOrder, prvars, sequencer, leds, world
  <2>2. count' \in 0..LogTimerMax + Slack
    BY <1>2, IfaceSuperAssumption DEF UpdateOffset, IInv, TypeOK
  <2> QED BY <1>2, <2>1, <2>2 DEF UpdateOffset, IInv, PRInv, TypeOK, prvars, sequencer
<1>3. CASE SuperIteration
  <2>1. PRInv' BY <1>3, IterationInv DEF SuperIteration, IInv
  <2>2. mode' # "hang"
    BY <1>3 DEF SuperIteration, Iteration, sequencer, PanicShutdown, BeginShutdown
  <2> QED BY <1>3, <2>1, <2>2 DEF SuperIteration, IInv, PRInv, TypeOK, timer
<1>4. CASE IfaceOnFault
  <2>1. PRInv' BY <1>4, ShutdownInv DEF IfaceOnFault, IInv
  <2> QED BY <1>4, <2>1 DEF IfaceOnFault, OnFault, IInv, PRInv, TypeOK, timer
<1> QED BY <1>1, <1>2, <1>3, <1>4

\* The timer ticks within its bound; a reset starts everything over.
LEMMA TickResetInv == ASSUME IInv, Tick \/ ResetMCU PROVE IInv'
<1>1. CASE Tick
  <2>1. PRInv'
    BY <1>1 DEF Tick, IInv, PRInv, PRTypeOK, RailOrder, prvars, sequencer, leds, world
  <2>2. count' \in 0..LogTimerMax + Slack /\ sinceBlink' \in 0..BlinkDelay
    BY <1>1, IfaceSuperAssumption DEF Tick, IInv, TypeOK
  <2> QED BY <1>1, <2>1, <2>2 DEF Tick, IInv, PRInv, TypeOK, prvars, sequencer
<1>2. CASE ResetMCU
  <2>1. PRInv' BY <1>2, HardwareInv DEF ResetMCU, IInv
  <2>2. count' \in 0..LogTimerMax + Slack /\ nextBlink' \in 0..LogTimerMax /\ sinceBlink' \in 0..BlinkDelay
    BY <1>2, IfaceSuperAssumption DEF ResetMCU
  <2> QED BY <1>2, <2>1, <2>2 DEF ResetMCU, Reset, IInv, PRInv, TypeOK
<1> QED BY <1>1, <1>2

\* The invariant holds at the start and every step preserves it.
THEOREM Inductive == Spec => []IInv
<1>1. Init => IInv
  <2> SUFFICES ASSUME Init PROVE IInv OBVIOUS
  <2>1. PRInv BY PRInvInit DEF Init
  <2>2. count \in 0..LogTimerMax + Slack /\ nextBlink \in 0..LogTimerMax /\ sinceBlink \in 0..BlinkDelay
    BY IfaceSuperAssumption DEF Init
  <2> QED BY <2>1, <2>2 DEF Init, PRInit, IInv, PRInv, TypeOK
<1>2. IInv /\ [Next]_vars => IInv'
  <2> SUFFICES ASSUME IInv, [Next]_vars PROVE IInv' OBVIOUS
  <2>1. CASE UNCHANGED vars
    <3>1. PRInv'
      BY <2>1 DEF IInv, PRInv, PRTypeOK, RailOrder, vars, prvars, sequencer, leds, world
    <3> QED BY <2>1, <3>1 DEF IInv, PRInv, TypeOK, vars, prvars, sequencer, timer
  <2>2. CASE Next
    BY <2>2, UpdateLEDsInv, OutsideInv, LoopInv, TickResetInv DEF Next, CPU
  <2> QED BY <2>1, <2>2
<1> QED BY <1>1, <1>2, PTL DEF Spec

\* The types hold for every table and every setting of the timer: the next
\* blink never lands outside the range UpdateOffset keeps the timer in.
THEOREM TypeCorrect == Spec => []TypeOK
<1>1. IInv => TypeOK BY DEF IInv
<1> QED BY <1>1, Inductive, PTL

\* Rails in order, whenever the log timer is checked late or the LEDs blink.
THEOREM RailsInOrder == Spec => []RailOrder
<1>1. IInv => RailOrder BY PRInvSafe DEF IInv
<1> QED BY <1>1, Inductive, PTL

\* Resets are released only while the power is good.
THEOREM ResetsPowered == Spec => []ResetsNeedPower
<1>1. IInv => ResetsNeedPower BY PRInvSafe DEF IInv
<1> QED BY <1>1, Inductive, PTL

\* In the fault state no LED but the fault LED is lit and every rail is off,
\* wherever in the main loop the fault was met.
THEOREM Dark == Spec => []FaultIsDark
<1>1. IInv => FaultIsDark BY DEF IInv, PRInv, FaultIsDark
<1> QED BY <1>1, Inductive, PTL
=============================================================================
