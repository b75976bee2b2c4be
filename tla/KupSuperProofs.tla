---------------------------- MODULE KupSuperProofs ----------------------------
(***************************************************************************)
(* Proofs about the supervisor of kup-lulz, for every table of rails and   *)
(* resets: its type invariant, the safety of the rails and resets, the     *)
(* order of the resets and the button's one toggle per press.              *)
(***************************************************************************)
EXTENDS KupSuper, PowerResetProofs

\* The inductive invariant.  The rails are PRInv's; a press that is waiting to
\* be seen has been counted by presses but not yet by toggles, except between
\* the two reads of the pin, where the toggle has been made already.
IInv ==
  /\ PRInv
  /\ TypeOK
  /\ pc = "init" => ~powerOn /\ mode # "ramp"
  /\ toggles <= presses + glitches
  /\ button /\ ~buttonDown /\ pc # "latch" => toggles + 1 <= presses + glitches

\* Pins are told apart: what the table of the other board does not satisfy.
DistinctPins == \A i, j \in Line : PinOf(i) = PinOf(j) => i = j

\* The LED never leaves the Booleans, so a LED pass preserves the invariant.
LEMMA LEDTaskInv == ASSUME IInv, LEDTask PROVE IInv'
<1>1. sysokLed' \in BOOLEAN /\ blinking' \in BOOLEAN
  BY DEF LEDTask, IsResetsDone, IInv, PRInv, PRTypeOK
<1>2. /\ mode = "run" /\ pc = "led" /\ pc' = "button"
      /\ UNCHANGED <<sequencer, faultLed, world, buttonDown, toggles, finger>>
  BY DEF LEDTask
<1>3. PRInv'
  BY <1>1, <1>2 DEF IInv, PRInv, PRTypeOK, RailOrder, sequencer, world
<1>4. TypeOK'
  BY <1>1, <1>2, <1>3 DEF IInv, PRInv, TypeOK, finger
<1> QED BY <1>2, <1>3, <1>4 DEF IInv, world, finger, sequencer

\* A pass of the button task toggles only for a press still to be counted.
LEMMA ButtonInv == ASSUME IInv, ButtonPress \/ ButtonLatch PROVE IInv'
<1>1. CASE ButtonPress
  <2>1. /\ mode = "run" /\ pc' = "latch"
        /\ UNCHANGED <<leds, world, blinking, buttonDown, button, presses>>
    BY <1>1 DEF ButtonPress, finger
  <2>2. CASE button /\ ~buttonDown /\ toggles' = toggles + 1 /\ (PowerOff \/ (~powerOn /\ PowerOn))
    <3>1. PRInv'
      <4>1. CASE PowerOff
        <5>1. /\ BeginShutdown("down") /\ UNCHANGED leds
              /\ pgood' \in [Rail -> BOOLEAN] /\ done' \in BOOLEAN /\ glitches' \in 0..MaxGlitches
          BY <2>1, <4>1 DEF PowerOff, IInv, PRInv, PRTypeOK, world
        <5> QED BY <5>1, BeginShutdownInv DEF IInv
      <4>2. CASE ~powerOn /\ PowerOn
        BY <2>1, <4>2, PowerOnInv DEF IInv
      <4> QED BY <2>2, <4>1, <4>2
    <3>2. toggles' \in Nat /\ toggles' <= presses' + glitches'
      BY <1>1, <2>1, <2>2 DEF ButtonPress, IInv, TypeOK, world
    <3> QED BY <2>1, <3>1, <3>2 DEF IInv, PRInv, TypeOK
  <2>3. CASE UNCHANGED <<sequencer, toggles>>
    <3>1. PRInv'
      BY <2>1, <2>3 DEF IInv, PRInv, PRTypeOK, RailOrder, sequencer, world, leds
    <3> QED BY <2>1, <2>3, <3>1 DEF IInv, PRInv, TypeOK, world
  <2>4. \/ button /\ ~buttonDown /\ toggles' = toggles + 1 /\ (PowerOff \/ (~powerOn /\ PowerOn))
        \/ UNCHANGED <<sequencer, toggles>>
    BY <1>1 DEF ButtonPress
  <2> QED BY <2>2, <2>3, <2>4
<1>2. CASE ButtonLatch
  <2>1. /\ UNCHANGED <<sequencer, leds, world, button, presses, toggles, blinking>>
        /\ pc' = "super" /\ buttonDown' = button
    BY <1>2 DEF ButtonLatch, prvars, finger
  <2>2. PRInv'
    BY <2>1 DEF IInv, PRInv, PRTypeOK, RailOrder, sequencer, leds, world
  <2> QED BY <2>1, <2>2 DEF IInv, PRInv, TypeOK, world
<1> QED BY <1>1, <1>2

\* Steps of the sequencer, of the hardware and of the interrupts leave the
\* firmware's own variables alone.
LEMMA OutsideInv ==
  ASSUME IInv, Sequencing \/ OnFault \/ Hardware \/ HardFault_Handler, UNCHANGED <<task, finger>>
  PROVE  IInv'
<1>1. PRInv'
  BY RampInv, ShutdownInv, HardwareInv DEF IInv, Sequencing
<1>2. /\ UNCHANGED <<pc, blinking, button, buttonDown>>
      /\ presses' = presses /\ toggles' = toggles
  BY DEF task, finger
<1>3. glitches' \in Nat /\ glitches <= glitches'
  <2>1. CASE Sequencing \/ OnFault
    BY <2>1, <1>1, Tables DEF Sequencing, RampEnable, RampNext, RampDone, RampTimeout, ShutRail,
       PowerOffDone, OnFault, world, IInv, PRInv, PRTypeOK
  <2>2. CASE Hardware
    BY <2>2, Tables DEF Hardware, RailSettles, BrownOut, FpgaConfigured, FpgaLost, Glitch,
       IInv, PRInv, PRTypeOK
  <2>3. CASE HardFault_Handler
    BY <2>3, Tables DEF HardFault_Handler, Glitch, IInv, PRInv, PRTypeOK
  <2> QED BY <2>1, <2>2, <2>3
<1>4. pc = "init" => ~powerOn' /\ mode' # "ramp"
  <2>1. CASE Sequencing \/ OnFault
    BY <2>1 DEF Sequencing, RampEnable, RampNext, RampDone, RampTimeout, ShutRail, PowerOffDone,
       OnFault, PanicShutdown, BeginShutdown, IInv, RailUp
  <2>2. CASE Hardware
    BY <2>2 DEF Hardware, RailSettles, BrownOut, FpgaConfigured, FpgaLost, sequencer, IInv
  <2>3. CASE HardFault_Handler
    BY <2>3 DEF HardFault_Handler, PanicShutdown, BeginShutdown, IInv
  <2> QED BY <2>1, <2>2, <2>3
<1>5. TypeOK' BY <1>1, <1>2 DEF IInv, PRInv, TypeOK
<1>6. glitches \in Nat /\ presses \in Nat /\ toggles \in Nat
  BY Tables, KupSuperAssumption DEF IInv, TypeOK, PRTypeOK
<1>7. /\ toggles <= presses + glitches => toggles' <= presses' + glitches'
      /\ toggles + 1 <= presses + glitches => toggles' + 1 <= presses' + glitches'
  <2>1. glitches' \in Nat /\ glitches <= glitches' BY <1>3
  <2>2. presses' = presses /\ toggles' = toggles BY <1>2
  <2>3. ASSUME NEW t \in Nat, NEW p \in Nat, NEW g \in Nat, NEW h \in Nat, g <= h, t <= p + g
        PROVE  t <= p + h
    BY <2>3
  <2>4. toggles <= presses + glitches => toggles <= presses + glitches'
    BY <2>1, <2>3, <1>6
  <2>5. toggles + 1 <= presses + glitches => toggles + 1 <= presses + glitches'
    <3>1. toggles + 1 \in Nat BY <1>6
    <3> QED BY <2>1, <2>3, <1>6, <3>1
  <2> QED BY <2>2, <2>4, <2>5
<1> QED BY <1>1, <1>2, <1>4, <1>5, <1>7 DEF IInv
\* A reset of the supervisor may add a toggle, which glitches has counted.
LEMMA ResetInv == ASSUME IInv, ResetMCU PROVE IInv'
<1>1. /\ PRInv' /\ powerOn' = FALSE /\ mode' = "run" /\ pc' = "init"
      /\ blinking' = FALSE /\ buttonDown' = FALSE
      /\ UNCHANGED <<button, presses, toggles>> /\ glitches' = glitches + 1
  BY HardwareInv DEF ResetMCU, Reset, Glitch, finger, IInv
<1>2. TypeOK'
  BY <1>1 DEF IInv, PRInv, TypeOK
<1>3. glitches \in Nat /\ presses \in Nat /\ toggles \in Nat /\ toggles <= presses + glitches
  BY Tables, KupSuperAssumption DEF IInv, TypeOK, PRTypeOK
<1>4. toggles' <= presses' + glitches' /\ toggles' + 1 <= presses' + glitches'
  BY <1>1, <1>3
<1> QED BY <1>1, <1>2, <1>4 DEF IInv

\* A finger on the button counts as a press when the button goes down.
LEMMA PressInv == ASSUME IInv, Press PROVE IInv'
<1>1. /\ UNCHANGED <<prvars, pc, blinking, buttonDown, toggles>> /\ button' = ~button
      /\ \/ button' /\ presses < MaxPresses /\ presses' = presses + 1
         \/ ~button' /\ presses' = presses
  BY DEF Press, task
<1>2. PRInv' /\ UNCHANGED <<powerOn, mode, glitches>>
  BY <1>1 DEF IInv, PRInv, PRTypeOK, RailOrder, prvars, sequencer, leds, world
<1>3. glitches \in Nat /\ presses \in 0..MaxPresses /\ toggles \in Nat /\ toggles <= presses + glitches
  BY Tables DEF IInv, TypeOK, PRTypeOK
<1>4. presses' \in 0..MaxPresses /\ toggles' \in Nat /\ toggles' <= presses' + glitches'
  BY <1>1, <1>2, <1>3, KupSuperAssumption
<1>5. button' => toggles' + 1 <= presses' + glitches'
  BY <1>1, <1>2, <1>3
<1>6. TypeOK'
  BY <1>1, <1>2, <1>4 DEF IInv, PRInv, TypeOK
<1> QED BY <1>1, <1>2, <1>4, <1>5, <1>6 DEF IInv

\* App_Init is entered with the power off; the loop runs Iteration() last.
LEMMA LoopInv == ASSUME IInv, App_Init \/ SuperTask PROVE IInv'
<1>1. PRInv' /\ UNCHANGED <<world, finger, blinking, buttonDown, toggles>> /\ pc' = "led"
  <2>1. CASE App_Init
    BY <2>1, PowerOnInv DEF App_Init, IInv
  <2>2. CASE SuperTask
    BY <2>2, IterationInv DEF SuperTask, IInv
  <2> QED BY <2>1, <2>2
<1>2. pc # "latch" BY DEF App_Init, SuperTask
<1>3. TypeOK' BY <1>1 DEF IInv, PRInv, TypeOK, finger
<1> QED BY <1>1, <1>2, <1>3 DEF IInv, world, finger

\* The invariant holds at the start and every step preserves it.
THEOREM Inductive == Spec => []IInv
<1>1. Init => IInv
  <2> SUFFICES ASSUME Init PROVE IInv OBVIOUS
  <2>1. PRInv BY PRInvInit DEF Init
  <2>2. presses \in 0..MaxPresses /\ toggles \in Nat BY KupSuperAssumption DEF Init
  <2>5. TypeOK BY <2>1, <2>2 DEF Init, TypeOK, PRInv
  <2>3. ~powerOn /\ mode # "ramp" /\ ~button BY DEF Init, PRInit
  <2>4. toggles <= presses + glitches BY DEF Init, PRInit
  <2> QED BY <2>1, <2>3, <2>4, <2>5 DEF IInv
<1>2. IInv /\ [Next]_vars => IInv'
  <2> SUFFICES ASSUME IInv, [Next]_vars PROVE IInv' OBVIOUS
  <2>1. CASE UNCHANGED vars
    <3>1. PRInv'
      BY <2>1 DEF IInv, PRInv, PRTypeOK, RailOrder, vars, prvars, sequencer, leds, world
    <3> QED BY <2>1, <3>1 DEF IInv, PRInv, TypeOK, vars, prvars, sequencer, leds, world, task, finger
  <2>2. CASE Next
    BY <2>2, LEDTaskInv, ButtonInv, OutsideInv, ResetInv, PressInv, LoopInv DEF Next, CPU
  <2> QED BY <2>1, <2>2
<1> QED BY <1>1, <1>2, PTL DEF Spec

\* The types hold for every table, however many presses and disturbances.
THEOREM TypeCorrect == Spec => []TypeOK
<1>1. IInv => TypeOK BY DEF IInv
<1> QED BY <1>1, Inductive, PTL

\* Wherever a power-up or a power-down is interrupted, the enabled rails are
\* the first ones of the table.
THEOREM RailsInOrder == Spec => []RailOrder
<1>1. IInv => RailOrder BY PRInvSafe DEF IInv
<1> QED BY <1>1, Inductive, PTL

\* No reset line is released unless every rail is on, whatever DONE, PGOOD, the
\* button and the fault handlers do.
THEOREM ResetsPowered == Spec => []ResetsNeedPower
<1>1. IInv => ResetsNeedPower BY PRInvSafe DEF IInv
<1> QED BY <1>1, Inductive, PTL

\* A panic that has ended leaves no rail on and no chip out of reset.
THEOREM FaultDark == Spec => []FaultIsSafe
<1>1. IInv => FaultIsSafe BY PRInvSafe DEF IInv
<1> QED BY <1>1, Inductive, PTL

\* However the reads of the pin race the finger, a press toggles at most once.
THEOREM OneToggle == Spec => []OneTogglePerPress
<1>1. IInv => OneTogglePerPress BY DEF IInv, OneTogglePerPress
<1> QED BY <1>1, Inductive, PTL

\* A step of PowerReset releases a line only when those before it are ready.
\* It rests on the pins being different ones.
LEMMA ReleaseInOrder ==
  ASSUME DistinctPins, IInv, Next, NEW i \in Line, ~pin[PinOf(i)], pin'[PinOf(i)], NEW j \in 1..(i - 1)
  PROVE  IsReady(j)
<1>1. CASE RampDone
  <2>1. i = 1
    BY <1>1, Tables DEF RampDone, DistinctPins, IInv, PRInv, PRTypeOK, Line
  <2> QED BY <2>1
<1>2. CASE SuperTask
  <2>1. CASE resetIndex \in Line /\ IsReady(resetIndex) /\ {k \in Line : k < resetIndex /\ ~IsReady(k)} = {}
             /\ pin' = IF resetIndex + 1 \in Line THEN [pin EXCEPT ![PinOf(resetIndex + 1)] = TRUE] ELSE pin
    <3>1. i = resetIndex + 1
      BY <2>1, Tables DEF DistinctPins, IInv, PRInv, PRTypeOK, Line
    <3>2. j \in Line /\ j <= resetIndex
      BY <3>1, <2>1, Tables DEF Line
    <3> QED BY <2>1, <3>2, Tables DEF Line
  <2>2. CASE pin' = pin
    BY <2>2
  <2>3. CASE \A p \in Pin : pin'[p] => pin[p]
    BY <2>3, Tables
  <2> QED BY <1>2, <2>1, <2>2, <2>3 DEF SuperTask, Iteration, sequencer, PanicShutdown, BeginShutdown, Assert
<1>3. CASE UNCHANGED pin
  BY <1>3
<1>4. CASE pin' = [p \in Pin |-> FALSE]
  BY <1>4, Tables
<1> QED BY <1>1, <1>2, <1>3, <1>4 DEF Next, CPU, App_Init, PowerOn, LEDTask, ButtonPress, PowerOff,
        BeginShutdown, PanicShutdown, Assert, ButtonLatch, Press, ResetMCU, Reset, Sequencing, RampEnable,
        RampNext, RampTimeout, ShutRail, PowerOffDone, OnFault, Hardware, RailSettles, BrownOut,
        FpgaConfigured, FpgaLost, HardFault_Handler, prvars, sequencer

\* The pins of the board's own table are distinct.
LEMMA KupPins == ASSUME ResetSequence = KupResetSequence PROVE DistinctPins
<1>1. Line = 1..3 BY DEF Line, NResets, KupResetSequence
<1>2. PinOf(1) = "PB12" /\ PinOf(2) = "PB2" /\ PinOf(3) = "PB9"
  BY DEF PinOf, KupResetSequence
<1> QED BY <1>1, <1>2 DEF DistinctPins

\* With distinct pins the lines come up in the order of g_resetSequence.
THEOREM InOrder == ASSUME DistinctPins PROVE Spec => ResetOrder
<1>1. IInv /\ [Next]_vars =>
        [\A i \in Line : ~pin[PinOf(i)] /\ pin'[PinOf(i)] => \A j \in 1..(i - 1) : IsReady(j)]_prvars
  BY ReleaseInOrder DEF vars
<1> QED BY <1>1, Inductive, PTL DEF Spec, ResetOrder
=============================================================================
