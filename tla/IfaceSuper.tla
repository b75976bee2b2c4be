------------------------------ MODULE IfaceSuper ------------------------------
(***************************************************************************)
(* The supervisor firmware of fpga-stm32-ifaces: the same sequencer driven *)
(* by a plain main loop that keeps the log timer from wrapping, refreshes  *)
(* the LEDs and runs g_super.  There is no power button.  Its three reset  *)
(* descriptors are all built on pin PA3.                                   *)
(***************************************************************************)
EXTENDS PowerReset

CONSTANTS
  LogTimerMax,  \* g_logTimerMax: where UpdateOffset winds the timer back
  BlinkDelay,   \* blinkDelay, in timer ticks
  Slack         \* bound: how far the timer runs on before it is wound back

ASSUME IfaceSuperAssumption ==
  /\ LogTimerMax \in Nat /\ BlinkDelay \in Nat \ {0} /\ Slack \in Nat
  /\ Slack < BlinkDelay /\ Slack + BlinkDelay <= LogTimerMax

VARIABLES
  pc,         \* the next call of the firmware, when it is in no PowerOn
  pgoodLed,
  count,      \* g_logTimer.GetCount()
  nextBlink,  \* static local of UpdateLEDs
  sinceBlink  \* ticks since the OK LED last blinked, up to BlinkDelay (history)

timer == <<count, nextBlink, sinceBlink>>
vars  == <<prvars, pc, pgoodLed, timer>>

\* g_powerSequence: 12V0 (a delay only), 1V0, 1V8, 3V3, 1V2.
IfacePowerSequence == [i \in 1..5 |-> [pgood |-> i > 1]]

\* g_resetSequence: g_fpgaResetN, g_fpgaInitN and g_mcuResetN, each on PA3.
IfaceResetSequence == << [pin |-> "PA3", done |-> FALSE],
                         [pin |-> "PA3", done |-> TRUE],
                         [pin |-> "PA3", done |-> FALSE] >>

Init ==
  /\ PRInit /\ pc = "init" /\ pgoodLed = FALSE
  /\ count = 0 /\ nextBlink = 0 /\ sinceBlink = BlinkDelay

-----------------------------------------------------------------------------
App_Init ==
  /\ mode = "run" /\ pc = "init" /\ PowerOn
  /\ pc' = "wrap"
  /\ UNCHANGED <<leds, world, pgoodLed, timer>>

\* g_log.UpdateOffset(g_logTimerMax), first in the main loop.
UpdateOffset ==
  /\ mode = "run" /\ pc = "wrap" /\ pc' = "led"
  /\ count' = IF count >= LogTimerMax THEN count - LogTimerMax ELSE count
  /\ UNCHANGED <<prvars, pgoodLed, nextBlink, sinceBlink>>

\* Mutant: the deadline is not wound back with the timer.
DeadlineNotWound == count + BlinkDelay

Deadline == IF count + BlinkDelay > LogTimerMax
            THEN count + BlinkDelay - LogTimerMax ELSE count + BlinkDelay
Blinking == powerOn /\ ~IsResetsDone /\ count >= nextBlink

\* Mutant: the power-good LED waits for the resets.
UpdateLEDsLate ==
  /\ mode = "run" /\ pc = "led" /\ pc' = "super" /\ pgoodLed' = IsResetsDone
  /\ UNCHANGED <<prvars, timer>>

UpdateLEDs ==
  /\ mode = "run" /\ pc = "led" /\ pc' = "super"
  /\ pgoodLed' = powerOn
  /\ \/ /\ Blinking
        /\ sysokLed' = ~sysokLed /\ sinceBlink' = 0
        /\ nextBlink' = Deadline
     \/ /\ ~Blinking
        /\ sysokLed' = (powerOn /\ (IsResetsDone \/ sysokLed))
        /\ UNCHANGED <<nextBlink, sinceBlink>>
  /\ UNCHANGED <<sequencer, faultLed, world, count>>

SuperIteration ==
  /\ mode = "run" /\ pc = "super" /\ pc' = "wrap"
  /\ Iteration
  /\ UNCHANGED <<leds, world, pgoodLed, timer>>

\* Mutant: the power-good LED is forgotten.
OnFaultKeepsPgood == OnFault /\ UNCHANGED <<pc, pgoodLed, timer>>

\* This board's OnFault also turns the power-good LED off.
IfaceOnFault == OnFault /\ pgoodLed' = FALSE /\ UNCHANGED <<pc, timer>>

ResetMCU ==
  /\ Reset /\ pc' = "init" /\ pgoodLed' = FALSE
  /\ count' = 0 /\ nextBlink' = 0 /\ sinceBlink' = BlinkDelay

Tick ==
  /\ count < LogTimerMax + Slack /\ count' = count + 1
  /\ sinceBlink' = IF sinceBlink < BlinkDelay THEN sinceBlink + 1 ELSE sinceBlink
  /\ UNCHANGED <<prvars, pc, pgoodLed, nextBlink>>

CPU ==
  \/ App_Init \/ UpdateOffset \/ UpdateLEDs \/ SuperIteration \/ IfaceOnFault
  \/ Sequencing /\ UNCHANGED <<pc, pgoodLed, timer>>

Next ==
  \/ CPU \/ Tick \/ ResetMCU
  \/ (Hardware \/ HardFault_Handler) /\ UNCHANGED <<pc, pgoodLed, timer>>

\* The CPU keeps running.
Spec == Init /\ [][Next]_vars /\ WF_vars(CPU)

-----------------------------------------------------------------------------
TypeOK ==
  /\ PRTypeOK
  /\ pc \in {"init", "wrap", "led", "super"} /\ pgoodLed \in BOOLEAN
  /\ count \in 0..LogTimerMax + Slack /\ nextBlink \in 0..LogTimerMax
  /\ sinceBlink \in 0..BlinkDelay

\* In the fault state no LED claims good power or a running system.
FaultIsDark == mode = "hang" => ~pgoodLed /\ ~sysokLed /\ faultLed /\ \A r \in Rail : ~railOn[r]

\* Once the rails stay as they are the power-good LED tells the truth.
PgoodLedTruth == /\ <>[]powerOn => <>[]pgoodLed
                 /\ <>[](~powerOn /\ mode # "ramp") => <>[]~pgoodLed

\* "First boot the FPGA, then release the MCU": the MCU's reset pin, the last
\* of the sequence, is released only when every line before it is ready.
McuReleasedLast ==
  [][~pin[PinOf(NResets)] /\ pin'[PinOf(NResets)]
       => \A j \in 1..(NResets - 1) : IsReady(j)]_vars

\* "Blink OK LED at 2 Hz": two blinks are at least BlinkDelay ticks apart.
BlinkNotFast == 
  [][sysokLed' # sysokLed /\ powerOn /\ ~IsResetsDone /\ mode' = "run" /\ mode = "run"
       => sinceBlink = BlinkDelay]_vars
=============================================================================
