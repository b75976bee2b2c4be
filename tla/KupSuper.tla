------------------------------- MODULE KupSuper -------------------------------
(***************************************************************************)
(* The supervisor firmware of kup-lulz: App_Init and the task loop around  *)
(* the sequencer, with the LED task and the power button.  The scheduler   *)
(* runs the tasks in the order of g_tasks: LED, button, g_super (the SPI   *)
(* server, last, is module SupervisorLink).                                *)
(***************************************************************************)
EXTENDS PowerReset

CONSTANT MaxPresses   \* bound: how often the power button is pressed

ASSUME KupSuperAssumption == MaxPresses \in Nat

VARIABLES
  pc,          \* the next call of the firmware, when it is in no PowerOn/Off
  blinking,    \* LEDTask::m_blinking
  button,      \* level of the power button's pin
  buttonDown,  \* ButtonTask::m_buttonDown
  presses,     \* presses so far
  toggles      \* power toggles so far (history)

task   == <<pc, blinking, buttonDown, toggles>>
finger == <<button, presses>>
vars   == <<prvars, task, finger>>

\* g_powerSequence: VCCINT has no usable PGOOD, 1V8, GTY_VCC, GTY_VTT, 3V3
\* and GTY_VCCAUX have one.
KupPowerSequence == [i \in 1..6 |-> [pgood |-> i > 1]]

\* Mutant: the table of fpga-stm32-ifaces, where all lines share a pin.
SharedPinSequence == << [pin |-> "PA3", done |-> FALSE],
                        [pin |-> "PA3", done |-> TRUE],
                        [pin |-> "PA3", done |-> FALSE] >>

\* g_resetSequence: FPGA PROG, FPGA INIT (waits for DONE), MCU.
KupResetSequence == << [pin |-> "PB12", done |-> FALSE],
                       [pin |-> "PB2",  done |-> TRUE],
                       [pin |-> "PB9",  done |-> FALSE] >>

Init ==
  /\ PRInit
  /\ pc = "init" /\ blinking = FALSE /\ buttonDown = FALSE /\ toggles = 0
  /\ button = FALSE /\ presses = 0

-----------------------------------------------------------------------------
\* "Turn on immediately, don't wait for a button press".
App_Init ==
  /\ mode = "run" /\ pc = "init" /\ PowerOn
  /\ pc' = "led"
  /\ UNCHANGED <<leds, world, blinking, buttonDown, toggles, finger>>

\* Mutant: no branch turns the OK LED off when the power is off.
LEDTaskNeverOff ==
  /\ mode = "run" /\ pc = "led" /\ pc' = "button"
  /\ sysokLed' = (IsResetsDone \/ sysokLed) /\ blinking' = (powerOn /\ ~IsResetsDone)
  /\ UNCHANGED <<sequencer, faultLed, world, buttonDown, toggles, finger>>

\* LEDTask::Iteration; whether its timer fires is left open.
LEDTask ==
  /\ mode = "run" /\ pc = "led" /\ pc' = "button"
  /\ \E fires \in BOOLEAN :
       sysokLed' = \/ IsResetsDone
                   \/ powerOn /\ sysokLed # (fires /\ blinking)
  /\ blinking' = (powerOn /\ ~IsResetsDone)
  /\ UNCHANGED <<sequencer, faultLed, world, buttonDown, toggles, finger>>

\* ButtonTask::Iteration reads the pin twice: to act on an edge ...
ButtonPress ==
  /\ mode = "run" /\ pc = "button" /\ pc' = "latch"
  /\ \/ /\ button /\ ~buttonDown
        /\ \/ powerOn /\ PowerOff
           \/ ~powerOn /\ PowerOn
        /\ toggles' = toggles + 1
     \/ ~(button /\ ~buttonDown) /\ UNCHANGED <<sequencer, toggles>>
  /\ UNCHANGED <<leds, world, blinking, buttonDown, finger>>

\* Mutant: the level is not remembered.
ButtonForgets ==
  /\ mode = "run" /\ pc = "latch" /\ pc' = "super" /\ buttonDown' = FALSE
  /\ UNCHANGED <<prvars, blinking, toggles, finger>>

\* ... and, after the rails have been ramped, to remember the level.
ButtonLatch ==
  /\ mode = "run" /\ pc = "latch" /\ pc' = "super"
  /\ buttonDown' = button
  /\ UNCHANGED <<prvars, blinking, toggles, finger>>

SuperTask ==
  /\ mode = "run" /\ pc = "super" /\ pc' = "led"
  /\ Iteration
  /\ UNCHANGED <<leds, world, blinking, buttonDown, toggles, finger>>

Press ==
  /\ \/ ~button /\ presses < MaxPresses /\ presses' = presses + 1
     \/ button /\ UNCHANGED presses
  /\ button' = ~button
  /\ UNCHANGED <<prvars, task>>

ResetMCU ==
  /\ Reset
  /\ pc' = "init" /\ blinking' = FALSE /\ buttonDown' = FALSE
  /\ UNCHANGED <<toggles, finger>>

CPU ==
  \/ App_Init \/ LEDTask \/ ButtonPress \/ ButtonLatch \/ SuperTask
  \/ (Sequencing \/ OnFault) /\ UNCHANGED <<task, finger>>

Next ==
  \/ CPU \/ Press \/ ResetMCU
  \/ (Hardware \/ HardFault_Handler) /\ UNCHANGED <<task, finger>>

\* The CPU keeps running, and an FPGA whose lines are released loads its
\* bitstream.  No regulator is trusted to come up.
Fairness ==
  /\ WF_vars(CPU)
  /\ WF_vars(FpgaConfigured /\ UNCHANGED <<task, finger>>)

Spec == Init /\ [][Next]_vars /\ Fairness

-----------------------------------------------------------------------------
TypeOK ==
  /\ PRTypeOK
  /\ pc \in {"init", "led", "button", "latch", "super"}
  /\ blinking \in BOOLEAN /\ button \in BOOLEAN /\ buttonDown \in BOOLEAN
  /\ presses \in 0..MaxPresses /\ toggles \in Nat

\* However the press races the two reads of the pin, and however long the ramp
\* between them takes, one press never toggles the power twice.  (A reset of
\* the supervisor forgets m_buttonDown, so each one may add a toggle.)
OneTogglePerPress == toggles <= presses + glitches

\* When the disturbances are over the board settles: hung in the safe fault
\* state, or out of every ramp and either off or on with every reset released;
\* a rail that stays dead is not waited for.
BootSettles == <>[](mode = "hang" \/ (mode = "run" /\ (~powerOn \/ IsResetsDone)))

\* The OK LED ends up solid on exactly when the board ends up fully on: not
\* blinking on, not left lit after a power-off or a fault.
LedShowsState == /\ <>[]IsResetsDone => <>[]sysokLed
                 /\ <>[](~powerOn /\ mode # "ramp") => <>[]~sysokLed
=============================================================================
