------------------------------ MODULE PowerReset ------------------------------
(***************************************************************************)
(* The power and reset sequencer at the heart of both supervisor firmwares *)
(* (kup-lulz and fpga-stm32-ifaces): what PowerOn, PowerOff, PanicShutdown *)
(* and Iteration of g_super do to the rail enables and to the reset lines, *)
(* and how regulators and the FPGA answer.  The PowerResetSupervisor class *)
(* and the rail and reset descriptors live in a library; they are modelled *)
(* here from the way the boards' tables, subclasses and handlers use them. *)
(*                                                                         *)
(* CPU steps are small: PowerOn blocks on every rail, so a fault handler   *)
(* or a change of a pin can come between any two rails.                    *)
(***************************************************************************)
EXTENDS Integers, Sequences

CONSTANTS
  PowerSequence,  \* the rails in power-up order: is power-good sensed?
  ResetSequence,  \* the reset lines in release order: pin, is DONE awaited?
  MaxGlitches     \* bound: disturbances (brown-outs, faults, resets) per run

ASSUME PowerResetAssumption ==
  /\ PowerSequence \in Seq([pgood : BOOLEAN]) /\ PowerSequence # << >>
  /\ ResetSequence \in Seq([pin : STRING, done : BOOLEAN])
  /\ ResetSequence # << >>
  /\ MaxGlitches \in Nat

NRails  == Len(PowerSequence)
NResets == Len(ResetSequence)
Rail    == 1..NRails
Line    == 1..NResets
Pin     == {ResetSequence[i].pin : i \in Line}
PinOf(i) == ResetSequence[i].pin

VARIABLES
  railOn,      \* enable output of each rail
  pgood,       \* is the rail up?  (its PGOOD pin, where it has one)
  pin,         \* level of each active-low reset pin
  done,        \* the FPGA's DONE pin
  powerOn,     \* g_super.IsPowerOn()
  resetIndex,  \* the reset line being waited for; NResets + 1: all are up
  mode,        \* what the CPU is inside of
  step,        \* the rail the current ramp or shutdown is at
  faultLed, sysokLed,
  glitches     \* disturbances so far

sequencer == <<railOn, pin, powerOn, resetIndex, mode, step>>
leds      == <<faultLed, sysokLed>>
world     == <<pgood, done, glitches>>
prvars    == <<sequencer, leds, world>>

IsResetsDone == powerOn /\ resetIndex = NResets + 1
IsReady(i)   == pin[PinOf(i)] /\ (ResetSequence[i].done => done)
Assert       == pin' = [p \in Pin |-> FALSE]

\* The state after the C runtime has constructed the descriptors.
PRInit ==
  /\ railOn = [r \in Rail |-> FALSE] /\ pgood = [r \in Rail |-> FALSE]
  /\ pin = [p \in Pin |-> FALSE]     /\ done = FALSE
  /\ powerOn = FALSE /\ resetIndex = 1
  /\ mode = "run" /\ step = 0
  /\ faultLed = FALSE /\ sysokLed = FALSE /\ glitches = 0

-----------------------------------------------------------------------------
(* Power-up: one rail after the other, each waited for.                    *)

\* The call of PowerOn(); the caller's code resumes when mode is "run" again.
PowerOn ==
  /\ mode' = "ramp" /\ step' = 1
  /\ UNCHANGED <<railOn, pin, powerOn, resetIndex>>

RampEnable ==
  /\ mode = "ramp" /\ ~railOn[step]
  /\ railOn' = [railOn EXCEPT ![step] = TRUE]
  /\ UNCHANGED <<pin, powerOn, resetIndex, mode, step, leds, world>>

\* The rail is up: its PGOOD is high, or it has none and its delay is over.
RailUp == mode = "ramp" /\ railOn[step] /\ (PowerSequence[step].pgood => pgood[step])

RampNext ==
  /\ RailUp /\ step < NRails
  /\ step' = step + 1
  /\ UNCHANGED <<railOn, pin, powerOn, resetIndex, mode, leds, world>>

\* After the last rail the power is on and the first reset line is released.
RampDone ==
  /\ RailUp /\ step = NRails
  /\ powerOn' = TRUE /\ resetIndex' = 1
  /\ pin' = [pin EXCEPT ![PinOf(1)] = TRUE]
  /\ mode' = "run" /\ step' = 0
  /\ UNCHANGED <<railOn, leds, world>>

-----------------------------------------------------------------------------
(* Power-down: every reset asserted, then the rails in reverse order.      *)

\* Mutant: the resets are not asserted before the rails go down.
ShutdownWithoutReset(why) ==
  /\ resetIndex' = 1 /\ powerOn' = FALSE /\ mode' = why /\ step' = NRails
  /\ UNCHANGED <<railOn, pin>>

BeginShutdown(why) ==
  /\ Assert /\ resetIndex' = 1 /\ powerOn' = FALSE
  /\ mode' = why /\ step' = NRails
  /\ UNCHANGED railOn

PowerOff      == BeginShutdown("down")
PanicShutdown == BeginShutdown("panic")

\* Mutant: the wait for PGOOD starts over.
RampWaitsForever ==
  /\ mode = "ramp" /\ railOn[step] /\ PowerSequence[step].pgood /\ ~pgood[step]
  /\ UNCHANGED prvars

\* PGOOD still low when the rail's timeout has passed.
RampTimeout ==
  /\ mode = "ramp" /\ railOn[step] /\ PowerSequence[step].pgood /\ ~pgood[step]
  /\ PanicShutdown
  /\ UNCHANGED <<leds, world>>

\* Mutants: the rails go down in power-up order; one rail too many.
ShutRailForward ==
  /\ mode \in {"down", "panic"} /\ step > 0
  /\ railOn' = [railOn EXCEPT ![NRails + 1 - step] = FALSE] /\ step' = step - 1
  /\ UNCHANGED <<pin, powerOn, resetIndex, mode, leds, world>>
ShutRailBelowZero ==
  /\ mode \in {"down", "panic"} /\ step >= 0 /\ step' = step - 1
  /\ railOn' = [r \in Rail |-> railOn[r] /\ r # step]
  /\ UNCHANGED <<pin, powerOn, resetIndex, mode, leds, world>>

ShutRail ==
  /\ mode \in {"down", "panic"} /\ step > 0
  /\ railOn' = [railOn EXCEPT ![step] = FALSE] /\ step' = step - 1
  /\ UNCHANGED <<pin, powerOn, resetIndex, mode, leds, world>>

PowerOffDone ==
  /\ mode = "down" /\ step = 0 /\ mode' = "run"
  /\ UNCHANGED <<railOn, pin, powerOn, resetIndex, step, leds, world>>

\* Mutant: the OK LED is left as it was.
OnFaultKeepsOk ==
  /\ mode = "panic" /\ step = 0 /\ mode' = "hang" /\ faultLed' = TRUE
  /\ UNCHANGED <<railOn, pin, powerOn, resetIndex, step, sysokLed, world>>

\* OnFault(), the last thing PanicShutdown calls: fault LED on, OK LED off,
\* and an endless loop, so no action of the CPU is enabled any more.
OnFault ==
  /\ mode = "panic" /\ step = 0 /\ mode' = "hang"
  /\ faultLed' = TRUE /\ sysokLed' = FALSE
  /\ UNCHANGED <<railOn, pin, powerOn, resetIndex, step, world>>

-----------------------------------------------------------------------------
(* Iteration(): watch the rails, then move the reset sequence.             *)

Iteration ==
  LET lost == \E r \in Rail : PowerSequence[r].pgood /\ ~pgood[r]
      down == {i \in Line : i < resetIndex /\ ~IsReady(i)}
      next == resetIndex + 1
  IN \/ ~powerOn /\ UNCHANGED sequencer
     \/ powerOn /\ lost /\ PanicShutdown
     \/ \* a line that was up went down: hold all later ones in reset again
        \E i \in down :
          /\ powerOn /\ ~lost /\ \A j \in down : i <= j
          /\ resetIndex' = i
          /\ pin' = [p \in Pin |->
                       pin[p] /\ \A j \in Line : PinOf(j) = p => j <= i]
          /\ UNCHANGED <<railOn, powerOn, mode, step>>
     \/ \* the line waited for is ready: release the next one, if any
        /\ powerOn /\ ~lost /\ down = {}
        /\ resetIndex \in Line /\ IsReady(resetIndex)
        /\ resetIndex' = next
        /\ pin' = IF next \in Line THEN [pin EXCEPT ![PinOf(next)] = TRUE] ELSE pin
        /\ UNCHANGED <<railOn, powerOn, mode, step>>
     \/ /\ powerOn /\ ~lost /\ down = {}
        /\ resetIndex \in Line => ~IsReady(resetIndex)
        /\ UNCHANGED sequencer

-----------------------------------------------------------------------------
(* The hardware around the supervisor.                                     *)

Glitch == glitches < MaxGlitches /\ glitches' = glitches + 1

\* A regulator comes up, or its output decays after it was turned off.
RailSettles(r) ==
  /\ pgood[r] # railOn[r]
  /\ pgood' = [pgood EXCEPT ![r] = railOn[r]]
  /\ UNCHANGED <<sequencer, leds, done, glitches>>

BrownOut(r) ==
  /\ railOn[r] /\ pgood[r] /\ Glitch
  /\ pgood' = [pgood EXCEPT ![r] = FALSE]
  /\ UNCHANGED <<sequencer, leds, done>>

\* The FPGA loads its bitstream once the lines up to its own are released.
Booting ==
  \E i \in Line : ResetSequence[i].done /\ \A j \in 1..i : pin[PinOf(j)]

FpgaConfigured ==
  /\ ~done /\ Booting /\ done' = TRUE
  /\ UNCHANGED <<sequencer, leds, pgood, glitches>>

\* DONE falls when the FPGA is put back into reset, or by itself.
FpgaLost ==
  /\ done /\ done' = FALSE
  /\ \/ ~Booting /\ UNCHANGED glitches
     \/ Glitch
  /\ UNCHANGED <<sequencer, leds, pgood>>

\* Mutant: it only hangs, as the handlers of the other boards do.
HardFaultHangs ==
  /\ mode \in {"run", "ramp", "down"} /\ Glitch /\ mode' = "hang"
  /\ UNCHANGED <<railOn, pin, powerOn, resetIndex, step, leds, pgood, done>>

\* HardFault_Handler interrupts anything and shuts the rails down.
HardFault_Handler ==
  /\ mode \in {"run", "ramp", "down"} /\ Glitch
  /\ PanicShutdown
  /\ UNCHANGED <<leds, pgood, done>>

\* The other fault handlers and the default ISR call Reset(); a hung board is
\* left only by a reset from outside.  The pins fall back to their defaults.
Reset ==
  /\ Glitch
  /\ railOn' = [r \in Rail |-> FALSE] /\ Assert
  /\ powerOn' = FALSE /\ resetIndex' = 1 /\ mode' = "run" /\ step' = 0
  /\ faultLed' = FALSE /\ sysokLed' = FALSE
  /\ UNCHANGED <<pgood, done>>

Sequencing == RampEnable \/ RampNext \/ RampDone \/ RampTimeout \/ ShutRail \/ PowerOffDone

Hardware ==
  \/ \E r \in Rail : RailSettles(r) \/ BrownOut(r)
  \/ FpgaConfigured \/ FpgaLost

-----------------------------------------------------------------------------
PRTypeOK ==
  /\ railOn \in [Rail -> BOOLEAN] /\ pgood \in [Rail -> BOOLEAN]
  /\ pin \in [Pin -> BOOLEAN] /\ done \in BOOLEAN /\ powerOn \in BOOLEAN
  /\ resetIndex \in 1..NResets + 1
  /\ mode \in {"run", "ramp", "down", "panic", "hang"} /\ step \in 0..NRails
  /\ faultLed \in BOOLEAN /\ sysokLed \in BOOLEAN /\ glitches \in 0..MaxGlitches

\* Whatever interrupts a power-up or a power-down, the rails that are enabled
\* are always the first ones of g_powerSequence: none is powered before one
\* it depends on, none outlives one it depends on.
RailOrder == \A i, j \in Rail : j < i /\ railOn[i] => railOn[j]

\* No chip is taken out of reset while any of its rails is off: a released
\* pin means that every rail has come up and none has been turned off since.
ResetsNeedPower == \A p \in Pin : pin[p] => powerOn /\ \A r \in Rail : railOn[r]

\* Once PanicShutdown has ended the board is dark: every rail off, every reset
\* asserted, and the LEDs tell of the fault until somebody resets the board.
FaultIsSafe ==
  mode = "hang" => /\ \A r \in Rail : ~railOn[r]
                   /\ \A p \in Pin : ~pin[p]
                   /\ faultLed /\ ~sysokLed

\* A reset pin rises only when every line before it in g_resetSequence is up:
\* the FPGA first, and the MCU only once the FPGA reports that it is done.
ResetOrder ==
  [][\A i \in Line : ~pin[PinOf(i)] /\ pin'[PinOf(i)] => \A j \in 1..(i - 1) : IsReady(j)]_prvars
=============================================================================
