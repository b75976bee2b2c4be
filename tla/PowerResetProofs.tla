--------------------------- MODULE PowerResetProofs ---------------------------
(***************************************************************************)
(* Proofs about the sequencer: an inductive invariant that every action of *)
(* PowerReset preserves, for every rail and reset table.  The two boards'  *)
(* proofs (KupSuperProofs, IfaceSuperProofs) add their own actions.        *)
(***************************************************************************)
EXTENDS PowerReset, SequenceTheorems, TLAPS

\* The tables are not empty, and their indices and pins are what they should be.
LEMMA Tables == /\ NRails \in Nat /\ NRails > 0 /\ NResets \in Nat /\ NResets > 0
                /\ 1 \in 1..NResets + 1 /\ MaxGlitches \in Nat /\ 0 \in 0..MaxGlitches
                /\ \A i \in Line : PinOf(i) \in Pin
<1>1. NRails \in Nat /\ NRails > 0
  BY PowerResetAssumption, EmptySeq DEF NRails
<1>2. NResets \in Nat /\ NResets > 0
  BY PowerResetAssumption, EmptySeq DEF NResets
<1>3. MaxGlitches \in Nat
  BY PowerResetAssumption
<1> QED BY <1>1, <1>2, <1>3 DEF Pin, PinOf

\* Where the CPU is determines which rails are on: while a ramp is at a rail,
\* those before it are on and those after it are off; a shutdown has turned
\* off those after its place; otherwise all are on or none is.  Without the
\* power on no reset is released.
PRInv ==
  /\ PRTypeOK
  /\ RailOrder
  /\ mode = "ramp" => /\ step \in Rail
                      /\ \A r \in Rail : (r < step => railOn[r]) /\ (r > step => ~railOn[r])
  /\ mode \in {"down", "panic"} => \A r \in Rail : r > step => ~railOn[r]
  /\ powerOn => mode = "run" /\ \A r \in Rail : railOn[r]
  /\ ~powerOn => \A p \in Pin : ~pin[p]
  /\ mode \in {"run", "hang"} /\ ~powerOn => \A r \in Rail : ~railOn[r]
  /\ mode = "hang" => faultLed /\ ~sysokLed

\* What the C runtime leaves behind satisfies the invariant.
LEMMA PRInvInit == PRInit => PRInv
<1> SUFFICES ASSUME PRInit PROVE PRInv
  OBVIOUS
<1>1. PRTypeOK
  <2>1. railOn \in [Rail -> BOOLEAN] /\ pgood \in [Rail -> BOOLEAN] /\ pin \in [Pin -> BOOLEAN]
    BY DEF PRInit
  <2>2. done \in BOOLEAN /\ powerOn \in BOOLEAN /\ faultLed \in BOOLEAN /\ sysokLed \in BOOLEAN
    BY DEF PRInit
  <2>3. resetIndex \in 1..NResets + 1 /\ step \in 0..NRails /\ glitches \in 0..MaxGlitches
    BY Tables DEF PRInit
  <2>4. mode \in {"run", "ramp", "down", "panic", "hang"}
    BY DEF PRInit
  <2> QED BY <2>1, <2>2, <2>3, <2>4 DEF PRTypeOK
<1>2. RailOrder /\ (\A r \in Rail : ~railOn[r]) /\ (\A p \in Pin : ~pin[p])
  BY DEF PRInit, RailOrder
<1> QED BY <1>1, <1>2 DEF PRInit, PRInv

\* The invariant implies the safety properties.
LEMMA PRInvSafe == PRInv => RailOrder /\ ResetsNeedPower /\ FaultIsSafe
  BY DEF PRInv, RailOrder, ResetsNeedPower, FaultIsSafe

\* Shutting down may begin wherever the CPU is, unless it is hung.
LEMMA BeginShutdownInv ==
  ASSUME PRInv, NEW why \in {"down", "panic"}, BeginShutdown(why), UNCHANGED leds,
         pgood' \in [Rail -> BOOLEAN], done' \in BOOLEAN, glitches' \in 0..MaxGlitches
  PROVE  PRInv'
<1>1. /\ UNCHANGED <<railOn, leds>> /\ ~powerOn' /\ mode' = why /\ step' = NRails
      /\ \A p \in Pin : ~pin'[p]
  BY DEF BeginShutdown, Assert
<1>2. pin' \in [Pin -> BOOLEAN] /\ powerOn' \in BOOLEAN /\ resetIndex' \in 1..NResets + 1
  BY Tables DEF BeginShutdown, Assert
<1>3. PRTypeOK'
  BY <1>1, <1>2, Tables DEF PRInv, PRTypeOK, leds
<1>4. \A r \in Rail : ~(r > step')
  BY <1>1, Tables DEF Rail
<1> QED BY <1>1, <1>3, <1>4 DEF PRInv, RailOrder, leds

\* PowerOn() is called with the power off, when every rail is off.
LEMMA PowerOnInv ==
  ASSUME PRInv, mode = "run", ~powerOn, PowerOn, UNCHANGED <<leds, world>>
  PROVE  PRInv'
  BY Tables DEF PRInv, PRTypeOK, RailOrder, Rail, PowerOn, leds, world

\* A ramp enables the rails one after the other and ends with all of them on.
LEMMA RampInv == ASSUME PRInv, RampEnable \/ RampNext \/ RampDone PROVE PRInv'
<1>1. CASE RampEnable
  BY <1>1, Tables DEF PRInv, PRTypeOK, RailOrder, Rail, RampEnable, leds, world
<1>2. CASE RampNext
  BY <1>2, Tables DEF PRInv, PRTypeOK, RailOrder, Rail, RampNext, RailUp, leds, world
<1>3. CASE RampDone
  <2>1. 1 \in Line /\ 1 \in 1..NResets + 1 BY Tables DEF Line
  <2>2. pin' \in [Pin -> BOOLEAN] BY <1>3, <2>1, Tables DEF PRInv, PRTypeOK, RampDone
  <2>3. \A r \in Rail : railOn[r] BY <1>3, Tables DEF PRInv, Rail, RampDone, RailUp
  <2> QED BY <1>3, <2>1, <2>2, <2>3, Tables
          DEF PRInv, PRTypeOK, RailOrder, Rail, RampDone, RailUp, leds, world
<1> QED BY <1>1, <1>2, <1>3

\* A shutdown goes from the last rail back to the first.
LEMMA ShutdownInv ==
  ASSUME PRInv, RampTimeout \/ ShutRail \/ PowerOffDone \/ OnFault
  PROVE  PRInv'
<1>1. CASE RampTimeout
  <2>1. /\ BeginShutdown("panic") /\ UNCHANGED leds
        /\ pgood' \in [Rail -> BOOLEAN] /\ done' \in BOOLEAN /\ glitches' \in 0..MaxGlitches
    BY <1>1 DEF RampTimeout, PanicShutdown, PRInv, PRTypeOK, leds, world
  <2> QED BY <2>1, BeginShutdownInv
<1>2. CASE ShutRail
  BY <1>2, Tables DEF PRInv, PRTypeOK, RailOrder, Rail, ShutRail, leds, world
<1>3. CASE PowerOffDone
  BY <1>3, Tables DEF PRInv, PRTypeOK, RailOrder, Rail, PowerOffDone, leds, world
<1>4. CASE OnFault
  <2>1. ~powerOn /\ \A r \in Rail : ~railOn[r]
    BY <1>4, Tables DEF PRInv, Rail, OnFault
  <2>2. mode' = "hang" /\ faultLed' = TRUE /\ sysokLed' = FALSE
    BY <1>4 DEF OnFault
  <2>3. UNCHANGED <<railOn, pin, powerOn, resetIndex, step, pgood, done, glitches>>
    BY <1>4 DEF OnFault, world
  <2>4. PRTypeOK'
    BY <2>2, <2>3 DEF PRInv, PRTypeOK
  <2> QED BY <2>1, <2>2, <2>3, <2>4 DEF PRInv, RailOrder
<1> QED BY <1>1, <1>2, <1>3, <1>4

\* Iteration() moves only resets, unless a lost rail makes it shut down.
LEMMA IterationInv ==
  ASSUME PRInv, mode = "run", Iteration, UNCHANGED <<leds, world>>
  PROVE  PRInv'
<1>1. CASE PanicShutdown
  <2>1. /\ BeginShutdown("panic") /\ UNCHANGED leds
        /\ pgood' \in [Rail -> BOOLEAN] /\ done' \in BOOLEAN /\ glitches' \in 0..MaxGlitches
    BY <1>1 DEF PanicShutdown, PRInv, PRTypeOK, leds, world
  <2> QED BY <2>1, BeginShutdownInv
<1>2. CASE UNCHANGED sequencer
  BY <1>2 DEF sequencer, PRInv, PRTypeOK, RailOrder, leds, world
<1>3. CASE /\ powerOn /\ UNCHANGED <<railOn, powerOn, mode, step>>
           /\ resetIndex' \in 1..NResets + 1 /\ pin' \in [Pin -> BOOLEAN]
  BY <1>3 DEF PRInv, PRTypeOK, RailOrder, leds, world
<1>4. ASSUME NEW i \in Line, powerOn, resetIndex' = i,
             pin' = [p \in Pin |-> pin[p] /\ \A j \in Line : PinOf(j) = p => j <= i],
             UNCHANGED <<railOn, powerOn, mode, step>>
      PROVE  PRInv'
  <2>1. resetIndex' \in 1..NResets + 1 BY <1>4, Tables DEF Line
  <2>2. pin' \in [Pin -> BOOLEAN] BY <1>4 DEF PRInv, PRTypeOK
  <2> QED BY <1>3, <1>4, <2>1, <2>2
<1>5. ASSUME powerOn, resetIndex \in Line, resetIndex' = resetIndex + 1,
             pin' = IF resetIndex + 1 \in Line
                    THEN [pin EXCEPT ![PinOf(resetIndex + 1)] = TRUE] ELSE pin,
             UNCHANGED <<railOn, powerOn, mode, step>>
      PROVE  PRInv'
  <2>1. resetIndex' \in 1..NResets + 1 BY <1>5, Tables DEF Line
  <2>2. pin' \in [Pin -> BOOLEAN] BY <1>5, Tables DEF PRInv, PRTypeOK
  <2> QED BY <1>3, <1>5, <2>1, <2>2
<1> QED BY <1>1, <1>2, <1>4, <1>5 DEF Iteration

\* Nothing the hardware, a fault handler or a reset does breaks the invariant.
LEMMA HardwareInv ==
  ASSUME PRInv, Hardware \/ HardFault_Handler \/ Reset
  PROVE  PRInv'
<1>1. CASE Hardware
  <2>1. /\ pgood' \in [Rail -> BOOLEAN] /\ done' \in BOOLEAN /\ glitches' \in 0..MaxGlitches
        /\ UNCHANGED <<sequencer, leds>>
    <3>1. CASE \E r \in Rail : RailSettles(r)
      BY <3>1 DEF RailSettles, PRInv, PRTypeOK
    <3>2. CASE \E r \in Rail : BrownOut(r)
      BY <3>2, Tables DEF BrownOut, Glitch, PRInv, PRTypeOK
    <3>3. CASE FpgaConfigured
      BY <3>3 DEF FpgaConfigured, PRInv, PRTypeOK
    <3>4. CASE FpgaLost
      <4>1. done' = FALSE /\ UNCHANGED <<pgood, sequencer, leds>>
        BY <3>4 DEF FpgaLost
      <4>2. glitches' = glitches \/ Glitch
        BY <3>4 DEF FpgaLost
      <4>3. glitches' \in 0..MaxGlitches
        BY <4>2, Tables DEF Glitch, PRInv, PRTypeOK
      <4> QED BY <4>1, <4>3 DEF PRInv, PRTypeOK
    <3> QED BY <1>1, <3>1, <3>2, <3>3, <3>4 DEF Hardware
  <2> QED BY <2>1 DEF sequencer, leds, PRInv, PRTypeOK, RailOrder
<1>2. CASE HardFault_Handler
  <2>1. /\ BeginShutdown("panic") /\ UNCHANGED leds
        /\ pgood' \in [Rail -> BOOLEAN] /\ done' \in BOOLEAN /\ glitches' \in 0..MaxGlitches
    BY <1>2, Tables
    DEF HardFault_Handler, PanicShutdown, Glitch, PRInv, PRTypeOK
  <2> QED BY <2>1, BeginShutdownInv
<1>3. CASE Reset
  <2>1. glitches' \in 0..MaxGlitches
    BY <1>3, Tables DEF Reset, Glitch, PRInv, PRTypeOK
  <2>2. /\ railOn' \in [Rail -> BOOLEAN] /\ \A r \in Rail : ~railOn'[r]
        /\ pin' \in [Pin -> BOOLEAN] /\ \A p \in Pin : ~pin'[p]
    BY <1>3 DEF Reset, Assert
  <2>3. /\ powerOn' = FALSE /\ resetIndex' = 1 /\ mode' = "run" /\ step' = 0
        /\ faultLed' = FALSE /\ sysokLed' = FALSE /\ UNCHANGED <<pgood, done>>
    BY <1>3 DEF Reset
  <2>4. resetIndex' \in 1..NResets + 1 /\ step' \in 0..NRails
    BY <2>3, Tables
  <2>5. PRTypeOK'
    BY <2>1, <2>2, <2>3, <2>4 DEF PRInv, PRTypeOK
  <2> QED BY <2>2, <2>3, <2>5 DEF PRInv, RailOrder
<1> QED BY <1>1, <1>2, <1>3
=============================================================================
