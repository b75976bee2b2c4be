---------------------------- MODULE RelayMuxProofs ----------------------------
(***************************************************************************)
(* Proofs about the relay multiplexer, for any number of channels, buffer  *)
(* size and number of resets: never two coils, and agreement when idle.    *)
(***************************************************************************)
EXTENDS RelayMux, TLAPS

\* The one coil that is energised in a pulse; none is outside of one.  Where a
\* fault has hung the firmware in a pulse, OneCoil is all that is left.
CoilInv ==
  /\ pc \notin {"initpulse", "pulse", "hang"} => \A c \in Chan : \A p \in Pos : ~coil[c][p]
  /\ pc = "initpulse" => chan \in Chan /\ \A c \in Chan : \A p \in Pos : coil[c][p] <=> c = chan /\ p = "A"
  /\ pc = "pulse" => /\ chan \in Chan
                     /\ \A c \in Chan : \A p \in Pos : coil[c][p] <=> c = chan /\ p = select[chan]

\* Channel c's relay, answer and LEDs agree.
Agrees(c) ==
  relay[c] = select[c] /\ (ledA[c] <=> select[c] = "A") /\ (ledB[c] <=> select[c] = "B")

\* What has been brought in line: while the relays are initialised those before
\* chan, and in a pulse all but the one it switches.
AgreeInv ==
  /\ pc \in {"relays", "initpulse"} => \A c \in Chan : /\ ledA[c] /\ ~ledB[c]
                                                       /\ c < chan => relay[c] = "A"
  /\ pc = "pulse" => \A c \in Chan : c # chan => Agrees(c)
  /\ pc = "idle" => \A c \in Chan : Agrees(c)

IInv == TypeOK /\ OneCoil /\ CoilInv /\ AgreeInv

-----------------------------------------------------------------------------
\* The state with all coils off.
LEMMA AllOffType ==
  /\ AllOff \in [Chan -> [Pos -> BOOLEAN]]
  /\ \A c \in Chan : \A p \in Pos : ~AllOff[c][p]
BY DEF AllOff

\* The channels are the numbers below NChan.
LEMMA Channels == /\ NChan \in Nat \ {0} /\ Chan \subseteq 0..NChan /\ 0 \in 0..NChan
                  /\ \A c \in 0..NChan : c # NChan => c \in Chan /\ c + 1 \in 0..NChan
BY RelayMuxAssumption DEF Chan

\* The first line is taken out of the buffer.
LEMMA TakeLineType ==
  ASSUME TypeOK, TakeLine
  PROVE  rx' \in Seq(Line) /\ Len(rx') <= RxLines /\ Selected(Head(rx)) \in Pos
<1>1. rx \in Seq(Line) /\ rx # << >> /\ Len(rx) <= RxLines BY DEF TypeOK, TakeLine
<1>2. Tail(rx) \in Seq(Line) /\ Len(Tail(rx)) = Len(rx) - 1 /\ Len(rx) \in Nat BY <1>1
<1> QED BY <1>1, <1>2, RelayMuxAssumption DEF TakeLine, Selected, Pos

\* A pulse energises one coil of one channel, if all were off.
LEMMA PulseBegins ==
  ASSUME TypeOK, NEW c \in Chan, NEW p \in Pos, BeginPulse(c, p),
         \A d \in Chan : \A q \in Pos : ~coil[d][q]
  PROVE  /\ coil' \in [Chan -> [Pos -> BOOLEAN]] /\ chan' = c
         /\ \A d \in Chan : \A q \in Pos : coil'[d][q] <=> d = c /\ q = p
BY DEF TypeOK, BeginPulse

\* Its end turns off the coil of its channel, whose relay has moved by then.
LEMMA PulseIsOver ==
  ASSUME TypeOK, NEW c \in Chan, c = chan, NEW p \in Pos, EndPulse,
         \A d \in Chan : \A q \in Pos : coil[d][q] <=> d = c /\ q = p
  PROVE  /\ coil' \in [Chan -> [Pos -> BOOLEAN]] /\ relay[c] = p
         /\ \A d \in Chan : \A q \in Pos : ~coil'[d][q]
BY DEF TypeOK, EndPulse

-----------------------------------------------------------------------------
\* The set-up of the board.
LEMMA InitInv ==
  ASSUME IInv, InitGPIOs \/ InitI2C \/ InitRelay \/ InitRelayDone \/ App_Init PROVE IInv'
<1> USE DEF IInv
<1>1. CASE InitGPIOs
  <2>1. coil' = AllOff /\ pc' = "i2c" BY <1>1 DEF InitGPIOs
  <2>2. TypeOK' BY <1>1, AllOffType DEF InitGPIOs, TypeOK
  <2> QED BY <2>1, <2>2, AllOffType DEF OneCoil, CoilInv, AgreeInv
<1>2. CASE InitI2C
  <2>1. TypeOK' BY <1>2, Channels DEF InitI2C, TypeOK
  <2>2. AgreeInv'
    <3>1. \A c \in Chan : ~(c < 0) BY RelayMuxAssumption DEF Chan
    <3> QED BY <1>2, <3>1 DEF InitI2C, AgreeInv
  <2> QED BY <1>2, <2>1, <2>2 DEF InitI2C, OneCoil, CoilInv
<1>3. CASE InitRelay
  <2>1. chan \in Chan /\ "A" \in Pos
    BY <1>3, Channels DEF InitRelay, TypeOK, Pos
  <2>2. \A d \in Chan : \A q \in Pos : ~coil[d][q] BY <1>3 DEF InitRelay, CoilInv
  <2>3. /\ coil' \in [Chan -> [Pos -> BOOLEAN]] /\ chan' = chan
        /\ \A d \in Chan : \A q \in Pos : coil'[d][q] <=> d = chan /\ q = "A"
    BY <1>3, <2>1, <2>2, PulseBegins DEF InitRelay
  <2>4. TypeOK' BY <1>3, <2>3 DEF InitRelay, TypeOK
  <2> QED BY <1>3, <2>1, <2>3, <2>4 DEF InitRelay, OneCoil, CoilInv, AgreeInv
<1>4. CASE InitRelayDone
  <2>1. chan \in Chan /\ "A" \in Pos BY <1>4 DEF InitRelayDone, CoilInv, Pos
  <2>2. /\ coil' \in [Chan -> [Pos -> BOOLEAN]] /\ relay[chan] = "A"
        /\ \A d \in Chan : \A q \in Pos : ~coil'[d][q]
    BY <1>4, <2>1, PulseIsOver DEF InitRelayDone, CoilInv
  <2>3. chan + 1 \in 0..NChan BY <2>1, RelayMuxAssumption DEF Chan
  <2>4. TypeOK' BY <1>4, <2>2, <2>3 DEF InitRelayDone, TypeOK
  <2>5. AgreeInv'
    <3>1. \A c \in Chan : c < chan + 1 => c < chan \/ c = chan
      BY <2>1, RelayMuxAssumption DEF Chan
    <3> QED BY <1>4, <2>2, <3>1 DEF InitRelayDone, AgreeInv
  <2> QED BY <1>4, <2>2, <2>4, <2>5 DEF InitRelayDone, OneCoil, CoilInv
<1>5. CASE App_Init
  <2>1. TypeOK' BY <1>5, Channels DEF App_Init, TypeOK, Pos, outputs
  <2>2. AgreeInv'
    <3>1. \A c \in Chan : c < NChan BY RelayMuxAssumption DEF Chan
    <3>2. \A c \in Chan : relay[c] = "A" /\ ledA[c] /\ ~ledB[c]
      BY <1>5, <3>1 DEF App_Init, AgreeInv
    <3> QED BY <1>5, <3>2 DEF App_Init, AgreeInv, Agrees, outputs
  <2> QED BY <1>5, <2>1, <2>2 DEF App_Init, OneCoil, CoilInv, outputs
<1> QED BY <1>1, <1>2, <1>3, <1>4, <1>5

\* A command, a query and what is neither.
LEMMA CommandInv ==
  ASSUME IInv, OnCommand \/ CommandDone \/ OnQuery \/ Ignore PROVE IInv'
<1> USE DEF IInv
<1>1. CASE OnCommand
  <2> DEFINE c == Head(rx).chan
             p == Selected(Head(rx))
  <2>1. /\ c \in Chan /\ p \in Pos /\ rx' \in Seq(Line) /\ Len(rx') <= RxLines
    BY <1>1, TakeLineType DEF OnCommand, Valid
  <2>2. /\ select' = [select EXCEPT ![c] = p] /\ BeginPulse(c, p) /\ pc = "idle" /\ pc' = "pulse"
        /\ UNCHANGED <<ledA, ledB, relay, answer, resets>>
    BY <1>1 DEF OnCommand, TakeLine
  <2> HIDE DEF c, p
  <2>3. /\ coil' \in [Chan -> [Pos -> BOOLEAN]] /\ chan' = c
        /\ \A d \in Chan : \A q \in Pos : coil'[d][q] <=> d = c /\ q = p
    BY <2>1, <2>2, PulseBegins DEF CoilInv
  <2>4. select'[c] = p /\ \A d \in Chan : d # c => select'[d] = select[d]
    BY <2>1, <2>2 DEF TypeOK
  <2>5. TypeOK' BY <2>1, <2>2, <2>3, Channels DEF TypeOK
  <2>6. CoilInv' BY <2>1, <2>2, <2>3, <2>4 DEF CoilInv
  <2>7. AgreeInv' BY <2>1, <2>2, <2>3, <2>4 DEF AgreeInv, Agrees
  <2> QED BY <2>3, <2>5, <2>6, <2>7 DEF OneCoil
<1>2. CASE CommandDone
  <2>1. chan \in Chan /\ select[chan] \in Pos BY <1>2 DEF CommandDone, CoilInv, TypeOK
  <2>2. /\ coil' \in [Chan -> [Pos -> BOOLEAN]] /\ relay[chan] = select[chan]
        /\ \A d \in Chan : \A q \in Pos : ~coil'[d][q]
    BY <1>2, <2>1, PulseIsOver DEF CommandDone, CoilInv
  <2>3. TypeOK' BY <1>2, <2>2 DEF CommandDone, TypeOK
  <2>4. AgreeInv'
    BY <1>2, <2>1, <2>2 DEF CommandDone, AgreeInv, Agrees, TypeOK
  <2> QED BY <1>2, <2>2, <2>3, <2>4 DEF CommandDone, OneCoil, CoilInv
<1>3. CASE OnQuery
  <2>1. answer' \in Pos BY <1>3 DEF OnQuery, TypeOK, Pos
  <2>2. TypeOK' BY <1>3, <2>1, TakeLineType DEF OnQuery, TypeOK, outputs
  <2> QED BY <1>3, <2>2 DEF OnQuery, OneCoil, CoilInv, AgreeInv, Agrees, outputs
<1>4. CASE Ignore
  <2>1. TypeOK' BY <1>4, TakeLineType DEF Ignore, TypeOK, outputs
  <2> QED BY <1>4, <2>1 DEF Ignore, OneCoil, CoilInv, AgreeInv, Agrees, outputs
<1> QED BY <1>1, <1>2, <1>3, <1>4

\* Interrupts, faults, resets, and relays that move.
LEMMA WorldInv ==
  ASSUME IInv,
         \/ HardFault_Handler \/ Reset
         \/ \E line \in Line : USART1_Handler(line)
         \/ \E c \in Chan : RelayMoves(c)
  PROVE  IInv'
<1> USE DEF IInv
<1>1. CASE HardFault_Handler
  BY <1>1 DEF HardFault_Handler, TypeOK, OneCoil, CoilInv, AgreeInv, outputs
<1>2. CASE Reset
  <2>1. resets' \in 0..MaxResets BY <1>2, RelayMuxAssumption DEF Reset, TypeOK
  <2>2. << >> \in Seq(Line) /\ Len(<< >>) <= RxLines BY RelayMuxAssumption
  <2>3. TypeOK' BY <1>2, <2>1, <2>2, AllOffType, Channels DEF Reset, TypeOK, Pos
  <2> QED BY <1>2, <2>3, AllOffType DEF Reset, OneCoil, CoilInv, AgreeInv
<1>3. ASSUME NEW line \in Line, USART1_Handler(line) PROVE IInv'
  <2>1. rx' \in Seq(Line) /\ Len(rx') <= RxLines
    <3>1. Append(rx, line) \in Seq(Line) /\ Len(Append(rx, line)) = Len(rx) + 1 /\ Len(rx) \in Nat
      BY DEF TypeOK
    <3> QED BY <1>3, <3>1, RelayMuxAssumption DEF USART1_Handler
  <2>2. TypeOK' BY <1>3, <2>1 DEF USART1_Handler, TypeOK, outputs
  <2> QED BY <1>3, <2>2 DEF USART1_Handler, OneCoil, CoilInv, AgreeInv, Agrees, outputs
<1>4. ASSUME NEW c \in Chan, RelayMoves(c) PROVE IInv'
  <2>1. PICK p \in Pos : coil[c][p] /\ relay[c] # p /\ relay' = [relay EXCEPT ![c] = p]
    BY <1>4 DEF RelayMoves
  <2>2. UNCHANGED <<outputs, select, answer, rx, pc, chan, resets>> BY <1>4 DEF RelayMoves
  <2>3. TypeOK' BY <2>1, <2>2 DEF TypeOK, outputs
  <2>4. pc \in {"initpulse", "pulse", "hang"} /\ (pc \in {"initpulse", "pulse"} => c = chan)
    BY <2>1 DEF CoilInv, TypeOK
  <2>5. \A d \in Chan : d # c => relay'[d] = relay[d] BY <2>1 DEF TypeOK
  <2>6. pc = "initpulse" => \A d \in Chan : d < chan => d # c
    BY <2>4, RelayMuxAssumption DEF CoilInv, Chan
  <2>7. AgreeInv' BY <2>2, <2>4, <2>5, <2>6 DEF AgreeInv, Agrees, outputs
  <2> QED BY <2>2, <2>3, <2>7 DEF OneCoil, CoilInv, outputs
<1> QED BY <1>1, <1>2, <1>3, <1>4

-----------------------------------------------------------------------------
\* The invariant holds at power-up, with the relays anywhere, and is kept.
THEOREM Inductive == Spec => []IInv
<1>1. Init => IInv
  <2> SUFFICES ASSUME Init PROVE IInv OBVIOUS
  <2>1. << >> \in Seq(Line) /\ Len(<< >>) <= RxLines /\ 0 \in 0..MaxResets BY RelayMuxAssumption
  <2>2. TypeOK BY <2>1, AllOffType, Channels DEF Init, TypeOK, Pos
  <2> QED BY <2>2, AllOffType DEF Init, IInv, OneCoil, CoilInv, AgreeInv
<1>2. IInv /\ [Next]_vars => IInv'
  <2>1. ASSUME IInv, Next PROVE IInv'
    BY <2>1, InitInv, CommandInv, WorldInv DEF Next, Firmware
  <2>2. ASSUME IInv, UNCHANGED vars PROVE IInv'
    BY <2>2 DEF vars, outputs, IInv, TypeOK, OneCoil, CoilInv, AgreeInv, Agrees
  <2> QED BY <2>1, <2>2
<1> QED BY <1>1, <1>2, PTL DEF Spec

\* The types hold; the receive buffer never holds more lines than fit.
THEOREM TypeCorrect == Spec => []TypeOK
<1>1. IInv => TypeOK BY DEF IInv
<1> QED BY <1>1, Inductive, PTL

\* Never two coils, whatever commands arrive during a pulse and wherever a
\* fault or a reset cuts it short.
THEOREM NeverTwoCoils == Spec => []OneCoil
<1>1. IInv => OneCoil BY DEF IInv
<1> QED BY <1>1, Inductive, PTL

\* Whenever the next line can be taken, relays, answers and LEDs agree.
THEOREM Agreement == Spec => []IdleAgrees
<1>1. IInv => IdleAgrees
  BY DEF IInv, AgreeInv, Agrees, IdleAgrees
<1> QED BY <1>1, Inductive, PTL

\* While a command's pulse lasts only its relay moves, and to what the command
\* selected, whatever else is received meanwhile and whichever relays a reset
\* has left in another position.
THEOREM MovesAsTold == Spec => OnlyAsTold
<1> DEFINE Told == \A c \in Chan : relay'[c] # relay[c] /\ pc = "pulse"
                                  => c = chan /\ relay'[c] = select[c]
<1>1. IInv /\ [Next]_vars => [Told]_vars
  <2> SUFFICES ASSUME IInv, [Next]_vars PROVE Told OBVIOUS
  <2>1. CASE UNCHANGED relay BY <2>1
  <2>2. ASSUME NEW c \in Chan, RelayMoves(c) PROVE Told
    <3>1. PICK p \in Pos : coil[c][p] /\ relay' = [relay EXCEPT ![c] = p]
      BY <2>2 DEF RelayMoves
    <3>2. relay \in [Chan -> Pos] BY DEF IInv, TypeOK
    <3>3. pc = "pulse" => c = chan /\ p = select[c] BY <3>1 DEF IInv, CoilInv
    <3> QED BY <3>1, <3>2, <3>3
  <2>3. ASSUME NEW line \in Line, USART1_Handler(line) PROVE UNCHANGED relay
    BY <2>3 DEF USART1_Handler
  <2>4. ASSUME Firmware \/ HardFault_Handler \/ Reset \/ UNCHANGED vars PROVE UNCHANGED relay
    BY <2>4 DEF Firmware, InitGPIOs, InitI2C, InitRelay, InitRelayDone, App_Init, OnCommand,
                CommandDone, OnQuery, Ignore, HardFault_Handler, Reset, vars
  <2> QED BY <2>1, <2>2, <2>3, <2>4 DEF Next
<1> QED BY <1>1, Inductive, PTL DEF Spec, OnlyAsTold
=============================================================================
