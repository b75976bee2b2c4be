------------------------------- MODULE RelayMux -------------------------------
(***************************************************************************)
(* The quad-relay-mux firmware: SCPI lines select input A or B of each     *)
(* channel by pulsing a coil of a latching relay, which keeps its position *)
(* when the board is reset.  SetRelay blocks for the 10 ms of the pulse,   *)
(* while lines keep arriving, and a fault may cut the pulse short.         *)
(***************************************************************************)
EXTENDS Integers, Sequences

CONSTANTS
  NChan,      \* channels (4)
  RxLines,    \* lines that fit into the receive buffer of g_scpiUART
  MaxResets   \* bound: how often the board is reset

ASSUME RelayMuxAssumption ==
  NChan \in Nat \ {0} /\ RxLines \in Nat \ {0} /\ MaxResets \in Nat

Chan == 0..NChan - 1
Pos  == {"A", "B"}

\* A parsed line; chan NChan stands for every invalid channel, "X" for every
\* argument that does not begin with A or B and every other command.
Line == [kind : {"command", "query"}, chan : 0..NChan, mux : BOOLEAN, arg : Pos \cup {"X"}]

VARIABLES
  coil,        \* coil[c][p]: output pin of the coil that moves c to p
  relay,       \* position of each relay
  select,      \* m_select
  ledA, ledB,  \* the channel LEDs on the I/O expander
  answer,      \* last answer to a query
  rx,          \* lines received and not yet read
  pc, chan,    \* step of the firmware, channel being switched
  resets

outputs == <<coil, ledA, ledB>>
vars    == <<outputs, relay, select, answer, rx, pc, chan, resets>>

AllOff == [c \in Chan |-> [p \in Pos |-> FALSE]]

Init ==
  /\ coil = AllOff /\ relay \in [Chan -> Pos]
  /\ ledA = [c \in Chan |-> FALSE] /\ ledB = [c \in Chan |-> FALSE]
  /\ select = [c \in Chan |-> "A"] /\ answer = "A"
  /\ rx = << >> /\ pc = "gpio" /\ chan = 0 /\ resets = 0

-----------------------------------------------------------------------------
(* SetRelay(c, p): the pulse begins, and ends 10 ms later, twice the time  *)
(* the relay needs to move.                                                *)

\* Mutants: the pins of the coils swapped; one coil or one channel turned off.
BeginPulseSwapped(c, p) ==
  coil' = [coil EXCEPT ![c][IF p = "A" THEN "B" ELSE "A"] = TRUE] /\ chan' = c
EndPulseOfA == coil' = [coil EXCEPT ![chan]["A"] = FALSE]
EndPulseOfFirst == coil' = [coil EXCEPT ![0] = [p \in Pos |-> FALSE]]

BeginPulse(c, p) == coil' = [coil EXCEPT ![c][p] = TRUE] /\ chan' = c
EndPulse == /\ \A p \in Pos : coil[chan][p] => relay[chan] = p
            /\ coil' = [coil EXCEPT ![chan] = [p \in Pos |-> FALSE]]

-----------------------------------------------------------------------------
(* BSP_Init.                                                               *)

\* InitGPIOs resets the I/O expander and turns every coil off.
InitGPIOs ==
  /\ pc = "gpio" /\ pc' = "i2c"
  /\ coil' = AllOff
  /\ ledA' = [c \in Chan |-> FALSE] /\ ledB' = [c \in Chan |-> FALSE]
  /\ UNCHANGED <<relay, select, answer, rx, chan, resets>>

\* Mutant: InitRelays begins with the second channel.
InitI2CFromOne ==
  /\ pc = "i2c" /\ pc' = "relays" /\ chan' = 1
  /\ ledA' = [c \in Chan |-> TRUE] /\ ledB' = [c \in Chan |-> FALSE]
  /\ UNCHANGED <<coil, relay, select, answer, rx, resets>>

InitI2C ==
  /\ pc = "i2c" /\ pc' = "relays" /\ chan' = 0
  /\ ledA' = [c \in Chan |-> TRUE] /\ ledB' = [c \in Chan |-> FALSE]
  /\ UNCHANGED <<coil, relay, select, answer, rx, resets>>

\* InitRelays moves one relay after the other to A.
InitRelay ==
  /\ pc = "relays" /\ chan < NChan /\ pc' = "initpulse"
  /\ BeginPulse(chan, "A")
  /\ UNCHANGED <<ledA, ledB, relay, select, answer, rx, resets>>

InitRelayDone ==
  /\ pc = "initpulse" /\ pc' = "relays" /\ EndPulse /\ chan' = chan + 1
  /\ UNCHANGED <<ledA, ledB, relay, select, answer, rx, resets>>

\* App_Init constructs the SCPI task, and the task loop begins.
App_Init ==
  /\ pc = "relays" /\ chan = NChan /\ pc' = "idle" /\ chan' = 0
  /\ select' = [c \in Chan |-> "A"]
  /\ UNCHANGED <<outputs, relay, answer, rx, resets>>

-----------------------------------------------------------------------------
(* RelaySCPITask.                                                          *)

TakeLine == pc = "idle" /\ rx # << >> /\ rx' = Tail(rx)
Valid(line) == line.mux /\ line.chan \in Chan

\* Anything but a B selects A.
Selected(line) == IF line.arg = "B" THEN "B" ELSE "A"

OnCommand ==
  /\ TakeLine /\ Head(rx).kind = "command" /\ Valid(Head(rx))
  /\ LET c == Head(rx).chan
         p == Selected(Head(rx))
     IN  select' = [select EXCEPT ![c] = p] /\ BeginPulse(c, p)
  /\ pc' = "pulse"
  /\ UNCHANGED <<ledA, ledB, relay, answer, resets>>

CommandDone ==
  /\ pc = "pulse" /\ pc' = "idle" /\ EndPulse
  /\ ledA' = [ledA EXCEPT ![chan] = (select[chan] = "A")]
  /\ ledB' = [ledB EXCEPT ![chan] = (select[chan] = "B")]
  /\ UNCHANGED <<relay, select, answer, rx, chan, resets>>

OnQuery ==
  /\ TakeLine /\ Head(rx).kind = "query" /\ Head(rx).mux
  /\ answer' = IF Head(rx).chan \in Chan THEN select[Head(rx).chan] ELSE "A"
  /\ UNCHANGED <<outputs, relay, select, pc, chan, resets>>

Ignore ==
  /\ TakeLine /\ (Head(rx).kind = "command" \/ ~Head(rx).mux) /\ ~Valid(Head(rx))
  /\ UNCHANGED <<outputs, relay, select, answer, pc, chan, resets>>

-----------------------------------------------------------------------------
(* The surroundings.                                                       *)

\* Mutant: no check for room.
ReceiveUnchecked(line) ==
  /\ pc # "hang" /\ Len(rx) <= RxLines /\ rx' = Append(rx, line)
  /\ UNCHANGED <<outputs, relay, select, answer, pc, chan, resets>>

\* The receive interrupt; what does not fit is lost.  What a torn line reads
\* like is left open: every line may arrive.
USART1_Handler(line) ==
  /\ pc # "hang" /\ Len(rx) < RxLines
  /\ rx' = Append(rx, line)
  /\ UNCHANGED <<outputs, relay, select, answer, pc, chan, resets>>

RelayMoves(c) ==
  /\ \E p \in Pos : coil[c][p] /\ relay[c] # p /\ relay' = [relay EXCEPT ![c] = p]
  /\ UNCHANGED <<outputs, select, answer, rx, pc, chan, resets>>

\* HardFault_Handler prints and hangs; the pins stay as they are.
HardFault_Handler ==
  /\ pc # "hang" /\ pc' = "hang"
  /\ UNCHANGED <<outputs, relay, select, answer, rx, chan, resets>>

\* Reset(), called by the other fault handlers, or a reset from outside.  The
\* expander keeps driving the LEDs and the relays stay where they are.
Reset ==
  /\ resets < MaxResets /\ resets' = resets + 1
  /\ coil' = AllOff /\ select' = [c \in Chan |-> "A"]
  /\ rx' = << >> /\ pc' = "gpio" /\ chan' = 0
  /\ UNCHANGED <<relay, ledA, ledB, answer>>

Firmware ==
  \/ InitGPIOs \/ InitI2C \/ InitRelay \/ InitRelayDone \/ App_Init
  \/ OnCommand \/ CommandDone \/ OnQuery \/ Ignore

Next ==
  \/ Firmware \/ HardFault_Handler \/ Reset
  \/ \E line \in Line : USART1_Handler(line)
  \/ \E c \in Chan : RelayMoves(c)

\* The firmware runs, and an energised relay moves.
Spec ==
  /\ Init /\ [][Next]_vars
  /\ WF_vars(Firmware) /\ \A c \in Chan : WF_vars(RelayMoves(c))

-----------------------------------------------------------------------------
TypeOK ==
  /\ coil \in [Chan -> [Pos -> BOOLEAN]] /\ relay \in [Chan -> Pos]
  /\ select \in [Chan -> Pos] /\ answer \in Pos
  /\ ledA \in [Chan -> BOOLEAN] /\ ledB \in [Chan -> BOOLEAN]
  /\ rx \in Seq(Line) /\ Len(rx) <= RxLines
  /\ pc \in {"gpio", "i2c", "relays", "initpulse", "idle", "pulse", "hang"}
  /\ chan \in 0..NChan /\ resets \in 0..MaxResets

\* Never is more than one of the coils energised, neither both of a relay nor
\* those of two relays, wherever a pulse is cut short.
OneCoil == \A c, d \in Chan : \A p, q \in Pos :
             coil[c][p] /\ coil[d][q] => c = d /\ p = q

\* Between two lines the relays, m_select (the answer to every query) and the
\* LEDs agree, though a reset leaves the relays in any position.
IdleAgrees ==
  pc = "idle" => \A c \in Chan : /\ relay[c] = select[c]
                                 /\ ledA[c] <=> relay[c] = "A"
                                 /\ ledB[c] <=> relay[c] = "B"

\* A coil is not left energised (it would burn), unless the firmware hangs.
PulseEnds == \A c \in Chan : \A p \in Pos : coil[c][p] ~> ~coil[c][p] \/ pc = "hang"

\* Once it is running the board changes no relay but the one it was told to.
OnlyAsTold ==
  [][\A c \in Chan : relay'[c] # relay[c] /\ pc = "pulse"
       => c = chan /\ relay'[c] = select[c]]_vars
=============================================================================
