----------------------------- MODULE ChristmasTree -----------------------------
(***************************************************************************)
(* The christmas-tree firmware: the LED task with its patterns, the random *)
(* numbers and the bit-banged RGB LEDs; the console; the pattern stored in *)
(* flash; the UART interrupt, faults and resets.  A key stands for the     *)
(* last key of a command line, which runs the command.  Keys are numbered, *)
(* so that each one can be followed from the wire to its command.          *)
(***************************************************************************)
EXTENDS Integers, Sequences, FiniteSetsExt

CONSTANTS
  NLeds, NRgb,      \* red (and green) LEDs, 5; RGB LEDs, 8
  PrbsBits,         \* bits of m_prbs that matter, 15
  FifoSize,         \* receive FIFO of the UART
  MaxKeys,          \* bound: keys pressed
  MaxResets         \* bound: resets by fault or power (the command is counted in keys)

ASSUME ChristmasTreeAssumption ==
  /\ {NLeds, NRgb, FifoSize} \subseteq Nat \ {0} /\ PrbsBits \in Nat \ {0, 1}
  /\ MaxKeys \in Nat /\ MaxResets \in Nat

VARIABLES
  pc,               \* next step of the one loop all code but the interrupt runs in
  m_pattern, m_prbs, m_redPattern, m_greenPattern,
  frame, sent,      \* the colours RefreshRGB was called with, and how many are out
  masked,           \* interrupts are disabled
  lamps, rgb,       \* what the red and green, and the RGB LEDs show
  due,              \* a quarter of a second has passed
  stored,           \* the pattern in the store, or "none"
  rdr, fifo,        \* receive register of the UART, empty or with one key, and FIFO
  keys, resets,
  executed,         \* numbers of the keys whose command has been run (history)
  expected          \* patterns a boot may show, as the user sees it (history)

task   == <<m_pattern, m_prbs, m_redPattern, m_greenPattern>>
leds   == <<frame, sent, masked, lamps, rgb>>
input  == <<rdr, fifo, keys, executed>>
vars   == <<pc, task, leds, due, stored, input, resets, expected>>

Patterns == {"random", "red", "green", "redgreen"}
Commands == {"commit", "reload", "zeroize"} \cup Patterns
\* ReadObject: what the store holds, random by default.
ReadObject == IF stored = "none" THEN "random" ELSE stored
Off      == [i \in 1..NRgb |-> "off"]
Dark     == [red |-> [i \in 1..NLeds |-> 0], green |-> [i \in 1..NLeds |-> 0]]

Init ==
  /\ pc = "BSP_Init" /\ m_pattern = "random" /\ m_prbs = 1
  /\ m_redPattern = Dark.red /\ m_greenPattern = Dark.green
  /\ frame = Off /\ sent = NRgb /\ masked = FALSE /\ lamps = Dark /\ rgb = Off
  /\ due = FALSE /\ stored \in Patterns \cup {"none"} /\ rdr = <<>> /\ fifo = <<>>
  /\ keys = 0 /\ executed = {} /\ resets = 0 /\ expected = {ReadObject}

-----------------------------------------------------------------------------
(* Random numbers: a shift register whose two top bits are fed back.  The  *)
(* operands of | are evaluated in any order, so which bit goes where is up *)
(* to the compiler: here, the one drawn first comes first.                 *)

Top(s, k)  == (s \div 2^(PrbsBits - k)) % 2
Step(s, b) == (2 * s + b) % 2^PrbsBits
\* Mutant: both taps are the top bit.
EqualTaps(s) == (Top(s, 1) + Top(s, 1)) % 2
\* The new bit is the exclusive or.
RandomBit(s) == (Top(s, 1) + Top(s, 2)) % 2

Draws == 2 * NLeds + 3 * NRgb
\* What a draw makes of m_prbs, and what n draws make of it.
Draw    == [s \in 0..2^PrbsBits - 1 |-> Step(s, RandomBit(s))]
Prbs(s) == LET after[n \in 0..Draws] == IF n = 0 THEN s ELSE Draw[after[n - 1]] IN after
Bit(p, n) == RandomBit(p[n - 1])

RandomColor(p, i) ==
  LET k == 2 * NLeds + 3 * (i - 1)
  IN  <<"200000", "201000", "202000", "002000", "002020", "200020", "100020", "202020">>
        [1 + 4 * Bit(p, k + 1) + 2 * Bit(p, k + 2) + Bit(p, k + 3)]

-----------------------------------------------------------------------------
(* Boot: BSP_Init, then the constructor of the LED task.                   *)

\* Mutants: the interrupts are not masked, and never unmasked.
MaskNothing  == masked' = FALSE
LeavesMasked == UNCHANGED masked
\* RefreshRGB masks the interrupts, sends the colours, and unmasks them.
DisableInterrupts == masked' = TRUE
EnableInterrupts  == masked' = FALSE
\* RefreshRedGreen: the GPIOs follow the two bytes.
RefreshRedGreen(red, green) == lamps' = [red |-> red, green |-> green]

\* UART, log and store are set up, and interrupts enabled; then RefreshRGB is
\* called with all LEDs off.
BSP_Init ==
  /\ pc = "BSP_Init" /\ pc' = "sendOff"
  /\ frame' = Off /\ sent' = 0 /\ DisableInterrupts
  /\ UNCHANGED <<task, lamps, rgb, due, stored, input, resets, expected>>

\* The pattern comes from the store; the console shows its prompt.
LoadPattern ==
  /\ pc = "sendOff" /\ sent = NRgb
  /\ pc' = "led" /\ EnableInterrupts /\ RefreshRedGreen(m_redPattern, m_greenPattern)
  /\ m_pattern' = ReadObject
  /\ expected' = expected \cap {m_pattern'}
  /\ UNCHANGED <<m_prbs, m_redPattern, m_greenPattern, frame, sent, rgb, due, stored, input, resets>>

-----------------------------------------------------------------------------
(* The LED task.                                                           *)

All(b) == [i \in 1..NLeds |-> b]

OnTimer_ModeRandom(p) ==
  /\ m_redPattern'   = [i \in 1..NLeds |-> Bit(p, i)]
  /\ m_greenPattern' = [i \in 1..NLeds |-> Bit(p, NLeds + i)]
  /\ frame' = [i \in 1..NRgb |-> RandomColor(p, i)] /\ m_prbs' = p[Draws]

OnTimer_ModeRed ==
  /\ m_redPattern' = All(1) /\ m_greenPattern' = All(0) /\ UNCHANGED m_prbs
  /\ frame' = [i \in 1..NRgb |-> "1f0000"]

OnTimer_ModeGreen ==
  /\ m_redPattern' = All(0) /\ m_greenPattern' = All(1) /\ UNCHANGED m_prbs
  /\ frame' = [i \in 1..NRgb |-> "001f00"]

OnTimer_ModeRedGreen ==
  /\ m_redPattern' = All(1) /\ m_greenPattern' = All(1) /\ UNCHANGED m_prbs
  /\ frame' = [i \in 1..NRgb |-> IF i % 2 = 1 THEN "1f0000" ELSE "001f00"]

\* The interrupts are masked as the first RGB bit is about to be sent.
OnTimer ==
  /\ pc = "led" /\ due /\ due' = FALSE /\ pc' = "sendRGB"
  /\ \/ m_pattern = "red" /\ OnTimer_ModeRed
     \/ m_pattern = "green" /\ OnTimer_ModeGreen
     \/ m_pattern = "redgreen" /\ OnTimer_ModeRedGreen
     \/ m_pattern = "random" /\ OnTimer_ModeRandom(Prbs(m_prbs))
  /\ RefreshRedGreen(m_redPattern', m_greenPattern')
  /\ sent' = 0 /\ DisableInterrupts
  /\ UNCHANGED <<m_pattern, rgb, stored, input, resets, expected>>

NotDue == pc = "led" /\ ~due /\ pc' = "console"
          /\ UNCHANGED <<task, leds, due, stored, input, resets, expected>>

\* SendBitbangRGB: the 24 bits of one LED, timed by instructions.
SendBitbangRGB ==
  /\ pc \in {"sendOff", "sendRGB"} /\ sent < NRgb
  /\ sent' = sent + 1 /\ rgb' = [rgb EXCEPT ![sent + 1] = frame[sent + 1]]
  /\ UNCHANGED <<pc, task, frame, masked, lamps, due, stored, input, resets, expected>>

FrameSent ==
  /\ pc = "sendRGB" /\ sent = NRgb /\ EnableInterrupts /\ pc' = "console"
  /\ UNCHANGED <<task, frame, sent, lamps, rgb, due, stored, input, resets, expected>>

-----------------------------------------------------------------------------
(* The UART and its interrupt.                                             *)

\* A key that arrives while the last is still in the register is lost.
KeyPressed(k) ==
  /\ pc \notin {"BSP_Init", "hung"} /\ keys < MaxKeys /\ keys' = keys + 1
  /\ rdr' = IF rdr = <<>> THEN <<[command |-> k, number |-> keys']>> ELSE rdr
  /\ UNCHANGED <<pc, task, leds, due, stored, fifo, executed, resets, expected>>

\* OnIRQRxData moves the key to the FIFO, unless it is full.  An interrupt in
\* the middle of an LED would stretch a bit: it would show anything.
USART2_Handler ==
  /\ pc \notin {"BSP_Init", "hung"} /\ ~masked /\ rdr # <<>> /\ rdr' = <<>>
  /\ fifo' = IF Len(fifo) < FifoSize THEN Append(fifo, Head(rdr)) ELSE fifo
  /\ rgb' = [i \in 1..NRgb |-> IF i = sent + 1 THEN "garbled" ELSE rgb[i]]
  /\ sent' = IF sent < NRgb THEN sent + 1 ELSE sent
  /\ UNCHANGED <<pc, task, frame, masked, lamps, due, stored, keys, executed, resets, expected>>

-----------------------------------------------------------------------------
(* The console task: OnExecute runs the command of the key.                *)

\* Mutant: the default is taken for what need not be stored.
OnCommitSkipsDefault == IF m_pattern = "random" THEN stored ELSE m_pattern
\* What the store holds afterwards: StoreObjectIfNecessary leaves it as it is
\* when it reads as the pattern already.
OnCommit == IF m_pattern = ReadObject THEN stored ELSE m_pattern

Iteration ==
  /\ pc = "console" /\ fifo # <<>> /\ executed' = executed \cup {Head(fifo).number}
  /\ UNCHANGED keys

NoInput == pc = "console" /\ fifo = <<>> /\ pc' = "led"
           /\ UNCHANGED <<task, leds, due, stored, input, resets, expected>>

OnPattern ==
  /\ Iteration /\ fifo' = Tail(fifo) /\ UNCHANGED rdr
  /\ Head(fifo).command \in Patterns /\ m_pattern' = Head(fifo).command /\ pc' = "led"
  /\ UNCHANGED <<m_prbs, m_redPattern, m_greenPattern, leds, due, stored, resets, expected>>

\* Until the write is complete a boot may show the old pattern or the new.
Store(key, next, p) ==
  /\ Iteration /\ fifo' = Tail(fifo) /\ UNCHANGED rdr
  /\ Head(fifo).command = key /\ pc' = next /\ expected' = expected \cup {p}
  /\ UNCHANGED <<task, leds, due, stored, resets>>
Written(step, value, p) ==
  /\ pc = step /\ pc' = "led" /\ stored' = value /\ expected' = {p}
  /\ UNCHANGED <<task, leds, due, input, resets>>

\* All but the RGB LEDs, which hold their colours, and the store start anew.
Restart ==
  /\ pc' = "BSP_Init" /\ m_pattern' = "random" /\ m_prbs' = 1
  /\ m_redPattern' = Dark.red /\ m_greenPattern' = Dark.green
  /\ frame' = Off /\ sent' = NRgb /\ masked' = FALSE /\ lamps' = Dark /\ due' = FALSE
  /\ rdr' = <<>> /\ fifo' = <<>> /\ UNCHANGED <<rgb, keys, expected>>

OnExecute ==
  \/ OnPattern
  \/ Store("commit", "committing", m_pattern) \/ Written("committing", OnCommit, m_pattern)
  \/ Store("zeroize", "wiping", "random") \/ Written("wiping", "none", "random")
  \/ /\ Iteration /\ Head(fifo).command = "reload" /\ Restart
     /\ UNCHANGED <<stored, resets>>

-----------------------------------------------------------------------------
(* Faults.  Every vector without a handler of its own restarts the MCU, as *)
(* power does, at any point.  A hard fault prints the registers and stops. *)

\* A write that is cut short is complete or has not begun.
CutShort ==
  \/ stored' = stored
  \/ pc = "committing" /\ stored' = OnCommit
  \/ pc = "wiping" /\ stored' = "none"

defaultISR ==
  /\ resets < MaxResets /\ resets' = resets + 1 /\ Restart /\ CutShort
  /\ UNCHANGED executed

HardFault_Handler ==
  /\ pc # "hung" /\ resets < MaxResets /\ resets' = resets + 1 /\ pc' = "hung"
  /\ masked' = TRUE /\ CutShort
  /\ UNCHANGED <<task, frame, sent, lamps, rgb, due, input, expected>>

Timer == ~due /\ due' = TRUE
         /\ UNCHANGED <<pc, task, leds, stored, input, resets, expected>>

-----------------------------------------------------------------------------
Led     == OnTimer \/ NotDue \/ SendBitbangRGB \/ FrameSent
Console == NoInput \/ OnExecute
Main    == BSP_Init \/ LoadPattern \/ Led \/ Console

Next ==
  \/ Main \/ USART2_Handler \/ Timer
  \/ \E k \in Commands: KeyPressed(k)
  \/ defaultISR \/ HardFault_Handler

\* The processor runs, a pending interrupt is taken as soon as it is not masked
\* (strong fairness: it stays pending while it is), and the timer counts.
Spec == Init /\ [][Next]_vars /\ WF_vars(Main) /\ SF_vars(USART2_Handler) /\ WF_vars(Timer)

-----------------------------------------------------------------------------
\* Between two refreshes the LEDs show the last frame whole: neither keys nor
\* commands leave a part of it out, and red and green LEDs are of the same one.
WholeFrames ==
  pc \in {"led", "console", "committing", "wiping"} =>
    rgb = frame /\ lamps = [red |-> m_redPattern, green |-> m_greenPattern]

\* A boot shows the pattern committed last (random, after a wipe), and after
\* an interrupted commit or wipe the one before or the new one.
BootShowsCommitted == [][pc = "sendOff" /\ pc' = "led" => m_pattern' \in expected]_vars

\* The random pattern never freezes: the shift register never gets stuck.
RandomMoves ==
  <>[](m_pattern = "random" /\ pc # "hung") => []<><<lamps' # lamps \/ rgb' # rgb>>_vars

\* The key has been received, or is in the register and will find room.
Waiting(n) ==
  \/ \E i \in 1..Len(fifo) : fifo[i].number = n
  \/ rdr # <<>> /\ Head(rdr).number = n /\ Len(fifo) < FifoSize

\* However long the LEDs keep the interrupts masked and whatever the console
\* is doing, the command of a waiting key is run in the end, unless a fault or
\* a reset, also by an earlier key, comes first.
KeysAreExecuted ==
  \A n \in 1..MaxKeys : Waiting(n) ~> n \in executed \/ pc \in {"BSP_Init", "hung"}
=============================================================================
