-------------------------- MODULE ChristmasTreeProofs --------------------------
(***************************************************************************)
(* Proofs about the christmas tree, for any number of LEDs, any register   *)
(* width, FIFO, number of keys and resets: whole frames, a boot that shows *)
(* what was committed, and no key lost between wire and command.           *)
(***************************************************************************)
EXTENDS ChristmasTree, SequenceTheorems, TLAPS

\* Frames and RGB LEDs have one colour per LED.
Shape ==
  /\ frame = [i \in 1..NRgb |-> frame[i]] /\ rgb = [i \in 1..NRgb |-> rgb[i]]
  /\ sent \in 0..NRgb

Shown == pc \in {"led", "console", "committing", "wiping"}
LampsInv == lamps = [red |-> m_redPattern, green |-> m_greenPattern]

\* While a frame is being sent the interrupts are masked and what is out is
\* right; outside of that, all of it is.
FrameInv ==
  /\ pc \in {"sendOff", "sendRGB"} => masked = TRUE /\ \A i \in 1..sent : rgb[i] = frame[i]
  /\ pc = "sendRGB" => LampsInv
  /\ Shown => sent = NRgb /\ rgb = frame /\ LampsInv
  /\ pc \in {"BSP_Init", "sendOff", "sendRGB", "hung"} \/ Shown

\* The store always holds something that a boot may show, before, during and
\* after a write.
StoreInv ==
  /\ m_pattern \in Patterns /\ stored \in Patterns \cup {"none"} /\ ReadObject \in expected
  /\ pc = "committing" => m_pattern \in expected
  /\ pc = "wiping" => "random" \in expected

IInv == Shape /\ FrameInv /\ StoreInv

-----------------------------------------------------------------------------
\* A frame with all LEDs off.
LEMMA OffShape == Off = [i \in 1..NRgb |-> Off[i]] /\ 0 \in 0..NRgb /\ NRgb \in 0..NRgb /\ 1..0 = {}
BY ChristmasTreeAssumption DEF Off

\* Every pattern makes a frame of the right shape.
LEMMA FrameShape ==
  ASSUME \/ OnTimer_ModeRed \/ OnTimer_ModeGreen \/ OnTimer_ModeRedGreen
         \/ \E p : OnTimer_ModeRandom(p)
  PROVE  frame' = [i \in 1..NRgb |-> frame'[i]]
BY DEF OnTimer_ModeRed, OnTimer_ModeGreen, OnTimer_ModeRedGreen, OnTimer_ModeRandom

\* What is in the store does not depend on anything else.
LEMMA SameStore == ASSUME stored' = stored PROVE ReadObject' = ReadObject
BY DEF ReadObject

\* Steps that touch neither the LEDs nor the colours.
LEMMA FramesStay ==
  ASSUME IInv, UNCHANGED <<frame, sent, rgb, masked, lamps, m_redPattern, m_greenPattern>>,
         pc' = pc \/ (Shown /\ Shown')
  PROVE  Shape' /\ FrameInv'
<1>1. Shape' BY DEF IInv, Shape
<1>2. FrameInv' BY DEF IInv, FrameInv, Shown, LampsInv
<1> QED BY <1>1, <1>2

-----------------------------------------------------------------------------
\* Boot, and every restart.
LEMMA RestartInv == ASSUME Shape, Restart PROVE Shape' /\ FrameInv'
BY OffShape DEF Restart, Shape, FrameInv, Shown

LEMMA BootInv == ASSUME IInv, BSP_Init \/ LoadPattern PROVE IInv'
<1> USE DEF IInv
<1>1. CASE BSP_Init
  <2>1. Shape' BY <1>1, OffShape DEF BSP_Init, Shape
  <2>2. FrameInv' BY <1>1, OffShape DEF BSP_Init, DisableInterrupts, FrameInv, Shown
  <2>3. StoreInv' BY <1>1, SameStore DEF BSP_Init, task, StoreInv
  <2> QED BY <2>1, <2>2, <2>3
<1>2. CASE LoadPattern
  <2>1. Shape' BY <1>2 DEF LoadPattern, Shape
  <2>2. rgb = frame BY <1>2 DEF LoadPattern, Shape, FrameInv
  <2>3. FrameInv'
    BY <1>2, <2>2 DEF LoadPattern, RefreshRedGreen, FrameInv, Shown, LampsInv
  <2>4. ReadObject \in Patterns BY DEF ReadObject, StoreInv, Patterns
  <2>5. StoreInv' BY <1>2, <2>4, SameStore DEF LoadPattern, StoreInv
  <2> QED BY <2>1, <2>3, <2>5
<1> QED BY <1>1, <1>2

\* The LED task.
LEMMA LedInv == ASSUME IInv, Led PROVE IInv'
<1> USE DEF IInv
<1>1. CASE OnTimer
  <2>1. frame' = [i \in 1..NRgb |-> frame'[i]] BY <1>1, FrameShape DEF OnTimer
  <2>2. /\ pc' = "sendRGB" /\ sent' = 0 /\ masked' = TRUE
        /\ lamps' = [red |-> m_redPattern', green |-> m_greenPattern']
        /\ UNCHANGED <<m_pattern, rgb, stored, expected>>
    BY <1>1 DEF OnTimer, DisableInterrupts, RefreshRedGreen
  <2>3. Shape' BY <2>1, <2>2, OffShape DEF Shape
  <2>4. FrameInv' BY <2>2, OffShape DEF FrameInv, Shown, LampsInv
  <2>5. StoreInv' BY <2>2, SameStore DEF StoreInv
  <2> QED BY <2>3, <2>4, <2>5
<1>2. CASE NotDue
  <2>1. Shape' /\ FrameInv' BY <1>2, FramesStay DEF NotDue, leds, task, Shown
  <2>2. StoreInv' BY <1>2, SameStore DEF NotDue, task, StoreInv
  <2> QED BY <2>1, <2>2
<1>3. CASE SendBitbangRGB
  <2>1. /\ pc \in {"sendOff", "sendRGB"} /\ sent < NRgb /\ sent' = sent + 1
        /\ rgb' = [rgb EXCEPT ![sent + 1] = frame[sent + 1]]
        /\ UNCHANGED <<pc, task, frame, masked, lamps, stored, expected>>
    BY <1>3 DEF SendBitbangRGB
  <2>2. sent \in 0..NRgb /\ sent' \in 0..NRgb /\ sent + 1 \in 1..NRgb
    BY <2>1, ChristmasTreeAssumption DEF Shape
  <2>3. \A i \in 1..NRgb : rgb'[i] = IF i = sent + 1 THEN frame[i] ELSE rgb[i]
    BY <2>1, <2>2 DEF Shape
  <2>4. rgb' = [i \in 1..NRgb |-> rgb'[i]] BY <2>1 DEF Shape
  <2>5. \A i \in 1..sent' : i = sent + 1 \/ i \in 1..sent
    BY <2>1, <2>2
  <2>6. \A i \in 1..sent' : i \in 1..NRgb
    BY <2>2, ChristmasTreeAssumption
  <2>7. \A i \in 1..sent' : rgb'[i] = frame[i]
    BY <2>1, <2>3, <2>5, <2>6 DEF FrameInv
  <2>8. Shape' BY <2>1, <2>2, <2>4 DEF Shape
  <2>9. FrameInv' BY <2>1, <2>7 DEF FrameInv, Shown, LampsInv, task
  <2>10. StoreInv' BY <2>1, SameStore DEF StoreInv, task
  <2> QED BY <2>8, <2>9, <2>10
<1>4. CASE FrameSent
  <2>1. rgb = frame BY <1>4 DEF FrameSent, Shape, FrameInv
  <2>2. Shape' BY <1>4 DEF FrameSent, Shape
  <2>3. FrameInv' BY <1>4, <2>1 DEF FrameSent, FrameInv, Shown, LampsInv, task
  <2>4. StoreInv' BY <1>4, SameStore DEF FrameSent, StoreInv, task
  <2> QED BY <2>2, <2>3, <2>4
<1> QED BY <1>1, <1>2, <1>3, <1>4 DEF Led

\* The console.
LEMMA ConsoleInv == ASSUME IInv, Console PROVE IInv'
<1> USE DEF IInv
<1>1. CASE NoInput
  <2>1. Shape' /\ FrameInv' BY <1>1, FramesStay DEF NoInput, leds, task, Shown
  <2> QED BY <1>1, <2>1, SameStore DEF NoInput, task, StoreInv
<1>2. CASE OnPattern
  <2>1. Shape' /\ FrameInv' BY <1>2, FramesStay DEF OnPattern, Iteration, leds, Shown
  <2> QED BY <1>2, <2>1, SameStore DEF OnPattern, StoreInv
<1>3. CASE Store("commit", "committing", m_pattern) \/ Store("zeroize", "wiping", "random")
  <2>1. Shape' /\ FrameInv' BY <1>3, FramesStay DEF Store, Iteration, leds, task, Shown
  <2>2. StoreInv' BY <1>3, SameStore DEF Store, StoreInv, task
  <2> QED BY <2>1, <2>2
<1>4. CASE Written("committing", OnCommit, m_pattern)
  <2>1. Shape' /\ FrameInv' BY <1>4, FramesStay DEF Written, leds, task, Shown
  <2>2. stored' \in Patterns \cup {"none"} /\ ReadObject' = m_pattern
    BY <1>4 DEF Written, OnCommit, ReadObject, StoreInv, Patterns
  <2> QED BY <1>4, <2>1, <2>2 DEF Written, StoreInv, task
<1>5. CASE Written("wiping", "none", "random")
  <2>1. Shape' /\ FrameInv' BY <1>5, FramesStay DEF Written, leds, task, Shown
  <2> QED BY <1>5, <2>1 DEF Written, StoreInv, ReadObject, task
<1>6. CASE Restart /\ UNCHANGED stored
  <2>1. "random" \in Patterns BY DEF Patterns
  <2> QED BY <1>6, <2>1, RestartInv, SameStore DEF Restart, StoreInv
<1> QED BY <1>1, <1>2, <1>3, <1>4, <1>5, <1>6 DEF Console, OnExecute

\* Keys, the interrupt, faults, and the timer.
LEMMA WorldInv ==
  ASSUME IInv,
         \/ USART2_Handler \/ Timer \/ defaultISR \/ HardFault_Handler
         \/ \E k \in Commands : KeyPressed(k)
  PROVE  IInv'
<1> USE DEF IInv
<1>1. CASE USART2_Handler
  <2>1. Shown /\ sent = NRgb BY <1>1 DEF USART2_Handler, FrameInv
  <2>2. \A i \in 1..NRgb : i # NRgb + 1 BY ChristmasTreeAssumption
  <2>3. rgb' = [i \in 1..NRgb |-> rgb[i]] BY <1>1, <2>1, <2>2 DEF USART2_Handler
  <2>4. rgb' = rgb BY <2>3 DEF Shape
  <2>5. sent' = sent BY <1>1, <2>1, ChristmasTreeAssumption DEF USART2_Handler
  <2>6. Shape' /\ FrameInv' BY <1>1, <2>4, <2>5, FramesStay DEF USART2_Handler, task
  <2> QED BY <1>1, <2>6, SameStore DEF USART2_Handler, StoreInv, task
<1>2. CASE Timer \/ \E k \in Commands : KeyPressed(k)
  <2>1. Shape' /\ FrameInv' BY <1>2, FramesStay DEF Timer, KeyPressed, leds, task
  <2> QED BY <1>2, <2>1, SameStore DEF Timer, KeyPressed, StoreInv, task
<1>3. CutShort => stored' \in Patterns \cup {"none"} /\ ReadObject' \in expected
  <2>1. CASE stored' = stored BY <2>1, SameStore DEF StoreInv
  <2>2. CASE pc = "committing" /\ stored' = OnCommit
    BY <2>2 DEF OnCommit, ReadObject, StoreInv, Patterns
  <2>3. CASE pc = "wiping" /\ stored' = "none" BY <2>3 DEF ReadObject, StoreInv
  <2> QED BY <2>1, <2>2, <2>3 DEF CutShort
<1>4. CASE defaultISR
  <2>1. Restart /\ CutShort BY <1>4 DEF defaultISR
  <2>2. stored' \in Patterns \cup {"none"} /\ ReadObject' \in expected BY <1>3, <2>1
  <2>3. "random" \in Patterns BY DEF Patterns
  <2> QED BY <2>1, <2>2, <2>3, RestartInv DEF Restart, StoreInv
<1>5. CASE HardFault_Handler
  <2>1. /\ pc' = "hung" /\ UNCHANGED <<m_pattern, frame, sent, rgb, expected>>
        /\ CutShort
    BY <1>5 DEF HardFault_Handler, task
  <2>2. Shape' /\ FrameInv' BY <2>1 DEF Shape, FrameInv, Shown
  <2> QED BY <1>3, <2>1, <2>2 DEF StoreInv
<1> QED BY <1>1, <1>2, <1>4, <1>5

-----------------------------------------------------------------------------
\* The invariant holds at power-up and every step keeps it.
THEOREM Inductive == Spec => []IInv
<1>1. Init => IInv
  <2> SUFFICES ASSUME Init PROVE IInv OBVIOUS
  <2>1. Shape BY OffShape DEF Init, Shape
  <2>2. FrameInv BY DEF Init, FrameInv, Shown
  <2>3. StoreInv BY DEF Init, StoreInv, Patterns
  <2> QED BY <2>1, <2>2, <2>3 DEF IInv
<1>2. IInv /\ [Next]_vars => IInv'
  <2>1. ASSUME IInv, Next PROVE IInv'
    BY <2>1, BootInv, LedInv, ConsoleInv, WorldInv DEF Next, Main
  <2>2. ASSUME IInv, UNCHANGED vars PROVE IInv'
    <3>1. Shape' /\ FrameInv' BY <2>2, FramesStay DEF vars, leds, task
    <3> QED BY <2>2, <3>1, SameStore DEF IInv, StoreInv, vars, task
  <2> QED BY <2>1, <2>2
<1> QED BY <1>1, <1>2, PTL DEF Spec

\* Between two refreshes all LEDs show the same whole frame, however keys,
\* commands, faults and resets come in between.
THEOREM FramesWhole == Spec => []WholeFrames
<1>1. IInv => WholeFrames BY DEF IInv, FrameInv, Shown, LampsInv, WholeFrames
<1> QED BY <1>1, Inductive, PTL

\* A boot shows what was committed last, or, if the commit or the wipe was cut
\* short, what was there before it or what it was to be.
THEOREM Committed == Spec => BootShowsCommitted
<1>1. IInv /\ [Next]_vars => [pc = "sendOff" /\ pc' = "led" => m_pattern' \in expected]_vars
  <2> SUFFICES ASSUME IInv, Next, pc = "sendOff", pc' = "led" PROVE m_pattern' \in expected
    OBVIOUS
  <2>1. CASE LoadPattern BY <2>1 DEF LoadPattern, IInv, StoreInv
  <2>2. CASE ~LoadPattern
    BY <2>2 DEF Next, Main, BSP_Init, Led, OnTimer, NotDue, SendBitbangRGB, FrameSent, Console, NoInput,
       OnExecute, OnPattern, Store, Written, Iteration, Restart, USART2_Handler, Timer, KeyPressed,
       defaultISR, HardFault_Handler
  <2> QED BY <2>1, <2>2
<1> QED BY <1>1, Inductive, PTL DEF Spec, BootShowsCommitted

-----------------------------------------------------------------------------
(* Keys on their way from the register to their command.                   *)

Key    == [command : Commands, number : Nat]
KeyInv ==
  /\ fifo \in Seq(Key) /\ Len(fifo) <= FifoSize
  /\ rdr = <<>> \/ \E key \in Key : rdr = <<key>>
  /\ keys \in Nat

\* What is left of a FIFO, and which of its keys are not.
LEMMA TakeKey ==
  ASSUME NEW S, NEW q \in Seq(S), q # <<>>
  PROVE  /\ Tail(q) \in Seq(S) /\ Len(Tail(q)) = Len(q) - 1 /\ Len(q) \in Nat \ {0} /\ Head(q) = q[1]
         /\ \A i \in 1..Len(q) : i = 1 \/ (i - 1 \in 1..Len(Tail(q)) /\ Tail(q)[i - 1] = q[i])
<1>1. /\ Head(q) = q[1] /\ Tail(q) \in Seq(S) /\ Len(q) \in Nat \ {0} /\ Len(Tail(q)) = Len(q) - 1
      /\ \A i \in 1..Len(q) - 1 : Tail(q)[i] = q[i + 1]
  BY HeadTailProperties, EmptySeq
<1>2. ASSUME NEW i \in 1..Len(q), i # 1
      PROVE  i - 1 \in 1..Len(Tail(q)) /\ Tail(q)[i - 1] = q[i]
  <2>1. i - 1 \in 1..Len(q) - 1 /\ (i - 1) + 1 = i BY <1>1, <1>2
  <2> QED BY <1>1, <2>1
<1> QED BY <1>1, <1>2

\* Keys move in four ways: not at all, into the register, on to the FIFO, and
\* to their command; a restart forgets them.
LEMMA KeyMoves ==
  ASSUME Next
  PROVE  \/ UNCHANGED input
         \/ \E k \in Commands : KeyPressed(k)
         \/ USART2_Handler
         \/ Iteration /\ fifo' = Tail(fifo) /\ UNCHANGED rdr
         \/ Restart
BY DEF Next, Main, BSP_Init, LoadPattern, Led, OnTimer, NotDue, SendBitbangRGB, FrameSent, Console, NoInput,
       OnExecute, OnPattern, Store, Written, Timer, defaultISR, HardFault_Handler, leds

\* The FIFO holds keys and never more than it has room for.
LEMMA KeysTyped == Spec => []KeyInv
<1>1. Init => KeyInv BY EmptySeq, ChristmasTreeAssumption DEF Init, KeyInv
<1>2. KeyInv /\ [Next]_vars => KeyInv'
  <2> SUFFICES ASSUME KeyInv, [Next]_vars PROVE KeyInv' OBVIOUS
  <2>1. CASE UNCHANGED input BY <2>1 DEF input, KeyInv
  <2>2. ASSUME NEW k \in Commands, KeyPressed(k) PROVE KeyInv'
    <3>1. keys' = keys + 1 /\ fifo' = fifo /\ rdr' = IF rdr = <<>> THEN <<[command |-> k, number |-> keys']>> ELSE rdr
      BY <2>2 DEF KeyPressed
    <3>2. [command |-> k, number |-> keys'] \in Key BY <3>1 DEF Key, KeyInv
    <3>3. rdr' = <<>> \/ \E key \in Key : rdr' = <<key>> BY <3>1, <3>2 DEF KeyInv
    <3> QED BY <3>1, <3>3 DEF KeyInv
  <2>3. CASE USART2_Handler
    <3>1. /\ rdr # <<>> /\ rdr' = <<>> /\ keys' = keys
          /\ fifo' = IF Len(fifo) < FifoSize THEN Append(fifo, Head(rdr)) ELSE fifo
      BY <2>3 DEF USART2_Handler
    <3>2. Head(rdr) \in Key BY <3>1 DEF KeyInv
    <3>3. CASE Len(fifo) < FifoSize
      <4>1. fifo' \in Seq(Key) /\ Len(fifo') = Len(fifo) + 1 /\ Len(fifo) \in Nat
        BY <3>1, <3>2, <3>3, AppendProperties, LenProperties DEF KeyInv
      <4> QED BY <3>1, <3>3, <4>1, ChristmasTreeAssumption DEF KeyInv
    <3>4. CASE ~(Len(fifo) < FifoSize) BY <3>1, <3>4 DEF KeyInv
    <3> QED BY <3>3, <3>4
  <2>4. CASE Iteration /\ fifo' = Tail(fifo) /\ UNCHANGED rdr
    <3>1. fifo # <<>> /\ keys' = keys BY <2>4 DEF Iteration
    <3>2. fifo' \in Seq(Key) /\ Len(fifo') = Len(fifo) - 1 /\ Len(fifo) \in Nat
      BY <2>4, <3>1, TakeKey DEF KeyInv
    <3> QED BY <2>4, <3>1, <3>2, ChristmasTreeAssumption DEF KeyInv
  <2>5. CASE Restart BY <2>5, EmptySeq, ChristmasTreeAssumption DEF Restart, KeyInv
  <2> QED BY <2>1, <2>2, <2>3, <2>4, <2>5, KeyMoves DEF vars
<1> QED BY <1>1, <1>2, PTL DEF Spec

\* The safety part of KeysAreExecuted: as long as no fault or reset intervenes
\* a waiting key keeps waiting until its command is run.
THEOREM KeysAreKept ==
  Spec => [][\A n \in Nat : Waiting(n) /\ pc' \notin {"BSP_Init", "hung"} => Waiting(n)' \/ n \in executed']_vars
<1>1. KeyInv /\ [Next]_vars =>
        [\A n \in Nat : Waiting(n) /\ pc' \notin {"BSP_Init", "hung"} => Waiting(n)' \/ n \in executed']_vars
  <2> SUFFICES ASSUME KeyInv, Next, NEW n \in Nat, Waiting(n), pc' \notin {"BSP_Init", "hung"}
               PROVE  Waiting(n)' \/ n \in executed'
    OBVIOUS
  <2>1. CASE UNCHANGED input BY <2>1 DEF input, Waiting
  <2>2. CASE \E k \in Commands : KeyPressed(k) BY <2>2 DEF KeyPressed, Waiting
  <2>3. CASE USART2_Handler
    <3>1. /\ rdr # <<>> /\ fifo' = IF Len(fifo) < FifoSize THEN Append(fifo, Head(rdr)) ELSE fifo
      BY <2>3 DEF USART2_Handler
    <3>2. Head(rdr) \in Key BY <3>1 DEF KeyInv
    <3>3. CASE Len(fifo) < FifoSize
      <4>1. /\ Len(fifo) \in Nat /\ Len(fifo') = Len(fifo) + 1 /\ fifo'[Len(fifo) + 1] = Head(rdr)
            /\ \A i \in 1..Len(fifo) : fifo'[i] = fifo[i]
        BY <3>1, <3>2, <3>3, AppendProperties, LenProperties DEF KeyInv
      <4>2. Len(fifo) + 1 \in 1..Len(fifo') BY <4>1
      <4>3. CASE \E i \in 1..Len(fifo) : fifo[i].number = n
        <5>1. PICK i \in 1..Len(fifo) : fifo[i].number = n BY <4>3
        <5>2. i \in 1..Len(fifo') /\ fifo'[i].number = n BY <4>1, <5>1
        <5> QED BY <5>2 DEF Waiting
      <4>4. CASE Head(rdr).number = n BY <4>1, <4>2, <4>4 DEF Waiting
      <4> QED BY <4>3, <4>4 DEF Waiting
    <3>4. CASE ~(Len(fifo) < FifoSize) BY <3>1, <3>4 DEF Waiting
    <3> QED BY <3>3, <3>4
  <2>4. CASE Iteration /\ fifo' = Tail(fifo) /\ UNCHANGED rdr
    <3>1. fifo # <<>> /\ executed' = executed \cup {Head(fifo).number} BY <2>4 DEF Iteration
    <3>2. /\ Len(fifo') = Len(fifo) - 1 /\ Len(fifo) \in Nat \ {0} /\ Head(fifo) = fifo[1]
          /\ \A i \in 1..Len(fifo) : i = 1 \/ (i - 1 \in 1..Len(fifo') /\ fifo'[i - 1] = fifo[i])
      BY <2>4, <3>1, TakeKey DEF KeyInv
    <3>3. CASE \E i \in 1..Len(fifo) : fifo[i].number = n
      <4>1. PICK i \in 1..Len(fifo) : fifo[i].number = n BY <3>3
      <4>2. CASE i = 1 BY <3>1, <3>2, <4>1, <4>2
      <4>3. CASE i # 1
        <5>1. i - 1 \in 1..Len(fifo') /\ fifo'[i - 1].number = n BY <3>2, <4>1, <4>3
        <5> QED BY <5>1 DEF Waiting
      <4> QED BY <4>2, <4>3
    <3>4. CASE rdr # <<>> /\ Head(rdr).number = n /\ Len(fifo) < FifoSize
      BY <2>4, <3>2, <3>4, ChristmasTreeAssumption DEF Waiting
    <3> QED BY <3>3, <3>4 DEF Waiting
  <2>5. CASE Restart BY <2>5 DEF Restart
  <2> QED BY <2>1, <2>2, <2>3, <2>4, <2>5, KeyMoves
<1> QED BY <1>1, KeysTyped, PTL DEF Spec
=============================================================================
