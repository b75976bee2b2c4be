# Formal models of misc-devboards

The repository holds a family of boards: their schematics and layouts, the
firmware of their microcontrollers and the logic of their FPGAs.  This directory
models the firmware of five of the boards (power and reset, supervision, boot and
network, relays, media conversion, LEDs), checks it with TLC and proves the core of
it with TLAPS.

## The system

Most of the tree is board data.  What behaves is:

| Component | State it keeps | Operations | Interacts with | What is hard | What makes it correct |
|---|---|---|---|---|---|
| Power/reset sequencer (`g_super`, both supervisors) | rail enables, reset pins, power on?, reset index | PowerOn, PowerOff, PanicShutdown, Iteration, OnFault | regulators (PGOOD), FPGA (DONE), LEDs, fault handlers | a fault or reset at any point of a blocking ramp; DONE and PGOOD changing by themselves | rails up in order and down in reverse; resets only with power and in order; a dark board after a fault; it always settles |
| kup-lulz supervisor | task list, LED task, button level | App_Init, LED, button and super tasks | the sequencer, a finger | two reads of one pin with a ramp between them | one toggle per press; LED tells the truth |
| fpga-stm32-ifaces supervisor | log timer, blink deadline, LEDs | App_Init, UpdateOffset, UpdateLEDs, Iteration, PollIBCSensors, Poll | the sequencer, the management bus | deadlines across the timer's wind-back; three descriptors on one pin | dark LEDs in a fault, 2 Hz blink, MCU released last |
| Management bus (main MCU - supervisor) | FIFOs, SPI registers, current command | InitSupervisor, ReadSupervisorRegister; SPI and CS# interrupts; OnCommand | two MCUs and two interrupt handlers | nothing but a sleep synchronises the two | a read returns one value of the register asked for; every command is seen behind its CS# edge; an answer is never stuck |
| Main MCU: boot and main loop | what is set up so far; three deadlines, the log timer; link state | BSP_Init and its 25 calls, App_Init, the checks of BSP_MainLoopIteration, PollPHYs | supervisor, FPGA, Ethernet PHY, TCP/IP stack | order of initialisation, waits for the FPGA, unsigned arithmetic at the wind-back, a link that changes between two register reads | nothing used before it is set up; ticks neither early nor lost; the stack is told the true speed and every drop |
| quad-relay-mux | coils, relays, m_select, LEDs | BSP_Init, OnCommand, OnQuery, SetRelay | SCPI port, latching relays | commands, faults and resets during a pulse | one coil at a time; relay, answer and LEDs agree |
| baset1-media-converter | MDIO pin, PHY registers, rails, link states | Read, Write, ReadMMD, WriteMMD; InitPower, InitSPEPHY, InitBaseTPHY, the polling loop | two PHYs, regulators, link partners | turn-around of the line, MMD access in four frames, latched status, negotiation during set-up, an interrupt nobody acknowledges | one driver at a time; each call one atomic access; both PHYs answer; rates match; no drop missed |
| christmas-tree | pattern, random register, colours, stored setting, UART FIFO | LEDTask (constructor, OnTimer and its modes, refreshes), console commands | UART interrupt, flash store | interrupts masked while LEDs are bit-banged; a write to flash cut short | whole frames; every key that finds room is executed; a boot shows what was committed; random patterns move |
| kup-lulz main MCU and FPGA | APB registers | register access | QSPI, APB bridges | a bridge waiting for ever | not modelled, see below |

The libraries the firmware is built on (the `PowerResetSupervisor` and
descriptor classes, `SPI`, `SPIServer`, `SCPITask`, `UART`, the key-value store, the
logger and its timer) are git submodules and not part of the tree.  They are
modelled from how the boards use them, and `PROJECT.json` marks them external.  The
assumptions are:

* `PowerOn()` turns on one rail of the table after the other and waits for each,
  by its PGOOD pin with a timeout or by a delay; a timeout ends in
  `PanicShutdown()`.  When all are up it releases the first reset line.
* `PowerOff()` and `PanicShutdown()` assert every reset, then turn the rails off
  in reverse order; the latter ends in `OnFault()`, which the boards override.
* `Iteration()` with the power on panics if a sensed rail is lost, otherwise
  goes back to the first line that is no longer ready and holds the later ones in
  reset, otherwise releases the next line once the current one is ready.
* `UpdateOffset(max)` subtracts `max` from the timer once it has reached it.
* `SPIServer::Poll()` takes one event from the receive FIFO; the byte after a
  falling CS# is a command.  The main MCU is the bus master and waits for nothing
  but its own sleep; the supervisor's data register and the pending bit of CS# hold
  one byte and one edge, and what comes while they are occupied is lost.
* `StoreObjectIfNecessary()` and `WipeAll()` of the store are complete or have not
  begun when a reset cuts them short; the former writes nothing if the object
  reads as the value already.
* A UART keeps one byte in its register until the interrupt takes it.

## Modules

* `PowerReset` is the sequencer with its environment.  `railOn`, `pin` are the
  outputs, `pgood`, `done` the inputs, `mode`/`step` say what blocking call the
  CPU is in and at which rail, so that `HardFault_Handler` and `Reset` can come
  between any two steps.  The tables are constants.
* `KupSuper` and `IfaceSuper` extend it, each with its board's loop: one action
  per call of a task or of the main loop (`pc` is the next call), the board's own
  `OnFault`, LEDs, button and timer.  `MCKupSuper` is the instance of the former.
* `RegisterRead` says what a register read promises; `SupervisorLink` is the
  management bus in detail and implements it (`Abstract`, `ReadsAreAtomic`): the
  abstract sample is taken by `OnCommand` and is then spread over what the main
  MCU has read, the peripheral and the FIFO.  The master's steps never wait for the
  supervisor: `Shift` loses the byte, and `SelectSupervisor` the edge, if the last
  one has not been taken.  `late` records that this has happened, or that a sleep
  ended before the answer was ready; from then on the code promises nothing (there
  is no resynchronisation and no checksum), so the safety properties are about runs
  that are in time, and `ServerCatchesUp` about all.  At 488 kHz a byte takes 16 us.
  `MCSupervisorLink` is its instance.
* `LoopTimers` holds the timer checks of the main MCU's main loop, and `IfaceMain`
  extends it with the rest of the firmware: the calls of the boot, each with the
  peripherals and objects it needs and those it sets up (`BootCall`; a missing one
  ends in `hung = "misuse"`), the waits for the FPGA, `PollPHYs` as its two register
  reads, the fault handlers, and resets that leave FPGA and PHY as they are.
* `RelayMux` is the whole quad-relay-mux firmware.
* `Mdio` says what a register access promises; `BitbangedMDIO` is the interface
  clock by clock with a clause 22 PHY, and implements it (`Abstract`,
  `CallsAreAtomic`).  A word is the sequence of its bits; a frame is the sequence of
  what `m_io` does before each clock; `SetIo` and `ClockCycle` walk through it.  A
  call takes effect when the PHY has the address of its last frame (a read) or the
  last bit (a write).
* `MediaConverter` is `main()` on top of it, one step per register access; `pc` is
  the place in `main()`, or the PHY polled next, or how the firmware stopped: in a
  fault handler, or in the UART interrupt, which is never acknowledged (`storm`).
* `ChristmasTree` is the one loop in which LED task and console task run, with the
  UART interrupt beside it.  A refresh sends one RGB LED per step; the interrupt
  comes between any two steps while `masked` is false, and would garble the LED
  being sent.  `expected` is what the user knows of the stored pattern.  Keys carry a
  number and `executed` holds those whose command has been run, so that
  `KeysAreExecuted` follows each key, and a key that is dropped does not count as done.
* `PowerResetProofs`, `KupSuperProofs`, `IfaceSuperProofs`, `SupervisorLinkProofs`,
  `IfaceMainProofs` (with `LoopTimers`), `RelayMuxProofs`, `MediaConverterProofs` (with
  `BitbangedMDIO`, whose definitions are called `Bus...` where the two would clash)
  and `ChristmasTreeProofs` hold the proofs.

Definitions whose comment begins with "Mutant" are not part of a specification:
each is a plausible bug, used to show that a property can fail.

## Runs

| Run | Instance | Shows |
|---|---|---|
| `kup_super` | 3 of the 6 rails (one without PGOOD), the real reset table, 2 disturbances, 2 presses | rail order, resets need power, safe fault state, reset order, one toggle per press, every ramp ends and the board settles, the LED tells the truth |
| `iface_super` | the real tables, 1 disturbance, a timer of 5+1 counts | rail order, dark LEDs in a fault, a truthful power-good LED |
| `supervisor_link` | 3 registers of 1, 2 and 2 bytes (two strings, one changing sensor), FIFOs just large enough for one transaction | while the supervisor is in time: no overflow or residue, commands framed by CS#, atomic reads; always: it gets the answer ready in the end |
| `iface_main` | W = 11, wind-back at 6, periods 3, 2 and 2, loops of up to 1 tick, 2 link speeds, 1 reset | the boot uses nothing it has not set up and ends, no tick early, on time unless a tick was due at the wind-back, the stack is told the true speed |
| `relay_mux` | 2 channels, 1 buffered line, 1 reset | one coil at a time, agreement when idle, pulses end, only the relay asked for moves |
| `mdio` | words of 2 bits, preamble of 2, one direct and two MMD registers, one changed by the PHY | one driver at a time, atomic calls |
| `media_converter` | all models, vendors and link partners, 1 reset | PHYs answer, rates match, no drop missed, the boot ends |
| `christmas_tree` | 1 red and 1 green LED, 2 RGB LEDs, a 4-bit random register, a FIFO of 1, 2 keys, 1 reset | whole frames, every key that finds room is executed, random patterns move, a boot shows the committed pattern |

Four runs are expected to fail; each shows a disagreement of code and comments:

| Run | Code | Comment |
|---|---|---|
| `mcu_released_last` | all three reset descriptors use PA3 | "MCU reset comes at the end" |
| `blink_not_fast` | the blink deadline is wound back before the timer | "Blink OK LED at 2 Hz" |
| `version_strings` | the hardware version is stored in `g_ibcVersion` | "Version string for IBC board" |
| `drop_reported` | `nextPhyPoll` is not wound back, so polling stops after the first wind-back (about 4.7 days at 10 kHz) and a drop stays unreported | "Check if we had a PHY link state change at 20 Hz" |

Bounds.  Three rails give a first, a middle and a last one, and rails with and
without PGOOD; the run also passes with all six.  Two disturbances let a fault
follow a brown-out or a reset follow a fault.  Two presses are needed to see a
second toggle.  Three registers are needed to see one answer spill into the next
read.  The timer constants keep the order of the real ones: the margin above the
wind-back exceeds a lap and a period, as `LoopTimersAssumption` demands.  A tick of
10 kHz is far longer than an iteration, hence a lap of one.  Two speeds let a link
return at another one; one reset starts the boot with a loaded FPGA and a live
link.  Two channels are enough for "another channel's relay".  Two bits per field
give each loop over bits a first and a last pass; two MMD registers show an address
left over from an earlier access.  The real preamble is longer than any run of ones
in a frame; a shorter one makes the PHY less strict, never the host.  Two RGB LEDs
let an interrupt fall between them and a frame be cut short; a 4-bit register, like
the 15-bit one, runs through every value but zero; two keys let one arrive
behind another or while its command runs, and, with a FIFO of 1, be dropped.

`CHECK_DEADLOCK FALSE` is set where the system really stops: a supervisor hung
in `OnFault`, a boot that has read its registers, the fault loops of the main MCU,
the relay board and the christmas tree, a media converter with the wrong PHY.
The MDIO interface never stops, and its run checks for deadlock.

Fairness.  Each CPU executes (weak fairness of its steps as a whole), pending
interrupts are taken, timers tick and an energised relay moves.  In
`ChristmasTree` the interrupt needs strong fairness: the code masks and unmasks it
again and again, but it stays pending while it is masked.  An FPGA whose lines are
released loads its bitstream (in `KupSuper` and `IfaceMain`, where the firmware
waits for it without a timeout).  Nothing makes a regulator come up (except in
`MediaConverter`, whose boot waits for power good without a timeout), a link come
up, a user press a button or a command arrive.

## Proofs

All theorems hold for every value of the constants that the named assumptions
admit; TLC evaluates these assumptions in every run.  Each invariance proof has the
same shape: a lemma per group of actions that they preserve `IInv`, a theorem
`Inductive`, and one corollary per property.

`PowerResetProofs` shows that `PRInv` is preserved by every action of the
sequencer, for every rail and reset table.  Rail order is not inductive by
itself: which rails are on follows from where the CPU is.  `PRInv` says so: in a
ramp the rails before `step` are on and those after it off; in a shutdown those
after `step` are off; otherwise all or none; and without power no reset is
released.  The boards' `IInv` adds their own variables: for the button, that a
press that has not been acted on yet has been counted by `presses` but not by
`toggles`, except between the two reads of the pin.  Proved: `TypeCorrect`,
`RailsInOrder`, `ResetsPowered`, `FaultDark`, `OneToggle` and `InOrder` for
kup-lulz; `TypeCorrect`, `RailsInOrder`, `ResetsPowered` and `Dark` for
fpga-stm32-ifaces.  `InOrder`
assumes that the lines have distinct pins; `KupPins` shows it of kup-lulz's table,
and on the other board, where it does not hold, `mcu_released_last` finds the
violation.

`SupervisorLinkProofs` proves that the management bus implements `RegisterRead`, for
any registers, any script and any FIFOs that hold a transaction.  Nothing but a
sleep synchronises the two MCUs, so `LinkInv` says, for each place of the host in a
transaction and as long as the supervisor is in time, where everything is that is on
its way: `HighInv` that between transactions no answer is left over and what the
server has still to take are dummy bytes; `SelectInv` that the falling CS# is the
youngest event; `SleepInv` that the command is in exactly one of the peripheral, the
FIFO, the server's hands and its answer; `ReadInv` that what has been read and what
is still to come make one answer, and that the peripheral has been refilled from
the FIFO in time.  The number of unread events is bounded along with it, which is
why the receive FIFO suffices (`NeverOverflows`).  `NothingLeft` is `HighInv`.
`AllFramed` reads off each place what the server has yet to see: bytes of the last
answer's time, then the CS# edge, then the command.  In
`Refinement` the server's write of the value is `Sample`, the rising CS# `Return`; the
other steps move bytes along `InTransit` and change nothing of the abstract state.

`LoopTimers` first, in `IfaceMainProofs`: every timer step keeps `TInv`: `CountInv`
bounds the timer by where in the loop the CPU is, `Ahead` says that a deadline is at least the
rest of its period away (which is what a tick that comes early would break, also
after a slip or an underflow), and `LateInv` that without a slip a deadline is
exactly where its last tick put it.  The rest carries it through the boot
and resets and gets `TypeCorrect`, `OnTime` and `NoneTooEarly`; for `TrueSpeed` it adds
`SpeedInv`: while no drop is latched the link is up, and what `PollPHYs` has read
from the control register, between its two reads, is the speed of the link.
`NothingTooEarly` is what makes `Boots` true as far as safety goes: `BootInv` says, for
each place in the boot, what the calls before it have set up, and every call finds in
it what it needs (`BootStep`); so no boot uses a null pointer or an unclocked
peripheral, however often it was cut short, and the last call leaves what the main
loop uses.

`RelayMuxProofs`: which coil is energised follows from `pc` and `chan` (`CoilInv`), and
while a pulse lasts every other channel agrees, while the boot has set the relays
before `chan` only (`AgreeInv`).  `OneCoil` and `IdleAgrees` follow for any number of
channels, and `MovesAsTold`: the only coil that is energised in a command's pulse is
that of the channel and position the command selected.

`MediaConverterProofs` carries `PhysAlive` and `RatesMatch` through the boot:
`SupplyInv` and `AliveInv` say from which place in `main()` on the rails, the reset
lines and the PHYs are up, `RateInv` how far the advertisement has been restricted
by then and that `g_speedIsGig` is right.  `HangsForAReason`, the safety part of its
`Boots`, follows from `AliveInv`: a PHY that is asked for its vendor answers.

Its second part is about `BitbangedMDIO`, for any widths of the words, any preamble
and any registers.  `SymbolsOf` and `SentBits` say what the sequences of symbols look
like, bit by bit, and how a PHY reads them.  `BusInv` says which frame of the call the
host is in (`FramesInv`), how far the PHY is in it (`PhyInv`: it has every bit the
host has driven since the preamble and is idle again behind the last), what `m_io`
was left at (`IoInv`), what the frames so far have made of the two MMD registers
(`MmdInv`), and that the bits of the answer which have been sampled are the low ones
of `ret` (`RetInv`).  `OneClock` follows the PHY through one clock.  From that follow
`BusTypes`, `OneDriver` (the PHY drives the line only behind the addresses of a frame
which both take for a read, and there the host does not) and `CallsHappenOnce`, the
refinement of `Mdio` without its fairness: the clock at which the PHY has the
addresses, or the last bit, of a call's last frame is `Effect`, the last clock of
that frame is `Return`, and every other step of host and PHY is invisible.

`ChristmasTreeProofs`: `Shape` gives the frames their shape, `FrameInv` says that
interrupts are masked while a frame is being sent and that the first `sent` LEDs show
it, `StoreInv` that what the store reads as, and what is being written, is always
among `expected`.  `FramesWhole` and `Committed`
follow for any number of LEDs, keys and resets.  `KeyInv` is a second, separate
invariant (what register and FIFO hold); `KeysAreKept` follows from it with the four
ways keys can move (`KeyMoves`).

Only model-checked:

* The liveness properties, as the prover handles neither fairness nor `ENABLED`:
  `BootSettles`, `LedShowsState`, `PgoodLedTruth` (these two say what the LEDs end up
  as), `ServerCatchesUp`, both `Boots`, `PulseEnds`, `NoMissedDrop`,
  `RandomMoves`, `KeysAreExecuted` (that a waiting key is never lost is `KeysAreKept`).
* Of both `Boots` there are theorems of their own for what they exclude
  (`NothingTooEarly`, `HangsForAReason`); that the waits end is model-checked.
* Of `CallsAreAtomic`, that every call takes effect and returns (its fairness part);
  the rest of it is `CallsHappenOnce`.

## Not modelled

* kup-lulz main MCU: the code is unfinished.  The body of `InitFPGA` is commented
  out, the firmware update is an empty endless loop, and the decision what to boot
  is in a library; what is left sets registers.
* kup-lulz FPGA and the FPGA test designs: wiring of APB blocks, clock-domain
  crossings and transceivers that are a library and vendor IP, none of them in the
  repository.  The wiring has no state of its own.  (One instance leaves out its
  `clk_fabric`, `kup-lulz/rtl/top/top.sv:378`; whether a transfer then waits for ever
  is decided by the absent block.)
* The RTL simulations: stimulus for those blocks.
* The demo TCP, UDP and command-line protocols of the main MCU: hooks on a network
  stack that is not in the repository; in which order they are called, and what the
  connection state is at that time, is the library's affair.
* Register values, flash parameters, IP addresses, sensor readings, the text of
  prompts and logs.  Of the main MCU, interrupts other than faults.

## Remarks on the code

* A 10 Hz or 1 Hz deadline that is due when the timer is wound back underflows
  (`fpga-stm32-ifaces/firmware/main/main/mainloop.cpp:103`) and is not met before the
  next wind-back: `slipped` in `LoopTimers`.  `OnTimeUnlessSlipped` excludes the case,
  which needs a tick to fall due between the check of one iteration and the
  wind-back of the next.
* That `PollPHYs` reads the control register before the status register does no
  harm: the link bit latches low, so a link that changed in between reads as down
  (`SpeedIsTrue`; reading the status twice would break it).
* `christmas-tree/firmware/LEDTask.cpp:35` says "250ms per tick = 2 Hz"; it is 4 Hz.
* `InitLEDs` of the media converter stores the addresses of pins that are local to
  it in `g_led`; nothing uses them afterwards.
* Nothing reports a line of the relay board that is torn or dropped because the
  receive FIFO is full, nor a key of the christmas tree that arrives while another is
  in the register or the FIFO is full.  `IdleAgrees` and `OnlyAsTold` hold whatever
  line arrives; `KeysAreExecuted` is about the keys that find room.
* A supervisor that misses a byte or an edge is not resynchronised before the next
  CS#, and the main MCU takes what it reads for the answer.
* The media converter's UART interrupt handler is empty
  (`baset1-media-converter/firmware/vectors.cpp:265`), so a received byte stops the
  main loop for good.
