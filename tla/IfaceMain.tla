------------------------------- MODULE IfaceMain -------------------------------
(***************************************************************************)
(* The main MCU of fpga-stm32-ifaces from reset to its main loop, with the *)
(* FPGA it waits for, the Ethernet PHY behind the FPGA, the fault handlers *)
(* and resets.  The timers of the main loop are those of LoopTimers.       *)
(***************************************************************************)
EXTENDS LoopTimers, Sequences

CONSTANTS
  Speeds,       \* the speeds a link may have, as the two bits PollPHYs assembles
  MaxResets     \* bound: resets of the MCU

ASSUME IfaceMainAssumption == Speeds \subseteq 0..3 /\ MaxResets \in Nat

NoLink == 4     \* not a speed

VARIABLES
  boot,                     \* the next call of the boot; past the last one, the main loop runs
  ready,                    \* what the calls so far have set up
  hung,                     \* in a fault handler's endless loop: "no", "fault", or "misuse" (see BootCall)
  g_basetLinkUp, g_basetLinkSpeed,
  bctl,                     \* speed bits of the control register, as PollPHYs read them
  fpga,                     \* FPGA: "blank", "loaded" (DONE) or "ready" (status = 3)
  link,                     \* PHY: speed of the link, or NoLink
  latch,                    \* PHY: the link has been down since the status register was read
  resets

timers == vars
linkState == <<g_basetLinkUp, g_basetLinkSpeed, bctl>>
phy  == <<link, latch>>
allVars == <<timers, boot, ready, hung, linkState, fpga, phy, resets>>

\* main() of the library, then BSP_Init.
Order ==
  <<"BSP_InitPower", "BSP_InitClocks", "BSP_InitUART", "BSP_InitLog",
    "InitRTC", "InitSupervisor", "InitFMC", "WaitForDone",
    "LoopbackTest", "WaitForStatus", "ReadFPGA", "InitFPGAFlash", "DoInitKVS", "InitI2C", "InitEEPROM",
    "HoldPHY", "InitManagementPHY", "InitIP", "ConfigureIP", "InitProtocols", "RegisterProtocolHandlers",
    "InitITM", "InitLEDs", "InitDTS", "InitSensors", "App_Init">>

\* Mutant: the FPGA is waited for and tested before the memory controller is
\* set up.
BootOrderFPGAFirst ==
  [Order EXCEPT ![7] = "WaitForDone", ![8] = "LoopbackTest", ![9] = "InitFMC"]
BootOrder == Order

Booted == boot > Len(BootOrder)

MainInit ==
  /\ Init /\ boot = 1 /\ ready = {} /\ hung = "no"
  /\ g_basetLinkUp = FALSE /\ g_basetLinkSpeed = 0 /\ bctl = 0
  /\ fpga = "blank" /\ link = NoLink /\ latch = TRUE /\ resets = 0

-----------------------------------------------------------------------------
(* The boot.                                                               *)

\* A call of the boot that uses what is in needs and sets up what is in gives.
\* A null pointer, or a peripheral without a clock, is a fault.
BootCall(name, needs, gives) ==
  /\ ~Booted /\ hung = "no" /\ BootOrder[boot] = name
  /\ hung' = IF needs \subseteq ready THEN "no" ELSE "misuse"
  /\ boot' = boot + 1 /\ ready' = ready \cup gives
  /\ UNCHANGED <<timers, linkState, fpga, resets>>

BSP_InitPower  == BootCall("BSP_InitPower", {}, {"power"}) /\ UNCHANGED phy
BSP_InitClocks == BootCall("BSP_InitClocks", {"power"}, {"HSE", "PLL1", "PLL2"}) /\ UNCHANGED phy
BSP_InitUART   == BootCall("BSP_InitUART", {"PLL1"}, {"g_cliUART"}) /\ UNCHANGED phy
BSP_InitLog    == BootCall("BSP_InitLog", {"g_cliUART"}, {"g_log"}) /\ UNCHANGED phy
InitRTC        == BootCall("InitRTC", {"g_log", "HSE"}, {"RTC"}) /\ UNCHANGED phy
InitSupervisor == BootCall("InitSupervisor", {"g_log", "PLL1"}, {}) /\ UNCHANGED phy
InitFMC        == BootCall("InitFMC", {"g_log", "PLL2"}, {"FMC"}) /\ UNCHANGED phy
DoInitKVS      == BootCall("DoInitKVS", {"g_log"}, {"g_kvs"}) /\ UNCHANGED phy
InitI2C        == BootCall("InitI2C", {"g_log"}, {"I2C"}) /\ UNCHANGED phy
InitEEPROM     == BootCall("InitEEPROM", {"g_log", "I2C"}, {"g_macAddress"}) /\ UNCHANGED phy

\* InitFPGA: wait for DONE, poke the scratch register (errors are only
\* counted), wait for the device information, read it, then set up the flash
\* and the LEDs, which floats the reset of the PHY.
WaitForDone    == fpga # "blank" /\ BootCall("WaitForDone", {"g_log"}, {"DONE"}) /\ UNCHANGED phy
LoopbackTest   == BootCall("LoopbackTest", {"FMC", "DONE"}, {}) /\ UNCHANGED phy
WaitForStatus  == fpga = "ready" /\ BootCall("WaitForStatus", {"FMC", "DONE"}, {"FDEVINFO"}) /\ UNCHANGED phy
ReadFPGA       == BootCall("ReadFPGA", {"FMC", "FDEVINFO"}, {"g_usercode"}) /\ UNCHANGED phy
InitFPGAFlash  == BootCall("InitFPGAFlash", {"FMC", "DONE"}, {"FPGA_GPIOA"}) /\ UNCHANGED phy

\* InitManagementPHY: the PHY is held in reset for a millisecond, which takes
\* its link down, and gets its ID read; an unknown ID is only logged.
HoldPHY == BootCall("HoldPHY", {"FPGA_GPIOA"}, {}) /\ link' = NoLink /\ latch' = TRUE
InitManagementPHY == BootCall("InitManagementPHY", {"FPGA_GPIOA"}, {"g_phyMdio"}) /\ UNCHANGED phy

\* InitIP: the MAC, the addresses from the store, the stack, and its handlers
\* with the iperf server.
InitIP        == BootCall("InitIP", {"FMC", "FPGA_GPIOA"}, {"g_ethIface", "g_ethIRQ"}) /\ UNCHANGED phy
ConfigureIP   == BootCall("ConfigureIP", {"g_kvs"}, {"g_ipConfig"}) /\ UNCHANGED phy
InitProtocols == /\ BootCall("InitProtocols", {"g_ethIface", "g_macAddress", "g_ipConfig"}, {"g_ethProtocol"})
                 /\ UNCHANGED phy
RegisterProtocolHandlers ==
  BootCall("RegisterProtocolHandlers", {"g_ethProtocol"}, {"g_iperfServer"}) /\ UNCHANGED phy

InitITM == BootCall("InitITM", {"g_log"}, {"g_itmStream"}) /\ UNCHANGED phy

\* App_Init: LEDs, temperature, the FPGA's sensors, and the console.
InitLEDs    == BootCall("InitLEDs", {}, {}) /\ UNCHANGED phy
InitDTS     == BootCall("InitDTS", {"g_log"}, {}) /\ UNCHANGED phy
InitSensors == BootCall("InitSensors", {"g_log", "FMC", "DONE"}, {}) /\ UNCHANGED phy
App_Init    == BootCall("App_Init", {"g_cliUART"}, {"console"}) /\ UNCHANGED phy

InitFPGA == WaitForDone \/ LoopbackTest \/ WaitForStatus \/ ReadFPGA \/ InitFPGAFlash
InitNet  == HoldPHY \/ InitManagementPHY \/ InitIP \/ ConfigureIP \/ InitProtocols \/ RegisterProtocolHandlers
InitApp  == InitLEDs \/ InitDTS \/ InitSensors \/ App_Init
Boot ==
  \/ BSP_InitPower \/ BSP_InitClocks \/ BSP_InitUART \/ BSP_InitLog \/ InitRTC \/ InitSupervisor
  \/ InitFMC \/ InitFPGA \/ DoInitKVS \/ InitI2C \/ InitEEPROM \/ InitNet \/ InitITM \/ InitApp

-----------------------------------------------------------------------------
(* BSP_MainLoopIteration.                                                  *)

InMainLoop ==
  /\ Booted /\ hung = "no"
  /\ {"g_ethIRQ", "g_ethIface", "g_ethProtocol", "g_iperfServer", "g_phyMdio", "console"} \subseteq ready

Same == UNCHANGED <<boot, ready, hung, fpga, resets>>

\* PollPHYs reads the control register first: the speed of the link, if there
\* is one.
ReadControl ==
  /\ InMainLoop /\ PhyCheck /\ Same
  /\ bctl' \in IF pc' # "poll" THEN {bctl} ELSE IF link = NoLink THEN Speeds ELSE {link}
  /\ UNCHANGED <<g_basetLinkUp, g_basetLinkSpeed, phy>>

\* OnLinkUp and OnLinkDown are called when g_basetLinkUp changes to up.
Report(up) ==
  /\ g_basetLinkUp' = up
  /\ g_basetLinkSpeed' = IF up /\ ~g_basetLinkUp THEN bctl
                         ELSE IF ~up /\ g_basetLinkUp THEN 255 ELSE g_basetLinkSpeed

\* Mutant: the status is read twice, to get past the latched bit.
ReadStatusTwice ==
  /\ InMainLoop /\ PhyPolled /\ Same
  /\ Report(link # NoLink) /\ latch' = (link = NoLink) /\ UNCHANGED <<bctl, link>>

\* Then the status register, which shows a drop since it was last read.
ReadStatus ==
  /\ InMainLoop /\ PhyPolled /\ Same
  /\ Report(~latch) /\ latch' = (link = NoLink) /\ UNCHANGED <<bctl, link>>

TimerChecks == InMainLoop /\ (WindBack \/ Check10Hz \/ Check1Hz) /\ Same /\ UNCHANGED <<linkState, phy>>

CPU == Boot \/ ReadControl \/ ReadStatus \/ TimerChecks

-----------------------------------------------------------------------------
(* Surroundings.                                                           *)

TimerTicks == InMainLoop /\ Tick /\ Same /\ UNCHANGED <<linkState, phy>>

\* An interrupt nobody expects, an NMI or any other exception: the handler
\* prints what it can and loops for ever.
FaultHandler ==
  /\ hung = "no" /\ hung' = "fault"
  /\ UNCHANGED <<timers, boot, ready, linkState, fpga, phy, resets>>

\* FPGA and PHY keep what they have.
Reset ==
  /\ resets < MaxResets /\ resets' = resets + 1
  /\ boot' = 1 /\ ready' = {} /\ hung' = "no"
  /\ g_basetLinkUp' = FALSE /\ g_basetLinkSpeed' = 0 /\ bctl' = 0
  /\ TimersReset /\ UNCHANGED <<fpga, phy>>

FPGALoads ==
  /\ fpga # "ready" /\ fpga' = IF fpga = "blank" THEN "loaded" ELSE "ready"
  /\ UNCHANGED <<timers, boot, ready, hung, linkState, phy, resets>>

\* The PHY can be out of reset as soon as the FPGA is loaded.
LinkRises ==
  /\ link = NoLink /\ fpga # "blank" /\ link' \in Speeds
  /\ UNCHANGED <<timers, boot, ready, hung, linkState, fpga, latch, resets>>

LinkFalls ==
  /\ link # NoLink /\ link' = NoLink /\ latch' = TRUE
  /\ UNCHANGED <<timers, boot, ready, hung, linkState, fpga, resets>>

Next == CPU \/ TimerTicks \/ FaultHandler \/ Reset \/ FPGALoads \/ LinkRises \/ LinkFalls

Spec == /\ MainInit /\ [][Next]_allVars
        /\ WF_allVars(CPU) /\ WF_allVars(TimerTicks) /\ WF_allVars(FPGALoads)

-----------------------------------------------------------------------------
TypeOK ==
  /\ TimersOK
  /\ boot \in 1..Len(BootOrder) + 1 /\ hung \in {"no", "fault", "misuse"} /\ resets \in 0..MaxResets
  /\ g_basetLinkUp \in BOOLEAN /\ g_basetLinkSpeed \in Speeds \cup {0, 255} /\ bctl \in Speeds \cup {0}
  /\ fpga \in {"blank", "loaded", "ready"} /\ link \in Speeds \cup {NoLink} /\ latch \in BOOLEAN

NeverEarly == [][~Early]_allVars

\* The speed the stack was told is the speed of the link, however the link
\* drops, returns at another speed and drops again between and during the two
\* reads of PollPHYs: while no drop is latched the link has been up since the
\* last poll.
SpeedIsTrue == g_basetLinkUp /\ ~latch => g_basetLinkSpeed = link

\* Every boot ends in the main loop with all that the loop uses set up, unless
\* a fault intervenes: no call comes too early and no wait lasts for ever.
Boots == <>[](InMainLoop \/ hung = "fault")

\* "Check if we had a PHY link state change at 20 Hz": a link that is gone is
\* reported.
DropReported == [](link = NoLink /\ g_basetLinkUp => <>(link # NoLink \/ ~g_basetLinkUp \/ ~InMainLoop))
=============================================================================
