---------------------------- MODULE MediaConverter ----------------------------
(***************************************************************************)
(* main.cpp of baset1-media-converter: two PHYs back to back, one for a    *)
(* single pair (SPE), one for four (BaseT).  The firmware powers them,     *)
(* takes them out of reset, makes the copper side match the rate of the    *)
(* SPE PHY it finds, and then polls both for their link state.  A register *)
(* access is one step, as Mdio promises.                                   *)
(***************************************************************************)
EXTENDS Integers, FiniteSetsExt

CONSTANT MaxResets   \* bound: resets of the MCU per run

ASSUME ConverterAssumption == MaxResets \in Nat

Phy   == {"SPE", "BaseT"}
Rails == {"1v0", "1v2"}
Model == {"DP83TC814", "DP83TG720S", "other"}   \* 100 Mbit, gigabit, unknown
Rates == {10, 100, 1000}

VARIABLES
  pc,            \* where main() is
  en, up,        \* enable and state of each rail
  rst_n,         \* reset pin of each PHY
  model,         \* the SPE PHY on the board
  foreign,       \* PHYs of another vendor
  partner,       \* the rates of the device on the copper side
  ready,         \* PHYs that are powered and have come out of reset
  speed,         \* rate of each link, 0: down
  sts,           \* link bit of register 1: falls with the link, and stays low
                 \* until it is read
  adv,           \* rates advertised on the copper side
  g_speedIsGig, linkUp,
  lost,          \* PHYs whose link was reported up and has fallen (history)
  resets

board  == <<model, foreign, partner>>
phys   == <<ready, speed, sts, adv>>
supply == <<en, up, rst_n>>
report == <<g_speedIsGig, linkUp, lost>>
vars   == <<pc, supply, board, phys, report, resets>>

None == [p \in Phy |-> FALSE]
All  == [p \in Phy |-> TRUE]

\* The DP83TC814 does not need the 1.0 V rail.
Powered(p, rails) ==
  IF p = "BaseT" THEN rails["1v2"] ELSE rails["1v0"] \/ model = "DP83TC814"

\* A PHY that is not powered or held in reset forgets everything.
PhysFollow(released, rails) ==
  /\ ready' = [p \in Phy |-> ready[p] /\ released[p] /\ Powered(p, rails)]
  /\ speed' = [p \in Phy |-> IF ready'[p] THEN speed[p] ELSE 0]
  /\ sts' = [p \in Phy |-> sts[p] /\ ready'[p]]
  /\ adv' = IF ready'["BaseT"] THEN adv ELSE Rates

Init ==
  /\ pc = "hold" /\ en = [r \in Rails |-> FALSE] /\ up = en /\ rst_n = None
  /\ model \in Model /\ foreign \in [Phy -> BOOLEAN]
  /\ partner \in SUBSET Rates \ {{}}
  /\ ready = None /\ sts = None /\ adv = Rates /\ speed = [p \in Phy |-> 0]
  /\ g_speedIsGig = FALSE /\ linkUp = None /\ lost = None /\ resets = 0

-----------------------------------------------------------------------------
\* "Hold PHYs in reset during boot".
HoldReset ==
  /\ pc = "hold" /\ pc' = "power"
  /\ rst_n' = None /\ PhysFollow(None, up)
  /\ UNCHANGED <<en, up, board, report, resets>>

InitPower ==
  /\ pc = "power" /\ pc' = "pgood"
  /\ en' = [r \in Rails |-> TRUE]
  /\ UNCHANGED <<up, rst_n, board, phys, report, resets>>

\* Mutant: power good is not waited for.
ReleaseAtOnce ==
  /\ pc = "pgood" /\ pc' = "settle" /\ rst_n' = All /\ PhysFollow(All, up)
  /\ UNCHANGED <<en, up, board, report, resets>>

\* "Clear PHY reset 65ms after power good".
ReleaseReset ==
  /\ pc = "pgood" /\ \A r \in Rails : en[r] => up[r]
  /\ pc' = "settle" /\ rst_n' = All /\ PhysFollow(All, up)
  /\ UNCHANGED <<en, up, board, report, resets>>

\* Sleep(10): enough for a PHY that has power to come out of its reset.
Settle ==
  /\ pc = "settle" /\ \A p \in Phy : Powered(p, up) => ready[p]
  /\ pc' = "spe"
  /\ UNCHANGED <<supply, board, phys, report, resets>>

\* The vendor's OUI in registers 2 and 3; without an answer they read as ones.
OuiMatches(p) == ready[p] /\ ~foreign[p]

\* Mutant: the rail is turned off for the PHY that needs it.
InitSPEPHYSwapped ==
  /\ pc = "spe" /\ OuiMatches("SPE") /\ pc' = "baset"
  /\ en' = [en EXCEPT !["1v0"] = model # "DP83TG720S"]
  /\ g_speedIsGig' = (model = "DP83TG720S")
  /\ UNCHANGED <<up, rst_n, board, phys, linkUp, lost, resets>>

\* An unknown model is taken for a 100 Mbit one, and keeps its 1.0 V.
InitSPEPHY ==
  /\ pc = "spe"
  /\ \/ ~OuiMatches("SPE") /\ pc' = "hang" /\ UNCHANGED <<en, g_speedIsGig>>
     \/ /\ OuiMatches("SPE") /\ pc' = "baset"
        /\ en' = [en EXCEPT !["1v0"] = model # "DP83TC814"]
        /\ g_speedIsGig' = (model = "DP83TG720S")
  /\ UNCHANGED <<up, rst_n, board, phys, linkUp, lost, resets>>

\* Mutant: an unknown PHY makes main() return.
InitBaseTPHYReturns ==
  /\ pc = "baset"
  /\ pc' = IF ~OuiMatches("BaseT") THEN "returned"
           ELSE IF g_speedIsGig THEN "BaseT" ELSE "adv1000"
  /\ UNCHANGED <<supply, board, phys, report, resets>>

InitBaseTPHY ==
  /\ pc = "baset"
  /\ pc' = IF ~OuiMatches("BaseT") THEN "hang"
           ELSE IF g_speedIsGig THEN "BaseT" ELSE "adv1000"
  /\ UNCHANGED <<supply, board, phys, report, resets>>

\* The writes of registers 9 (1000baseT control) and 4 (advertisement).
Advertise1000 ==
  /\ pc = "adv1000" /\ pc' = "adv100"
  /\ adv' = adv \ {1000}
  /\ UNCHANGED <<supply, board, ready, speed, sts, report, resets>>

Advertise100 ==
  /\ pc = "adv100" /\ pc' = "restart"
  /\ adv' = (adv \ {10}) \union {100}
  /\ UNCHANGED <<supply, board, ready, speed, sts, report, resets>>

\* Mutant: the negotiation is left as it is.
RestartForgotten ==
  /\ pc = "restart" /\ pc' = "BaseT"
  /\ UNCHANGED <<supply, board, phys, report, resets>>

\* Register 0: restart negotiation, which takes the link down.
Restart ==
  /\ pc = "restart" /\ pc' = "BaseT"
  /\ speed' = [speed EXCEPT !["BaseT"] = 0] /\ sts' = [sts EXCEPT !["BaseT"] = FALSE]
  /\ UNCHANGED <<supply, board, ready, adv, report, resets>>

\* Mutant: the status is read twice, "because of the latch".
PollTwice ==
  /\ pc \in Phy /\ pc' \in Phy \ {pc}
  /\ LET up2 == speed[pc] # 0
     IN  /\ linkUp' = [linkUp EXCEPT ![pc] = up2] /\ sts' = [sts EXCEPT ![pc] = up2]
         /\ lost' = [lost EXCEPT ![pc] = lost[pc] /\ up2]
  /\ UNCHANGED <<supply, board, ready, speed, adv, g_speedIsGig, resets>>

\* One half of the polling loop: read register 1, which ends the latching of
\* its link bit, and report a change.
Poll ==
  /\ pc \in Phy /\ pc' \in Phy \ {pc}
  /\ linkUp' = [linkUp EXCEPT ![pc] = sts[pc]]
  /\ lost' = [lost EXCEPT ![pc] = lost[pc] /\ sts[pc]]
  /\ sts' = [sts EXCEPT ![pc] = speed[pc] # 0]
  /\ UNCHANGED <<supply, board, ready, speed, adv, g_speedIsGig, resets>>

Stuck == {"fault", "storm"}

\* The handlers of the exceptions and of the interrupts nobody expects print
\* what they can and loop for ever; the pins keep their state.
FaultHandler ==
  /\ pc # "fault" /\ pc' = "fault"
  /\ UNCHANGED <<supply, board, phys, report, resets>>

\* The UART's interrupt is enabled, but its handler does not take the byte that
\* was received, so it is called again at once: nothing else runs any more.
USART1_Handler ==
  /\ pc \notin Stuck /\ pc' = "storm"
  /\ UNCHANGED <<supply, board, phys, report, resets>>

\* A reset of the MCU: its pins float, and what rails and resets make of that
\* is left open.
Reset ==
  /\ resets < MaxResets /\ resets' = resets + 1
  /\ pc' = "hold" /\ g_speedIsGig' = FALSE /\ linkUp' = None /\ lost' = None
  /\ en' \in [Rails -> BOOLEAN] /\ rst_n' \in [Phy -> BOOLEAN]
  /\ PhysFollow(rst_n', up) /\ UNCHANGED <<up, board>>

-----------------------------------------------------------------------------
(* Regulators, PHYs and what they are connected to.                        *)

RailSettles(r) ==
  /\ up[r] # en[r] /\ up' = [up EXCEPT ![r] = en[r]]
  /\ PhysFollow(rst_n, up')
  /\ UNCHANGED <<pc, en, rst_n, board, report, resets>>

PhyReady(p) ==
  /\ ~ready[p] /\ rst_n[p] /\ Powered(p, up)
  /\ ready' = [ready EXCEPT ![p] = TRUE]
  /\ UNCHANGED <<pc, supply, board, speed, sts, adv, report, resets>>

\* The copper side negotiates the best rate both ends have.
LinkRises(p) ==
  /\ ready[p] /\ speed[p] = 0
  /\ \/ p = "SPE" /\ speed' = [speed EXCEPT ![p] = IF model = "DP83TG720S" THEN 1000 ELSE 100]
     \/ /\ p = "BaseT" /\ adv \intersect partner # {}
        /\ speed' = [speed EXCEPT ![p] = Max(adv \intersect partner)]
  /\ UNCHANGED <<pc, supply, board, ready, sts, adv, report, resets>>

LinkFalls(p) ==
  /\ speed[p] # 0 /\ speed' = [speed EXCEPT ![p] = 0]
  /\ sts' = [sts EXCEPT ![p] = FALSE] /\ lost' = [lost EXCEPT ![p] = linkUp[p]]
  /\ UNCHANGED <<pc, supply, board, ready, adv, g_speedIsGig, linkUp, resets>>

CPU ==
  \/ HoldReset \/ InitPower \/ ReleaseReset \/ Settle \/ InitSPEPHY \/ InitBaseTPHY
  \/ Advertise1000 \/ Advertise100 \/ Restart \/ Poll

Next ==
  \/ CPU \/ FaultHandler \/ USART1_Handler \/ Reset
  \/ \E r \in Rails : RailSettles(r)
  \/ \E p \in Phy : PhyReady(p) \/ LinkRises(p) \/ LinkFalls(p)

\* The CPU keeps running, enabled regulators come up, PHYs leave their reset.
Fairness ==
  /\ WF_vars(CPU)
  /\ \A r \in Rails : WF_vars(RailSettles(r))
  /\ \A p \in Phy : WF_vars(PhyReady(p))

Spec == Init /\ [][Next]_vars /\ Fairness

-----------------------------------------------------------------------------
TypeOK ==
  /\ pc \in Phy \union {"hold", "power", "pgood", "settle", "spe", "baset",
                        "adv1000", "adv100", "restart", "hang"} \union Stuck
  /\ en \in [Rails -> BOOLEAN] /\ up \in [Rails -> BOOLEAN] /\ rst_n \in [Phy -> BOOLEAN]
  /\ model \in Model /\ foreign \in [Phy -> BOOLEAN] /\ partner \subseteq Rates
  /\ ready \in [Phy -> BOOLEAN] /\ speed \in [Phy -> Rates \union {0}]
  /\ sts \in [Phy -> BOOLEAN] /\ adv \subseteq Rates
  /\ g_speedIsGig \in BOOLEAN /\ linkUp \in [Phy -> BOOLEAN]
  /\ lost \in [Phy -> BOOLEAN] /\ resets \in 0..MaxResets

Polling == pc \in Phy

\* Whichever rail has been turned off again, both PHYs answer while they are
\* polled: a missing answer would read as "link is up".
PhysAlive == Polling => ready = All

\* Once the loop runs the copper side never has another rate than 100 Mbit/s
\* when the SPE PHY is not a gigabit one, though the PHY may have negotiated
\* before, during and after the three writes.
RatesMatch == Polling /\ model # "DP83TG720S" => speed["BaseT"] \in {0, 100}

\* A link that was reported up and falls is reported down, even if it is up
\* again before the next poll, as long as the loop runs.
NoMissedDrop == \A p \in Phy : lost[p] ~> ~lost[p] \/ pc \in Stuck

\* With the PHYs that belong on the board the firmware ends up polling them;
\* it hangs only if a PHY really is of another vendor, never because it asks
\* too early.  (After a fault nothing restarts it.)
Boots == <>[](Polling \/ (pc = "hang" /\ foreign # None) \/ pc \in Stuck)
=============================================================================
