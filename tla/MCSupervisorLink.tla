--------------------------- MODULE MCSupervisorLink ---------------------------
(* TLC instance of SupervisorLink: two version strings and a sensor, FIFOs   *)
(* that just hold one transaction of the longest register.                   *)
EXTENDS SupervisorLink
MCScript == SubSeq(InitScript, 2, 4)
MCReg    == {"IBCVERSION", "IBCHWVERSION", "IBCVIN"}
MCSize   == [r \in MCReg |-> IF r = "IBCVERSION" THEN 1 ELSE 2]
MCBuffer == [r \in MCReg |-> InitBuffer(r)]
=============================================================================
