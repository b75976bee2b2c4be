--------------------------------- MODULE Mdio ---------------------------------
(***************************************************************************)
(* What the MDIO interface of baset1-media-converter promises its callers: *)
(* Read, Write, ReadMMD and WriteMMD each touch exactly one register of    *)
(* the PHY, once, at one moment between the call and the return.           *)
(***************************************************************************)
CONSTANTS
  Target,   \* the registers, direct ones and those behind an MMD
  Value,    \* what a register holds
  Status,   \* the registers the PHY changes by itself
  NoResult  \* what stands for the result as long as there is none

VARIABLES
  regs,    \* the PHY's registers
  phase,   \* "idle", "called", "done"
  call,    \* the call in progress
  ret      \* its result

mdvars == <<regs, phase, call, ret>>

Calls == [op : {"read", "write"}, target : Target, value : Value]

Init ==
  /\ regs \in [Target -> Value] /\ phase = "idle" /\ call \in Calls /\ ret = NoResult

Call ==
  /\ phase = "idle" /\ phase' = "called" /\ call' \in Calls /\ ret' = NoResult
  /\ UNCHANGED regs

Effect ==
  /\ phase = "called" /\ phase' = "done"
  /\ \/ call.op = "read" /\ ret' = regs[call.target] /\ UNCHANGED regs
     \/ call.op = "write" /\ regs' = [regs EXCEPT ![call.target] = call.value]
        /\ UNCHANGED ret
  /\ UNCHANGED call

Return == phase = "done" /\ phase' = "idle" /\ UNCHANGED <<regs, call, ret>>

Change ==
  /\ \E t \in Status, v \in Value : regs' = [regs EXCEPT ![t] = v]
  /\ UNCHANGED <<phase, call, ret>>

Next == Call \/ Effect \/ Return \/ Change

\* What the calls do, and that every call returns.
Safety == Init /\ [][Next]_mdvars
Spec   == Safety /\ WF_mdvars(Effect) /\ WF_mdvars(Return)
=============================================================================
