----------------------------- MODULE RegisterRead -----------------------------
(***************************************************************************)
(* What a register read over the supervisor link promises to the main MCU: *)
(* it answers with the bytes of one value that the register had while the  *)
(* read was going on, never with a mix of two values, with another         *)
(* register's bytes or with the answer to an earlier read.  The promise    *)
(* ends when the supervisor once failed to answer in time.                 *)
(***************************************************************************)
EXTENDS Integers, Sequences

CONSTANTS Reg,      \* the registers
          Size,     \* bytes of each register
          None      \* no register

VARIABLES
  ver,      \* version of each register's value
  asked,    \* the register being read
  sample,   \* the bytes the answer will be
  answer,   \* what the last read returned
  trusted   \* every answer so far was in time

vars == <<ver, asked, sample, answer, trusted>>

Bytes(r, v) == [k \in 1..Size[r] |-> <<r, k, v>>]

Init == /\ ver = [r \in Reg |-> 0] /\ asked = None
        /\ sample = << >> /\ answer = << >> /\ trusted = TRUE

Change(r) == /\ ver' = [ver EXCEPT ![r] = @ + 1]
             /\ UNCHANGED <<asked, sample, answer, trusted>>

Ask(r) == /\ asked = None /\ asked' = r /\ sample' = << >>
          /\ UNCHANGED <<ver, answer, trusted>>

Sample == /\ asked # None /\ sample = << >> /\ sample' = Bytes(asked, ver[asked])
          /\ UNCHANGED <<ver, asked, answer, trusted>>

Return == /\ asked # None /\ asked' = None /\ answer' = sample /\ sample' = << >>
          /\ UNCHANGED <<ver, trusted>>

\* From here on any sample and any answer is possible.
Late == trusted' = FALSE

Next == \/ \E r \in Reg : Change(r) \/ Ask(r)
        \/ trusted /\ (Sample \/ Return)
        \/ Late

Spec == Init /\ [][Next]_vars
=============================================================================
