------------------------------ MODULE MCKupSuper ------------------------------
(* TLC instance of KupSuper. *)
EXTENDS KupSuper
\* The first rails of the table, one without PGOOD and two with it, stand
\* for the six: every rule of the sequencer is about a rail and its neighbour.
ShortPowerSequence == SubSeq(KupPowerSequence, 1, 3)
=============================================================================
