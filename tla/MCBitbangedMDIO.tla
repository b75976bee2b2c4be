--------------------------- MODULE MCBitbangedMDIO ---------------------------
(* One direct register, which the PHY changes by itself, and two registers *)
(* of one MMD.                                                             *)
EXTENDS BitbangedMDIO

MCPhyAddr == <<0, 0>>
MCMmdCtrl == <<1, 0>>
MCMmdData == <<1, 1>>
MCTarget  == {<<Direct, <<0, 1>>>>, <<<<0, 1>>, <<0, 0>>>>, <<<<0, 1>>, <<1, 1>>>>}
MCStatus  == {<<Direct, <<0, 1>>>>}
=============================================================================
