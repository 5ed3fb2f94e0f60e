----------------------------- MODULE MCHpfFile ------------------------------
(***************************************************************************)
(* HpfFile for TLC.  Blocks are numbered bytes, so that a byte in a wrong  *)
(* place is seen; their lengths cross no, one and two ends of a window.    *)
(***************************************************************************)
EXTENDS HpfFile

CONSTANTS Amounts, FillAmounts

MCBlocks == {[i \in 1 .. n |-> CharRange + i] : n \in Amounts}
MCFills == {<<1, n>> : n \in FillAmounts}
=============================================================================
