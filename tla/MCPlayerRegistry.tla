-------------------------- MODULE MCPlayerRegistry --------------------------
(* PlayerRegistry for TLC: the constants are in the .cfg file.  Players,    *)
(* guids, places and ids are only compared, with 0 or with one another.    *)
EXTENDS PlayerRegistry, TLC

Symmetric == Permutations(Player) \cup Permutations(Guid) \cup Permutations(Place)
             \cup Permutations(PlayerID \ {0})
=============================================================================
