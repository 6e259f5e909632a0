---------------------------- MODULE MCMioIndices ----------------------------
(* An instance of MioIndices with two processes and the serial numbers 8   *)
(* to 11, whose strings "10" < "11" < "8" < "9" order them otherwise.      *)
EXTENDS MioIndices, TLC

MCKeyOrder == <<10, 11, 8, 9>>

(* The processes are alike.                                                *)
MCSymmetry == Permutations(Clients)
==============================================================================
