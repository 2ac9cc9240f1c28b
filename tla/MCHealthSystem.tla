--------------------------- MODULE MCHealthSystem ---------------------------
(* Instances of HealthSystem for TLC. *)
EXTENDS HealthSystem

CONSTANT Calls  \* RPCs that are not health Watch streams

AllRPCs    == Calls \union (1..MaxDials)
AllWatches == 1..MaxDials
=============================================================================
