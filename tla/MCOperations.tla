---------------------------- MODULE MCOperations ----------------------------
(* Small machines for TLC: see the .cfg files.                             *)
EXTENDS Operations, TLC

(* Two floating-point types: the first has few numbers, the second holds   *)
(* every integer of the instance.                                          *)
MCHalves == 1 :> 3 @@ 2 :> 30
=============================================================================
