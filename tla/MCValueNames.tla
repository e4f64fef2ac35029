---------------------------- MODULE MCValueNames ----------------------------
(* Small instances of ValueNames for TLC: see the .cfg files.              *)
EXTENDS ValueNames
=============================================================================
