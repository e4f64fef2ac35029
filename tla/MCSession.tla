----------------------------- MODULE MCSession -----------------------------
(* Small instances of Session for TLC: see the .cfg files.                 *)
EXTENDS Session, TLC

Symmetry == Permutations(Thread) \cup Permutations(Builder)
=============================================================================
