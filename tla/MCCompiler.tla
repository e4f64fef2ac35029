----------------------------- MODULE MCCompiler -----------------------------
(* Small instances of Compiler for TLC: see the .cfg files.                *)
EXTENDS Compiler, TLC

CONSTANTS memcmp, strlen, libc

(* The process's own functions. That they share an address costs nothing:  *)
(* no property compares the addresses of two names.                        *)
MCProcess == [n \in {memcmp, strlen} \cap Name |-> libc]

(* Builders are interchangeable, and so are addresses and source files: no *)
(* definition singles one out, and no CHOOSE ranges over them.             *)
MCSymmetry == Permutations(Builder) \cup Permutations(Address) \cup Permutations(File)
=============================================================================
