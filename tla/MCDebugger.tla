----------------------------- MODULE MCDebugger -----------------------------
(* Small instances of Debugger for TLC: see the .cfg files.                *)
EXTENDS Debugger
=============================================================================
