---------------------------- MODULE MCExceptions ----------------------------
(* Small instances of Exceptions for TLC: see the .cfg files.              *)
EXTENDS Exceptions, ModuleBuilderInvariant
=============================================================================
