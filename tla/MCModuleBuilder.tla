-------------------------- MODULE MCModuleBuilder --------------------------
(* Small instances of ModuleBuilder for TLC: see the .cfg files.           *)
EXTENDS SourceText, ModuleBuilderInvariant
=============================================================================
