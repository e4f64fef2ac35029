----------------------------- MODULE Exceptions -----------------------------
(***************************************************************************)
(* ModuleBuilder, with lambdas that throw.  Nothing in create_function,    *)
(* if_ or while_ is undone when one does: the assignments that restore the *)
(* builder's fields come after the call of the lambda and are skipped.     *)
(***************************************************************************)
EXTENDS ModuleBuilder

CONSTANT
  Escapes  (* what an exception may leave behind it, besides a function:    *)
           (* "loop", a while_ that is running; "statement", it is caught   *)
           (* by a lambda of the same function, which then goes on          *)

ASSUME ExceptionsAssumption == Escapes \subseteq {"loop", "statement"}

(* The innermost lambda throws.  The k-th one catches, or, if k is 0, the  *)
(* caller of create_function.                                              *)
Throw ==
  \E k \in 0..(Len(stack) - 1) :
    /\ ~aborted
    /\ k > 0 => "statement" \in Escapes
    /\ (\E i \in LoopFrames : i > k) => "loop" \in Escapes
    /\ stack' = SubSeq(stack, 1, k)
    /\ UNCHANGED <<function_, exited_block_, current_loop_, dbg_scope_, source_code_,
                   insert, loc, entry, parent, code, blocks, aborted>>

NextOrThrow == Next \/ Throw
ThrowingSpec == Init /\ [][NextOrThrow]_vars

-----------------------------------------------------------------------------
(* break_ and continue_ assert that there is a loop: called where no       *)
(* while_ is running, they stop the program.                               *)
StrayExitIsCaught ==
  [][(Break \/ Continue) /\ LoopFrames = {} => aborted']_vars
=============================================================================
