----------------------- MODULE ModuleBuilderInvariant -----------------------
(***************************************************************************)
(* Why the invariants of ModuleBuilder hold: the blocks an if_ or a while_ *)
(* has created and not yet placed are owed by exactly one running lambda,  *)
(* and stay empty until that lambda returns.                               *)
(***************************************************************************)
EXTENDS ModuleBuilder

(* Which blocks each kind of lambda owes to its function.                  *)
Owed(frame) == {frame.next_block, frame.exit_block} \ {0}
FrameShape(frame) ==
  /\ frame.kind \in {"then_else", "cond2"} =>
       /\ frame.next_block # 0 /\ frame.exit_block # 0
       /\ frame.next_block # frame.exit_block
  /\ frame.kind \in {"then", "else", "body"} =>
       frame.next_block = 0 /\ frame.exit_block # 0
  /\ frame.kind \in {"function", "cond1"} =>
       frame.next_block = 0 /\ frame.exit_block = 0
  /\ frame.kind \in {"cond2", "body"} => frame.head_block # 0
FramesShaped == \A i \in DOMAIN stack : FrameShape(stack[i])

OwedUnplaced ==
  \A i \in DOMAIN stack : \A b \in Owed(stack[i]) : b <= blocks /\ parent[b] = 0
OwedOnce ==
  \A i, j \in DOMAIN stack : i # j => Owed(stack[i]) \cap Owed(stack[j]) = {}
UnplacedEmpty == \A b \in Block : parent[b] = 0 => code[b] = <<>>
UncreatedUnplaced == \A b \in Block : b > blocks => parent[b] = 0

(* While a lambda runs there is a function, an entry block and a block to  *)
(* write to, all in place.                                                 *)
InsertionPlaced ==
  stack # <<>> =>
    /\ function_ \in Function
    /\ insert \in Block /\ parent[insert] # 0
    /\ entry[function_] \in Block /\ parent[entry[function_]] # 0
FunctionsEntered ==
  \A f \in Function : entry[f] = 0 => \A b \in Block : parent[b] # f

(* Only a client that takes the liberty runs a function's lambda inside    *)
(* another lambda, or a condition after an exit.                           *)
FunctionOutermost ==
  "nested_function" \notin Liberties =>
     \A i \in DOMAIN stack : stack[i].kind = "function" <=> i = 1
ConditionLive ==
  Disciplined /\ stack # <<>> /\ Top.kind \in Conditions => ~exited_block_

(* The inductive invariant.                                                *)
IInv ==
  /\ TypeOK
  /\ FramesShaped /\ OwedUnplaced /\ OwedOnce
  /\ UnplacedEmpty /\ UncreatedUnplaced
  /\ InsertionPlaced /\ FunctionsEntered
  /\ FunctionOutermost /\ ConditionLive
  /\ ExitFlagTracksTerminator /\ OnlyInsertionBlockOpen

(* Without nested functions, everything that runs writes to one function.  *)
OneFunctionAtATime ==
  "nested_function" \notin Liberties /\ stack # <<>> =>
     /\ stack[1].fn = function_
     /\ parent[insert] = function_ /\ parent[entry[function_]] = function_
=============================================================================
