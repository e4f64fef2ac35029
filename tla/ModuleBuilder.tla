---------------------------- MODULE ModuleBuilder ----------------------------
(***************************************************************************)
(* codegen::module_builder and the statements that drive it: how nested    *)
(* C++ lambdas, run once at generation time, turn into the basic blocks,   *)
(* the debug locations and the human-readable source of LLVM functions.    *)
(*                                                                         *)
(* The client is every caller of the library: at each moment the lambda    *)
(* that is running may make any call of the API, or return.  The C++ call  *)
(* stack is explicit (`stack'): one frame per lambda that is running, with *)
(* the locals its caller (create_function, if_, while_) uses afterwards.   *)
(***************************************************************************)
EXTENDS Naturals, Sequences, FiniteSets

CONSTANTS
  MaxFunctions,  (* bound: functions created in the module                 *)
  MaxBlocks,     (* bound: basic blocks created in the module              *)
  MaxLines,      (* bound: source lines after which no statement is opened *)
  MaxCode,       (* bound: straight-line instructions the client adds      *)
                 (*        to one block                                    *)
  MaxDepth,      (* bound: lambdas running inside each other               *)
  Liberties      (* what the client does that the API only partly guards   *)

ASSUME BoundsAssumption ==
  /\ MaxFunctions \in Nat /\ MaxBlocks \in Nat /\ MaxLines \in Nat
  /\ MaxCode \in Nat /\ MaxDepth \in Nat
  /\ Liberties \subseteq {"dead_code", "nested_function", "exit_in_condition"}

VARIABLES
  function_,      (* module_builder::function_, the function being filled   *)
  exited_block_,  (* module_builder::exited_block_                          *)
  current_loop_,  (* module_builder::current_loop_                          *)
  dbg_scope_,     (* module_builder::dbg_scope_                             *)
  source_code_,   (* module_builder::source_code_, the kind of each line    *)
  insert,         (* ir_builder_'s insertion block                          *)
  loc,            (* ir_builder_'s current debug location                   *)
  entry,          (* llvm::Function -> its entry block, 0 before creation   *)
  parent,         (* llvm::BasicBlock -> the function it is in, 0 if none   *)
  code,           (* llvm::BasicBlock -> its instructions                   *)
  blocks,         (* number of basic blocks created                         *)
  stack,          (* the lambdas that are running, innermost last           *)
  aborted         (* an assert() has failed                                 *)

vars == <<function_, exited_block_, current_loop_, dbg_scope_, source_code_,
          insert, loc, entry, parent, code, blocks, stack, aborted>>

Block    == 1..MaxBlocks
Function == 1..MaxFunctions
NoLoop   == [continue_block_ |-> 0, break_block_ |-> 0]
Loop     == [continue_block_ : 0..MaxBlocks, break_block_ : 0..MaxBlocks]

(* A scope is the subprogram it belongs to (0: the file) and the line that *)
(* opens it.  An llvm::DebugLoc is a line in a scope.                      *)
Scope     == [fn : 0..MaxFunctions, line : Nat]
FileScope == [fn |-> 0, line |-> 0]
Location  == [line : Nat, scope : Scope]
NoLoc     == [line |-> 0, scope |-> FileScope]

LineKind    == {"function", "if", "else", "while", "end", "statement",
                "declaration", "return", "break", "continue"}
Terminators == {"br", "condbr", "ret"}
Instr       == [op : {"op", "get", "alloca"} \cup Terminators,
                to : SUBSET Block, loc : Location]

(* "cond1" and "cond2" are while_'s two runs of its condition lambda.      *)
FrameKind == {"function", "then_else", "then", "else", "cond1", "cond2", "body"}
Frame == [kind : FrameKind, fn : 0..MaxFunctions,
          next_block : 0..MaxBlocks,     (* false_block, while_iteration *)
          exit_block : 0..MaxBlocks,     (* merge_block, while_break     *)
          head_block : 0..MaxBlocks,     (* while_continue               *)
          parent_scope : Scope, parent_loop : Loop]

Init ==
  /\ function_ = 0 /\ exited_block_ = FALSE /\ current_loop_ = NoLoop
  /\ dbg_scope_ = FileScope /\ source_code_ = <<>>
  /\ insert = 0 /\ loc = NoLoc /\ blocks = 0
  /\ entry = [f \in Function |-> 0]
  /\ parent = [b \in Block |-> 0]
  /\ code = [b \in Block |-> <<>>]
  /\ stack = <<>> /\ aborted = FALSE

-----------------------------------------------------------------------------
(* Building blocks of the handlers.                                        *)

Top        == stack[Len(stack)]
Outer      == SubSeq(stack, 1, Len(stack) - 1)
Push(f)    == stack' = Append(stack, f)
Pop        == stack' = Outer
Replace(f) == stack' = [stack EXCEPT ![Len(stack)] = f]

(* source_code_generator: line_no_ is the number of the next line.         *)
line_no_       == Len(source_code_) + 1
add_line(kind) == source_code_' = Append(source_code_, kind)
At(line)       == [line |-> line, scope |-> dbg_scope_]

Instruction(op, to, at) == [op |-> op, to |-> to, loc |-> at]
Emitted(i) == [code EXCEPT ![insert] = Append(@, i)]

(* createLexicalBlock: a block belongs to its parent scope's subprogram.   *)
LexicalBlock(parent_scope, line) == [fn |-> parent_scope.fn, line |-> line]

(* getBasicBlockList().push_back(b), then SetInsertPoint(b).               *)
MutantInsertUnplaced(b) ==
  /\ parent' = parent
  /\ insert' = b

PlaceAndInsert(b) ==
  /\ parent' = [parent EXCEPT ![b] = function_]
  /\ insert' = b

(* The end of a branch: `if (!mb.exited_block_) CreateBr(target)' at the   *)
(* location at, then `mb.exited_block_ = false'.                           *)
MutantBranchWithoutReset(target, at) ==
  /\ code' = IF exited_block_ THEN code ELSE Emitted(Instruction("br", {target}, at))
  /\ loc' = IF exited_block_ THEN loc ELSE at
  /\ UNCHANGED exited_block_

MutantBranchAlways(target, at) ==
  /\ code' = Emitted(Instruction("br", {target}, at))
  /\ loc' = at
  /\ exited_block_' = FALSE

MutantBranchInTarget(target, at) ==
  /\ code' = IF exited_block_ THEN code
             ELSE [code EXCEPT ![target] = Append(@, Instruction("br", {target}, at))]
  /\ loc' = IF exited_block_ THEN loc ELSE at
  /\ exited_block_' = FALSE

CloseBranch(target, at) ==
  /\ code' = IF exited_block_ THEN code ELSE Emitted(Instruction("br", {target}, at))
  /\ loc' = IF exited_block_ THEN loc ELSE at
  /\ exited_block_' = FALSE

(* A failed assert() ends the process where it stands.                     *)
Abort ==
  /\ aborted' = TRUE
  /\ UNCHANGED <<function_, exited_block_, current_loop_, dbg_scope_, source_code_,
                 insert, loc, entry, parent, code, blocks, stack>>

(* The client's side: which calls the running lambda may make.  Without    *)
(* liberties it makes none after an exit from the same block, creates no   *)
(* function inside another, and a condition lambda, which has a value to   *)
(* return, does not leave its block, not even from an if_ of its own.      *)
Conditions    == {"cond1", "cond2"}
InCondition   == \E i \in DOMAIN stack : stack[i].kind \in Conditions
MayCall ==
  /\ ~aborted /\ stack # <<>>
  /\ exited_block_ => "dead_code" \in Liberties
  /\ Len(source_code_) < MaxLines
HasRoom(b) == Cardinality({i \in DOMAIN code[b] : code[b][i].op \notin Terminators}) < MaxCode
MayAdd == MayCall /\ HasRoom(insert)
MayExit ==
  /\ MayCall
  /\ Top.kind \in Conditions => "dead_code" \in Liberties
  /\ InCondition => "exit_in_condition" \in Liberties
MayNest == MayCall /\ Len(stack) < MaxDepth
Returns(kinds) == ~aborted /\ stack # <<>> /\ Top.kind \in kinds

-----------------------------------------------------------------------------
(* Functions.                                                              *)

(* SetCurrentDebugLocation(llvm::DebugLoc{}) at the start of a function.   *)
MutantKeepLocation == loc
FreshLocation == NoLoc

(* mb.function_ = fn.                                                      *)
MutantFirstFunction(fn) == IF function_ = 0 THEN fn ELSE function_
FunctionToFill(fn) == fn

MutantNewFrame(kind) == [kind |-> kind, fn |-> function_, next_block |-> 0,
                         exit_block |-> 0, head_block |-> 0,
                         parent_scope |-> loc, parent_loop |-> NoLoop]

NewFrame(kind) == [kind |-> kind, fn |-> function_, next_block |-> 0,
                   exit_block |-> 0, head_block |-> 0,
                   parent_scope |-> dbg_scope_, parent_loop |-> NoLoop]

(* module_builder::create_function until the function's lambda starts.     *)
CreateFunction ==
  /\ ~aborted /\ Len(source_code_) < MaxLines /\ blocks < MaxBlocks
  /\ stack # <<>> => "nested_function" \in Liberties /\ MayNest
  /\ \E fn \in Function :
       /\ entry[fn] = 0 /\ \A f \in 1..(fn - 1) : entry[f] # 0
       /\ function_' = FunctionToFill(fn)
       /\ entry' = [entry EXCEPT ![fn] = blocks + 1]
       /\ parent' = [parent EXCEPT ![blocks + 1] = fn]
       /\ dbg_scope_' = [fn |-> fn, line |-> line_no_]
       /\ Push([NewFrame("function") EXCEPT !.fn = fn])
  /\ insert' = blocks + 1 /\ blocks' = blocks + 1
  /\ exited_block_' = FALSE /\ loc' = FreshLocation
  /\ add_line("function")
  /\ UNCHANGED <<current_loop_, code, aborted>>

(* The lambda returned: call_builder and function_builder do the rest.     *)
EndFunction ==
  /\ Returns({"function"})
  /\ add_line("end")
  /\ dbg_scope_' = Top.parent_scope
  /\ Pop
  /\ UNCHANGED <<function_, exited_block_, current_loop_, insert, loc, entry,
                 parent, code, blocks, aborted>>

-----------------------------------------------------------------------------
(* Straight-line statements.                                               *)

(* One source line and the instructions it stands for: load, store, call,  *)
(* variable::set, memcpy, memcmp.                                          *)
Statement ==
  /\ MayAdd
  /\ add_line("statement")
  /\ loc' = At(line_no_)
  /\ code' = Emitted(Instruction("op", {}, At(line_no_)))
  /\ UNCHANGED <<function_, exited_block_, current_loop_, dbg_scope_, insert, entry,
                 parent, blocks, stack, aborted>>

(* variable::get is an expression: it has no line, and its load takes      *)
(* whatever location the last statement left.                              *)
VariableGet ==
  /\ MayAdd
  /\ code' = Emitted(Instruction("get", {}, loc))
  /\ UNCHANGED <<function_, exited_block_, current_loop_, dbg_scope_, source_code_,
                 insert, loc, entry, parent, blocks, stack, aborted>>

(* variable::variable: the alloca goes to the top of the entry block, with *)
(* the location of the instruction that an IRBuilder set to the block's    *)
(* begin() finds there.                                                    *)
TopLocation(b) == IF code[b] = <<>> THEN NoLoc ELSE code[b][1].loc
Alloca == Instruction("alloca", {}, TopLocation(entry[function_]))
VariableDecl ==
  /\ MayCall /\ HasRoom(entry[function_])
  /\ code' = [code EXCEPT ![entry[function_]] = <<Alloca>> \o @]
  /\ add_line("declaration")
  /\ UNCHANGED <<function_, exited_block_, current_loop_, dbg_scope_, insert, loc,
                 entry, parent, blocks, stack, aborted>>

(* return_, break_ and continue_ end the block and say so in the flag.     *)
MutantForgetExit(kind, op, to) ==
  /\ exited_block_' = exited_block_
  /\ add_line(kind)
  /\ loc' = At(line_no_)
  /\ code' = Emitted(Instruction(op, to, At(line_no_)))
  /\ UNCHANGED <<function_, current_loop_, dbg_scope_, insert, entry, parent,
                 blocks, stack, aborted>>

Exit(kind, op, to) ==
  /\ exited_block_' = TRUE
  /\ add_line(kind)
  /\ loc' = At(line_no_)
  /\ code' = Emitted(Instruction(op, to, At(line_no_)))
  /\ UNCHANGED <<function_, current_loop_, dbg_scope_, insert, entry, parent,
                 blocks, stack, aborted>>

Return == MayExit /\ Exit("return", "ret", {})

(* assert(mb.current_loop_.break_block_), and its twin in continue_.       *)
Break ==
  /\ MayExit
  /\ IF current_loop_.break_block_ = 0 THEN Abort
     ELSE Exit("break", "br", {current_loop_.break_block_})

Continue ==
  /\ MayExit
  /\ IF current_loop_.continue_block_ = 0 THEN Abort
     ELSE Exit("continue", "br", {current_loop_.continue_block_})

-----------------------------------------------------------------------------
(* if_.                                                                    *)

(* Where a false condition goes: the first pending block.                  *)
MutantMergeBlock(pending) == blocks + 1 + pending
FalseBlock(pending) == blocks + 2

(* assert(!mb.exited_block_), after the two-way branch and before tb().    *)
(* A fresh true block is in the function at once, the pending blocks (the  *)
(* false one and the merge one, or the merge one only) are not.            *)
IfBegin(kind, pending) ==
  /\ MayNest /\ blocks + 1 + pending <= MaxBlocks
  /\ IF exited_block_ THEN Abort
     ELSE LET next  == blocks + 2
              merge == blocks + 1 + pending
          IN
            /\ add_line("if")
            /\ loc' = At(line_no_)
            /\ code' = Emitted(Instruction("condbr", {blocks + 1, FalseBlock(pending)}, At(line_no_)))
            /\ blocks' = blocks + 1 + pending
            /\ PlaceAndInsert(blocks + 1)
            /\ dbg_scope_' = LexicalBlock(dbg_scope_, line_no_ + 1)
            /\ Push([NewFrame(kind) EXCEPT
                       !.exit_block = merge,
                       !.next_block = IF next = merge THEN 0 ELSE next])
            /\ UNCHANGED <<function_, exited_block_, current_loop_, entry, aborted>>

IfElse == IfBegin("then_else", 2)
IfOnly == IfBegin("then", 1)

(* tb() returned and there is a false block.                               *)
Else ==
  /\ Returns({"then_else"})
  /\ add_line("else")
  /\ CloseBranch(Top.exit_block, [line |-> line_no_, scope |-> Top.parent_scope])
  /\ PlaceAndInsert(Top.next_block)
  /\ dbg_scope_' = LexicalBlock(Top.parent_scope, line_no_ + 1)
  /\ Replace([Top EXCEPT !.kind = "else", !.next_block = 0])
  /\ UNCHANGED <<function_, current_loop_, entry, blocks, aborted>>

(* The last lambda of an if_ returned.                                     *)
EndIf ==
  /\ Returns({"then", "else"})
  /\ add_line("end")
  /\ CloseBranch(Top.exit_block, [line |-> line_no_, scope |-> Top.parent_scope])
  /\ PlaceAndInsert(Top.exit_block)
  /\ dbg_scope_' = Top.parent_scope
  /\ Pop
  /\ UNCHANGED <<function_, current_loop_, entry, blocks, aborted>>

-----------------------------------------------------------------------------
(* while_.                                                                 *)

(* line_no = current_line() + 1, set before the condition runs.            *)
MutantCurrentLine == line_no_
WhileLine == line_no_ + 1

(* The condition lambda runs a first time, in the block before the loop:   *)
(* its value is printed, its instructions stay there.                      *)
WhileBegin ==
  /\ MayNest
  /\ loc' = At(WhileLine)
  /\ Push(NewFrame("cond1"))
  /\ UNCHANGED <<function_, exited_block_, current_loop_, dbg_scope_, source_code_,
                 insert, entry, parent, code, blocks, aborted>>

(* std::exchange(mb.current_loop_, loop{while_continue, while_break}), and *)
(* the condition lambda runs a second time, in the loop's head.            *)
WhileTest ==
  /\ Returns({"cond1"}) /\ blocks + 3 <= MaxBlocks
  /\ add_line("while")
  /\ code' = Emitted(Instruction("br", {blocks + 1}, loc))
  /\ blocks' = blocks + 3
  /\ PlaceAndInsert(blocks + 1)
  /\ current_loop_' = [continue_block_ |-> blocks + 1, break_block_ |-> blocks + 3]
  /\ Replace([Top EXCEPT !.kind = "cond2", !.head_block = blocks + 1,
                         !.next_block = blocks + 2, !.exit_block = blocks + 3,
                         !.parent_loop = current_loop_])
  /\ UNCHANGED <<function_, exited_block_, dbg_scope_, loc, entry, aborted>>

(* The branch on the condition, then assert(!mb.exited_block_), then bdy().*)
WhileBody ==
  /\ Returns({"cond2"})
  /\ IF exited_block_ THEN Abort
     ELSE /\ code' = Emitted(Instruction("condbr", {Top.next_block, Top.exit_block}, loc))
          /\ PlaceAndInsert(Top.next_block)
          /\ dbg_scope_' = LexicalBlock(dbg_scope_, line_no_)
          /\ Replace([Top EXCEPT !.kind = "body", !.next_block = 0,
                                 !.parent_scope = dbg_scope_])
          /\ UNCHANGED <<function_, exited_block_, current_loop_, source_code_, loc,
                         entry, blocks, aborted>>

MutantKeepLoop == current_loop_
ParentLoop == Top.parent_loop

(* bdy() returned.                                                         *)
EndWhile ==
  /\ Returns({"body"})
  /\ add_line("end")
  /\ CloseBranch(Top.head_block, [line |-> line_no_, scope |-> Top.parent_scope])
  /\ PlaceAndInsert(Top.exit_block)
  /\ dbg_scope_' = Top.parent_scope
  /\ current_loop_' = ParentLoop
  /\ Pop
  /\ UNCHANGED <<function_, entry, blocks, aborted>>

-----------------------------------------------------------------------------
Next ==
  \/ CreateFunction \/ EndFunction
  \/ Statement \/ VariableGet \/ VariableDecl
  \/ Return \/ Break \/ Continue
  \/ IfElse \/ IfOnly \/ Else \/ EndIf
  \/ WhileBegin \/ WhileTest \/ WhileBody \/ EndWhile

Spec == Init /\ [][Next]_vars

-----------------------------------------------------------------------------
(* Properties.                                                             *)

(* Every variable keeps the type of the C++ field it stands for.           *)
TypeOK ==
  /\ function_ \in 0..MaxFunctions /\ exited_block_ \in BOOLEAN
  /\ current_loop_ \in Loop /\ dbg_scope_ \in Scope
  /\ source_code_ \in Seq(LineKind)
  /\ insert \in 0..MaxBlocks /\ loc \in Location
  /\ entry \in [Function -> 0..MaxBlocks]
  /\ parent \in [Block -> 0..MaxFunctions]
  /\ code \in [Block -> Seq(Instr)]
  /\ blocks \in 0..MaxBlocks
  /\ stack \in Seq(Frame) /\ aborted \in BOOLEAN

HasTerminator(b) == \E i \in DOMAIN code[b] : code[b][i].op \in Terminators
Disciplined == Liberties \cap {"dead_code", "nested_function"} = {}

(* exited_block_, one flag for the whole module, agrees at every moment    *)
(* with the block instructions go to: if_ and while_ decide by the flag    *)
(* whether that block still needs a branch.  (A while_ entered after an    *)
(* exit is between its two blocks until its assert stops it.)              *)
ExitFlagTracksTerminator ==
  stack # <<>> =>
    /\ HasTerminator(insert) => exited_block_
    /\ exited_block_ => \/ HasTerminator(insert)
                        \/ ~Disciplined /\ Top.kind \in Conditions

(* The only block of the current function that may lack a terminator is    *)
(* the one being written: if_ and while_ leave none open behind them, even *)
(* when branches exit in the middle or a pending block is placed late.     *)
OnlyInsertionBlockOpen ==
  \A b \in Block : parent[b] # 0 /\ parent[b] = function_ /\ b # insert => HasTerminator(b)

(* No instruction follows a terminator: each block an exit or a branch     *)
(* closes stays as it is, whatever the lambdas around it do afterwards.    *)
NoCodeAfterTerminator ==
  \A b \in Block : \A i \in DOMAIN code[b] :
     code[b][i].op \in Terminators => i = Len(code[b])

(* Between functions no branch is left dangling: every block a branch goes *)
(* to was placed, and in the function of the branch (a pending merge or    *)
(* break block that is never pushed back would be a dangling pointer).     *)
BranchTargetsPlaced ==
  stack = <<>> => \A b \in Block : \A i \in DOMAIN code[b] :
                    \A t \in code[b][i].to : parent[t] = parent[b]

(* break_ and continue_ go to the innermost while_ whose blocks exist: the *)
(* saved parent loop comes back however the inner loop was left.           *)
LoopFrames == {i \in DOMAIN stack : stack[i].kind \in {"cond2", "body"}}
LoopIsInnermost ==
  current_loop_ =
    IF LoopFrames = {} THEN NoLoop
    ELSE LET top == stack[CHOOSE i \in LoopFrames : \A j \in LoopFrames : j <= i]
         IN [continue_block_ |-> top.head_block, break_block_ |-> top.exit_block]

(* An instruction's location belongs to the subprogram the instruction is  *)
(* in, including those that inherit the location an earlier one left.      *)
LocationInOwnFunction ==
  \A b \in Block : \A i \in DOMAIN code[b] :
     LET at == code[b][i].loc IN at # NoLoc => at.scope.fn = parent[b]

(* README.md: "CodeGen takes care of emitting all necessary debugging      *)
(* information" - stepping onto a two-way branch shows the if or while.    *)
BranchShowsItsStatement ==
  \A b \in Block : \A i \in DOMAIN code[b] :
     LET at == code[b][i].loc.line IN
     code[b][i].op = "condbr" /\ at \in DOMAIN source_code_ =>
       source_code_[at] \in {"if", "while"}

(* A function whose create_function returned is finished: building others  *)
(* neither adds a block to it nor touches the code of its blocks.          *)
Open(f) == \E i \in DOMAIN stack : stack[i].kind = "function" /\ stack[i].fn = f
Completed(f) == entry[f] # 0 /\ ~Open(f)
FunctionUnchanged(f) ==
  \A b \in Block : (parent[b] = f \/ parent'[b] = f) =>
                   parent'[b] = parent[b] /\ code'[b] = code[b]
CompletedFunctionsFrozen ==
  [][\A f \in Function : Completed(f) => FunctionUnchanged(f)]_vars
=============================================================================
