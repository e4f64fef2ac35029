# A TLA+ model of CodeGen

CodeGen (`src/README.md`) is a C++ wrapper over LLVM that generates and compiles
code at run time. A client creates a `compiler`, fills `module_builder`s by
passing C++ lambdas to `create_function`, `if_` and `while_`, builds them, and
asks the resulting `module` for function pointers. This directory models what
that takes: how nested lambdas become basic blocks, debug locations and readable
source text, and how several modules share one compiler's symbol table.

Checked with TLC, proved with TLAPS (each command takes seconds to a few minutes):

    tlc -config MCControlFlow.cfg MCModuleBuilder.tla
    tlc -config MCExecution.cfg MCExecution.tla
    tlc -config MCOperations.cfg MCOperations.tla
    tlapm ModuleBuilderProofs.tla
    tlapm TextProofs.tla
    tlapm ExecutionProofs.tla

## The system

| Component | State it keeps | Operations | What makes it correct |
|---|---|---|---|
| `module_builder` (`module_builder.hpp`, `module_builder.cpp`) | the thread-local `current_builder`, `function_`, `ir_builder_` (insertion block, debug location), `exited_block_`, `current_loop_`, `dbg_scope_`, `source_code_`, `module_`, `source_file_` | constructor, `create_function`, `declare_external_function`, `return_`, `build` | each function gets its own well-formed blocks; text and debug locations say what the blocks do |
| statements (`statements.hpp`, `statements.cpp`) | locals of the running calls: pending blocks, parent scope, parent loop | `if_`, `while_`, `break_`, `continue_`, `call`, `load`, `store` | no block left open or lost, no instruction after a terminator, jumps reach the innermost loop |
| `variable` (`variable.hpp`) | the alloca | constructor, `get`, `set` | the alloca is in the entry block; a `get` has a location of its own function |
| source text (in `module_builder`) | lines, indentation | `add_line`, `enter_scope`, `leave_scope` | what a reader concludes about control flow is true |
| `compiler` (`compiler.hpp`, `compiler.cpp`) | `external_symbols_`, the main JITDylib, `loaded_modules_`, `source_directory_` | constructor, destructor, `add_symbol`, the generator, the object-loaded callback | a name means the function it was given to; pointers stay valid |
| `module` (`module.hpp`) | reference to the session | `get_address` | the pointer is that of the reference's function |
| builtins (`builtin.hpp`) | none | `memcpy`, `memcmp`, `bswap` | memcmp links to the process's own |
| operators, casts, literals | none | expression templates | the value is that of the C++ expression |

Interactions. The builder runs the client's lambdas (callbacks), which call the
statements, which find the builder in the thread-local `current_builder` and
change its module-wide fields; each statement keeps what it must restore in C++
locals. Builders write the compiler's `external_symbols_` when an external
function is declared, and hand it the module in `build()`. Modules are compiled
lazily, when `get_address` looks a symbol up; the lookup calls the compiler's
generator for names no module defines.

What is hard here is mostly order: module-wide fields changed by nested
callbacks and restored from locals (`exited_block_`, `current_loop_`,
`dbg_scope_`, `function_`, the insertion point), and skipped restores when a
lambda throws; one pointer per thread by which statements find their builder; a
symbol table shared by modules that are declared, built, refused and linked at
different times; a process-wide GDB listener that outlives compilers. Then there
are conversions with edges: instruction selection by C++ type, and names in the
listing that outlive the value they were given to. The hazards, each at its
line, are listed in `PROJECT.json`.

## Modules

| Module | Models |
|---|---|
| `ModuleBuilder` | `module_builder` and the statements, while functions are filled |
| `SourceText` | a reader of the generated text, and the graph the blocks form |
| `Exceptions` | `ModuleBuilder` with lambdas that throw |
| `StructuredProgram` | the abstract specification: what `if_`, `while_`, `break_`, `continue_` and `return_` promise, without blocks |
| `Execution` | `ModuleBuilder` composed with a thread that runs the finished function |
| `Session` | `current_builder`: threads, several builders, exceptions, Debug and Release |
| `Compiler` | the compiler, its modules' names, linking, source files |
| `Debugger` | compilers' lives and what they tell GDB |
| `Operations` | arithmetic, relational and pointer operators, casts, constants, `bswap` |
| `ValueNames` | the names of values in the listing against the values in the code |
| `ModuleBuilderInvariant` | the inductive invariant of `ModuleBuilder`, in named parts |
| `ModuleBuilderProofs`, `TextProofs`, `ExecutionProofs` | theorems on function building, the text, and what the built function does |
| `SessionProofs`, `CompilerProofs`, `DebuggerProofs`, `ValueNamesProofs`, `OperationsProofs` | theorems on the other components |
| `MC...` | instances for TLC; the `.cfg` files give the bounds |

The modules have a constant `Liberties`: what the client does that the library
accepts, or only partly guards against. A run with no liberty says what the
library guarantees to a client who keeps to the library's idiom; each liberty
separately shows what is lost without it, or that nothing is.

### ModuleBuilder

A behaviour is one module being filled. The client is every client: at each
moment the innermost running lambda may make any call or return. The C++ call
stack is the variable `stack`, one frame per running lambda; a frame holds the
locals its caller uses afterwards: `next_block` and `exit_block` (the false,
merge, iteration and break blocks created but not yet pushed into the function),
`head_block` (`while_continue`), `parent_scope`, `parent_loop`. So `if_` with two
branches is three actions, `IfElse` (until `tb()`), `Else` (between `tb()` and
`fb()`) and `EndIf`; `while_` is `WhileBegin`, `WhileTest`, `WhileBody` and
`EndWhile`, because it runs its condition lambda twice, first before the loop and
again in the loop's head. `create_function` is `CreateFunction` and
`EndFunction`. The other actions are single calls. Each action does all its part
of the call does: line, location, instruction, flag, blocks, scope.

A block is a number; `parent[b]` is the function it was pushed into, 0 while it
is pending; `code[b]` are its instructions, each an opcode class, the blocks it
may go to, and its debug location. Names and operands are abstracted;
`Statement` is every call that prints one line and emits straight-line code
(`load`, `store`, `call`, `variable::set`, `memcpy`, `memcmp`). `VariableDecl`,
the constructor of a `variable`, prints a declaration and puts the stack slot at
the beginning of the entry block, whatever block is being written; the builder
it makes for that takes the location of the instruction that was first there.
`VariableGet` is a load with the location of whatever was emitted last. Debug
intrinsics (`dbg.value`, `dbg.declare`) are left out: LLVM places them before
the terminator itself. `assert` is checked as in a Debug build: when one fails,
the process stops (`aborted`).

`Liberties` says what the client does that the library does not, or only
partly, prevent. None: it makes no call after leaving a block, creates no
function in another's lambda, and a condition lambda does not leave its block.
`"dead_code"`, `"nested_function"` and `"exit_in_condition"` lift these one by
one.

### SourceText

`ReaderOf` reads the lines of a text one by one as a person would, braces and
all, and uses nothing else of the builder; `Reader` has read the text written so
far. `Reachable` is what the terminators say: the closure (`ReachedIn`) of the
entry block under the targets of each block's first terminator. The properties
compare the two.

### Exceptions

`Throw` unwinds to any lambda around the running one, or out of
`create_function`. It changes `stack` only, for nothing in the code is undone by
a destructor: the restores are assignments after the call of the lambda.
`Escapes` says what the client lets an exception leave: `"statement"`, the
exception is caught by a lambda of the same function, which goes on; `"loop"`, it
leaves a `while_`.

### StructuredProgram and Execution

`StructuredProgram` is a specification of three variables: the list of calls
(`program`), the call being executed (`at`) and a bit that makes executing a call
a visible step (`turn`). It knows brackets, not blocks: `EndOf`, `Loop` and
`Otherwise` find the end, the loop and the else of a call by counting openers
and ends. Conditions come out either way.

`Execution` extends `ModuleBuilder` with a program counter over blocks and
instructions. `Build` is any step of `ModuleBuilder`. Most are calls of the
structured program: `Written` appends the call to `program` and records it for
each instruction it emits (`steps` and `origin`) and for its line (`lines`).
Variables are no part of that program, wherever they are declared or read, in a
condition, say: their slots and loads are in the code, but they only go on to
the next instruction, so that they are no step of a thread, and a reader skips
the lines that declare them. `Start` is build, lookup and call; `Execute` is one
instruction. `at` is the call of the next instruction that is not a plain
branch. The refinement is

    Calls == INSTANCE StructuredProgram
    ImplementsTheCalls == Calls!Safety
    ExecutesTheCalls == Calls!Spec

a step of `Execute` is a step of the structured program or, for a plain branch,
a stutter; under the fairness of `Execute` a call that was come to is executed. The same abstract module is instantiated a second time over what the
*text* says, `Text == INSTANCE StructuredProgram WITH program <-
TestsSpelledOut, at <- AtInText`, where each line is a call and a `while` line
contains its test; `PureText` restricts that to functions whose loop conditions
contain no statement: they may still read variables.

### Session

A thread has a stack of running `create_function`s, each with the builder it is
of, the function number and the saved `prev_builder`. `Installed` is the
thread-local assignment; `AssertFails` is the assert of `create_function` and
`declare_external_function`, and `asserts` whether it is compiled in. A
`Statement` looks `current_builder` and then the builder's `function_` up, as
every statement does, and records the thread in `misplaced` if that is not the
function of the lambda it is in. Builders are used by one thread at a time.

### Operations

Expressions are built bottom up on a stack of operands. An operand is a C++ type,
the bits LLVM computes through the instruction the code selects
(`ArithmeticInstruction`, `Index`, `Converted`, `Relational`, ...), and the
number the C++ expression denotes, defined over integers (`CppArithmetic` and
its neighbours) with no mention of bits except for `&`, `|` and `^`, which are
set operations. A C++ `bool` is not an integer of one bit: a number brought to
it is whether it is not 0 (`Brought`), and the client needs a liberty to add
true to true, where LLVM's one bit says otherwise. The invariant relates the
two. Powers of two (`two`) and numbers
put together from digits (`Assembled`) are functions defined step by step, so that
the proofs can reason about them. The machine TLC runs is small (two bits in
a byte, two bytes in a word) but has signed and unsigned types of both sizes,
`bool`, pointers, and two floating-point types with NaN; overflow wraps at the
type's width, a signed overflow of a division and a division by zero are
undefined on both sides.

### ValueNames

Straight-line code is run as it is generated, once as LLVM executes it
(`memory`, and the `data` of each value) and once as a reader of the listing does
(`reads`). `held` are all values the client ever got: nothing in the code ends
the life of one, and its name stays what it was. `id_counter` has one counter per
translation unit, as `static inline` gives it. The liberties restrict only what
the client does with its values (`Uses`): without any it does not write with one
whose variable was set since (`"late_use"`), whose function was called again
(`"call_twice"`; `stale` is that history) or whose number two units have given
(`"two_units"`). It keeps them all.

### Debugger

One action per stage of a compiler's life; `Destroy` (the destructor's body,
which frees the keys in `loaded_modules_`) and `ReleaseCode` (the members, which
free the code) are apart, since GDB can look in between. Any number of modules
of any number of compilers may be in memory. The listener is LLVM's, external:
it holds the object registered last under a key, and the code gives no key, so
that all objects have the same one. A second registration frees the first
object, and leaves it in the list GDB reads.

### Compiler

Builders fill, build and look up in any order. A module's entities are the
`llvm::Function`s created in it, with the name asked for and the symbol LLVM
gave. LLVM is external, modelled by what this code relies on: `NewSymbol`
(a name in use gets the module's next number), `Clashes` and `Defined` (adding
a module defines all its functions or none), `Resolve`, `Reached`, `Broken`
(a lookup compiles and links everything it reaches; a module with a missing
symbol loses its own). `Generated` is the code's own generator.
When a lookup fails, which of the other modules it had already loaded is left
open; it may be tried again. Every declared function is taken to be called.
`Liberties` are again what nothing prevents: two functions of a name in a
module, a name declared or defined elsewhere too, two builders of one name, two
uses of memcmp in a module.

## Runs

| Run | Instance | Shows |
|---|---|---|
| `control_flow` | 1 function, 11 blocks, 9 lines, 5 lambdas deep, no liberties | blocks are closed, placed and reached as the text says; break and continue reach their loop; no execution falls off the end |
| `liberal` | 2 functions, 8 blocks, 8 lines, 4 deep, dead code, nested functions and exits in conditions | the inductive invariant `IInv`; the loop is still right; the text hides no live code |
| `exceptions` | 2 functions, 7 blocks, 5 lines, 4 deep, one client instruction a block, lambdas that throw | types; nothing after a terminator; locations, loops and finished functions kept apart, exceptions or not |
| `execution` | 1 function, 8 blocks, 5 lines, 2 client instructions a block, 4 deep, a variable declared and read twice, dead code and exits in conditions | the blocks implement `StructuredProgram`; the text runs as the blocks do if conditions are pure; a function without loops finishes |
| `compiler` | 3 modules, 3 names, 2 addresses, 3 functions each, no liberties | references, external calls, memcmp, pointers |
| `compiler_liberal` | 3 modules, 2 names, 1 address, 2 functions each, all liberties | what no client can break: types, links of loaded code, pointers handed out |
| `operations` | 2-bit bytes, 2-byte words, 2 operands | every operator, cast and literal on every value, one feeding the next |
| `value_names` | 2 variables, 1 callee, 2 units, 2 loads a unit, 2 data | the name of a load is never given to another value of its unit; variables read as the listing says, for a client that uses no value whose name it has given again |
| `session` | 2 threads, 3 builders, 3 functions each, 3 deep, Debug and Release | statements find their thread's innermost builder and function |
| `debugger` | 3 compilers, 3 modules, any number of objects in memory | what the listener holds is live code that will be freed; GDB forgets a module only for another, or when a compiler with code goes |
| `memcmp_twice`, `condition_twice` | small | two disagreements with the documentation, below |

Bounds. `MaxBlocks`, `MaxLines`, `MaxDepth`, `MaxCode`, `MaxFunctions`,
`MaxEntities`, `MaxLoads`, `MaxOperands` and `MaxReads` (with `FewVariables`, by
which `BoundedSpec` has one variable, read after it is declared; the theorems
have no such bound) occur only in guards of the client's
calls: they stop it from opening a further statement. A call that is running may
always return, so every opened statement is also closed (`WhileTest` needs three
blocks and may lack them; such a behaviour stays where it is). Eleven blocks and
nine lines hold an if-else in a loop in an if, or a loop in a loop with exits in
both, followed by more code: each statement reads only the module-wide fields and
its own frame, and two statements of each kind inside and after each other give
every combination of saved and current values. Two functions are enough for one
to be disturbed by the next, and what holds of them is proved for any number.
Three modules are one that provides, one that is refused or broken, and one that
uses. Three builders on two threads give a builder in another's lambda while a
third is in use elsewhere. Two integer sizes give every narrowing, widening and
change of sign. Symmetry is over builders, threads, addresses and file names,
none of which any definition singles out; no run with a liveness property uses
it.

`CHECK_DEADLOCK FALSE` is given everywhere: a client may stop calling, and
within the bounds it must.

Fairness. Building has none: every operation is a call that the client makes,
that runs to its end without waiting for anything, and that nothing obliges the
client to make. The one process that goes on by itself is a thread in generated
code, so `ExecutionSpec` assumes `WF_allVars(Execute)` and nothing else.
`ExecutesTheCalls` and `LoopFreeFunctionsFinish` follow from it; a function with a loop need not
finish, as its condition may always be true.

### Disagreements found

Two have a run of their own:

- `memcmp_twice` (`MemcmpLinks`): `builtin::memcmp` creates a function `memcmp`
  at every call; LLVM renames the second, no process exports that name, and the
  module cannot be linked. `src/README.md:300`: "`memcmp` is an external
  function".
- `condition_twice` (`RunsAsTheTextSays`): `while_` runs its condition lambda
  once before the loop, only to print its value, and again in the loop's head.
  The first run's statements stay in the function, so that a condition that
  stores or calls takes effect once more than the `while` line tests.
  `ImplementsTheCalls` holds with the calls as they are made, both runs included.

The others are reproduced by a configuration that violates one property, each
under one liberty or, for some, none (the module is in brackets):

| Configuration | Violates | What happens |
|---|---|---|
| `MCNested.cfg` (`MCModuleBuilder`) | `CompletedFunctionsFrozen` | the assert at `module_builder.hpp:385` admits `create_function` inside another function's lambda, but `function_`, the insertion point and the flags are not restored: the rest of the outer function is written into the inner one |
| `MCWhileLine.cfg` (`MCModuleBuilder`) | `BranchShowsItsStatement` | the branch of a `while_` is located at `current_line() + 1` (`statements.hpp:183`), the line after it |
| `MCStrayExit.cfg` (`MCExceptions`) | `StrayExitIsCaught` | after an exception out of a `while_`, a `break_` outside any loop passes its assert (`statements.cpp:29`) and branches to a block of the abandoned function |
| `MCThrowThenBuild.cfg` (`MCSession`) | `AssertionsHold` | after an exception out of `create_function`, `current_builder` stays set and the assert stops the next builder of the thread |
| `MCSameFunction.cfg` (`MCCompiler`) | `RefYieldsItsFunction` | the reference of a second function of one name yields the first |
| `MCSameFile.cfg` (`MCCompiler`) | `SourceFileShowsModule` | two builders of one name share a source file (`module_builder.cpp:37`) |
| `MCTwoObjects.cfg` (`MCDebugger`) | `GdbKnowsCallableCode` | every object is registered under the default key (`module_builder.cpp:55`): once a second module is loaded, GDB has no object to read for the first, which can still be called |
| `MCFreedObject.cfg` (`MCDebugger`) | `GdbReadsNoFreedObject` | the first object was freed then, but is still in the list GDB reads |
| `MCNanNotEqual.cfg` (`MCOperations`) | `ValueIsTheCppValue` | `!=` on floating point is `FCmpONE` (`relational_ops.hpp:85`), false for NaN |
| `MCCastToBool.cfg` (`MCOperations`) | `ValueIsTheCppValue` | `cast<bool>` truncates to one bit (`module_builder.hpp:282`): 2 is false |
| `MCBoolSum.cfg` (`MCOperations`) | `ValueIsTheCppValue` | `+` accepts `bool` and adds one bit (`arithmetic_ops.hpp:56`): true + true is false |
| `MCNoInstruction.cfg` (`MCOperations`) | `AcceptedIsWellFormed` | `bit_cast` between `bool` and a byte, and `bswap` of one byte, compile to instructions that do not exist |
| `MCLateUse.cfg` (`MCValueNames`) | `VariablesReadAsWritten` | a value got from a variable is named after it for ever; used after a `set` it is printed as the new value (`tests/variable.cpp:40-42`) |
| `MCCallTwice.cfg` (`MCValueNames`) | `VariablesReadAsWritten` | the results of all calls of `f` are named `f_ret`: a variable set to the first one after the second call is printed as if it got the second |
| `MCTwoUnits.cfg` (`MCValueNames`) | `VariablesReadAsWritten` | `id_counter` is `static` in a header: two translation units both name a value `val0` |

## What is proved

Nothing below assumes more than the named assumptions on the constants
(`BoundsAssumption`, `ExecutionAssumption`, `ExceptionsAssumption`, `SessionAssumption`,
`CompilerAssumption`, `DebuggerAssumption`, `ValueNamesAssumption`,
`OperationsAssumption`) and, where it says so, that the client does without some liberty.

`ModuleBuilderProofs`, for every value of the bounds and every set of liberties:

- `Invariance`: `Spec => []IInv`, and from it `TypeCorrect`, `ExitFlagCorrect`
  and `BlocksClosed`;
- `OneFunction`, and `FinishedFunctionsStay` for a client that does not nest
  functions (`MCNested.cfg` shows why it must not).

`OnlyInsertionBlockOpen` is not inductive. `EndIf` moves the insertion point to
the merge block: one must know that this block is still out of the function and
empty, that no other running lambda will place it too, and that the flag is right
about the block that is being left. Hence the parts of `IInv`:

- `FramesShaped`: which blocks each kind of lambda owes;
- `OwedUnplaced`, `OwedOnce`, `UnplacedEmpty`, `UncreatedUnplaced`: an owed block
  was created, is not placed, is owed by one frame only and is empty;
- `InsertionPlaced`, `FunctionsEntered`: instructions go to a placed block;
- `FunctionOutermost`, `ConditionLive`: what the client's discipline gives;
- the two safety properties themselves.

The proof has one lemma per action. Two shared lemmas carry the weight: a block
owed by the top frame may be placed once the insertion block is closed
(`PlaceBlock`), and pushing, popping and replacing frames keeps the debts apart
(`PushOwed`, `PopOwed`, `ReplaceOwed`). `FinishedFunctionsStay` adds that a step
other than the start of a function writes only to the insertion or the entry
block and places blocks only in `function_` (`StepEffect`).

Its second half goes on from `IInv`. Each theorem there rests on a lemma that says
what any step does to the state it is about, whatever the action:

- `LoopStaysInnermost` (exceptions included, if they leave no loop). Invariant
  `LoopsSaved`: at every level of the stack, the `parent_loop` a `while_` saved is
  the innermost loop of the frames below it. Steps push, pop or replace one frame
  (`StackStep`); an exception cuts the stack (`LoopsCut`).
- `TerminatorsAreLast` (client without dead code and nested functions). From
  `CodeStep`: code changes only by one instruction at the insertion block's end,
  added while `exited_block_` is false, or an alloca at the entry's beginning; the
  flag is right by `ExitFlagCorrect`.
- `LocationsStayInside` (no nested functions). Invariant `OwnScopes`: the current
  location, the current scope and every saved parent scope are of the function
  being filled, so that an inherited location is, too (`ScopeStep`).
- `TargetsArePlaced` (no nested functions). Invariant `TargetsKnown`: a branch
  goes to a block of its function or to one a running lambda still owes
  (`Debts`), and `HeadsPlaced` for `continue_`; `TargetStep` shows that what stops
  being owed has been placed. When no lambda runs nothing is owed.
- `UnwoundBuilderIsSound`, `UnwoundFunctionsStay` (exceptions from any lambda to
  any around it, no other liberty). An exception only cuts the stack (`Unwinds`):
  the blocks, the flag and the location stay as they are, and `IInv` is about a
  stack that any shorter one satisfies as well, but for one part. A `while_`
  whose condition comes to the top again must find the code live. It does, since
  nothing inside a condition is left by an exit: `ConditionsLive`, the invariant's
  addition. What an exception does spoil, the blocks left without a
  terminator and `loop_` itself, `MCStrayExit.cfg` shows.

`SessionProofs`, for any number of threads, builders and functions:
`LambdasFindTheirBuilder`, `LambdasWriteOwnFunction`, `IdleThreadsHaveNone`,
`AssertStopsMixing`. The invariant relates each saved `prev_builder` to the call
around it (`WellNested`, `OutermostFoundNone`); with the assert, all calls on a
thread are of one builder (`OneBuilder`), which is why not even an exception can
make a lambda find another's.

`DebuggerProofs`, for any number of compilers, modules and objects in memory
under the one key: `ListenerIsSound` and `ForgottenOnlyForAnother`. The invariant
(`DebuggerInv`) ties `loaded_modules_`, the listener and the code in memory
together; the counters of live compilers must be true (`CountsTrue`), or a
destructor would free another compiler's object, the key being the same. They are
what is left of GDB's support when several modules are loaded: that GDB knows
all of them, or reads nothing freed, is false (`MCTwoObjects.cfg`,
`MCFreedObject.cfg`).

`TextProofs`, for a client without liberties (`Careful`) and every value of the
bounds: `TextTellsReachability` and `NothingFallsOff`. `TextAgreesOnReachability`
speaks of one point of the text and is far from inductive: when a branch ends,
one must know what the reader will make of the code after it. The invariant
`TextInv` gives every open brace to a running lambda (`Matched`; only while_'s
first run of its condition has none) and says, for each kind of lambda, what the
reader's bits at that brace mean in the graph (`Agrees`): under a `then`, for
instance, the merge block is reached exactly if the code was live at the `if`;
under an `else`, exactly if the first branch ended alive. `Mirrors` adds that
live code is live all the way out, and that a condition is not left by its own
statements. The graph side rests on facts about the closure: it is the least set
closed under the successors (`ReachedLeast`), and a block that led nowhere and is
given its targets adds those to it, if it is reached itself and they are new and
empty, or reached already (`ReachedGrows`). That they are so, and that no other
lambda's blocks are touched (`OthersStand`), comes from `IInv`; that the head and
the break block `continue_` and `break_` go to are reached whenever live code
goes there (`LoopIsReached`) from `LoopsSaved`. `NothingFallsOff` combines this
with `TargetsKnown`, by which control stays inside the function, and
`BlocksClosed`.

`TextProofs`, second half, for every client: `TextHidesNothing`. Here `Reachable` may be
less than the text shows live, and no equality is to be had: an instruction after
an exit puts a second terminator into a block, whose targets nothing reaches; a
`break_` in a function inside a lambda goes to a block of another function. The
invariant `HideInv` therefore speaks of some set `S` of blocks that is closed
under branches and holds the entry (`Leads`); `Reachable`, the least such set, is
inside it. `Here` says that where `S` holds the insertion point the reader is
alive, or the block has already ended; `Covers`, for each running lambda, that a
block it owes is in `S` only if its brace says so (for a loop: exactly if). `S`
grows with the code (`Spread`) by blocks that are not in place yet, and starts
again with everything that exists when a function starts (`CreateFunctionShown`).
Only the function of the innermost function's lambda is spoken of: the builder
does not return to another one, which `OpenOnce` says.

`ExecutionProofs`, for every client and every value of the bounds:
`CallsImplemented`, the refinement `ExecutionSpec => Calls!Safety`. The invariant
has three parts.

- While the function is built, `Told`. `Aligned` gives each running lambda the
  call that opened its bracket, innermost last, and the depth of nesting there.
  `Recorded` ties `steps` to the code: what is open or ended in one is in the
  other; variables are declared and read without disturbing anything said here
  (`KeptTold`).
  `CodeTold` says of every instruction that can be executed (`Live`) that it does
  what its call says (`Carries`): what comes after an `op` is the next call; a
  `condbr` goes to the next call or where the `if` or the loop says; a `br` goes on
  as `else`, `break`, `continue` or `end` directs. "Goes to call q" means
  `Comes`: the next instruction there is from q, or will be, this being the open
  end of the insertion block. What is not written yet is owed: the end of a
  bracket or the else of an if is a block that the lambda on the stack keeps in
  `exit_block` or `next_block` (`Past`, `FalseTo`). Appending a call leaves what was
  said of earlier brackets alone (`BracketsStay`), and an action that ends a
  bracket puts its block where the next call will write (`PromisesKept`). That
  there is one open end, `ComesStays`, is `OnlyInsertionBlockOpen` again.
  Liberties matter at one place: a condition left by an exit makes the code
  untrue, and the assert in `while_` stops that client before it can run
  (`Doomed`).
- When the stack is empty no block is owed, and every branch directs as
  `StructuredProgram` does (`Directed`), whose `EndOf`, `Loop`, `Otherwise` and
  `Opener` are then determined by brackets that all have their end
  (`BracketEnds`, `CallsMeaning`).
- While it runs, `Stands`: `at` is where the calls come to rest from the call of
  the instruction at `pc`. The calls' `Settled` and the code's `Ahead` both go on a
  fixed number of times. `OrbitSettles` shows that this is enough: a function on a
  set of N + 1 elements under which a rank decreases until it changes nothing
  comes to rest within N steps. The rank is the position of the call, with
  `while` after everything that goes back to it: a `while` is followed by its
  condition, which contains a call that stops (`HeadsTold`). So branches never
  spin, and since each branch goes on as its call does (`Hopping`), code and calls
  come to rest at the same one (`AheadSettles`).

The same module proves `TextReadsRight`: as long as no condition has statements of
its own, the lines of the text, read as a structured program, run as the blocks do
(`PureConditionsReadRight`). Since the blocks run as the calls do, it is enough
that the text spells out the calls (`TextReads`) and that the reader is where the
calls are (`PlaceReads`). While the function is built, `Lined` relates the two:
each call but `do` has its line, and if no condition has had statements, a `do`
comes right after its `while`. `Lined` needs to know that a condition being built
is the last call (`Testing`). Counting then gives every call its place: the text
has shown as many `while` as `do` before any call that is not a `do`.

`CompilerProofs`, for any number of builders, names, addresses and entities:

- Whatever the client does, `CompilerTypeCorrect`, `LoadedCodeStaysLinked` and
  `PointersNeverDangle`. The invariant `LinkInv` claims a set of modules that
  holds every loaded one and every one a pointer leads to, none of them refused
  or broken, and is closed under calls (`Linked`). A lookup's own result is such a
  set: what it reaches and does not break. No later lookup can break a member,
  since everything it needs is inside. `CompilerTypeCorrect` needs a counting
  argument: the number LLVM appends to a name in use never exceeds the entities a
  module holds.
- For a client that uses a name once in a module and for one thing across modules,
  and memcmp once in a module (`Orderly`: at most two builders of one file name),
  `PointersAreOfTheFunction`, `ExternalCallsAreTrue`, `MemcmpIsTheProcess`. The
  invariant `OrderInv`: no symbol was renamed, a name is a function's or an
  external's everywhere (`KindsApart`), the compiler's table holds the address
  every module declared (`TableTrue`), and no module is broken. Two builders may
  still define one function: `build()` refuses the second.

`ValueNamesProofs`, for any variables, callees, units and loads. A name and the
value it stands for part where the name is given again.

- `LoadNamesKept`, for any client: two values are given one number only by two
  units. The invariant `NamesInv` adds that every number given is below some
  unit's counter: when it is given again, it is by another unit.
- `VariablesReadTrue`, without liberties (`Careful`): the client keeps what it
  got, but writes only with values whose name has not been given again.
  `FreshReadTrue` says of these that the reader and the code agree on them, and
  must follow what each call makes stale.

`OperationsProofs`, for every size of byte, word and floating-point type, every
array and every number of operands:

- `OperandsFitTheirTypes` and `GeneratedCodeComputesTheValue`. The second, for a
  client that compares no NaN with `!=`, casts only 0 and 1 to `bool` and adds no
  true to true (`Honest`), is inductive together with the first: each operator
  takes operands
  whose bits represent their number (`Faithful`) to a result whose bits do. For
  an integral type that means that the bits are the number modulo two to the
  width (`Represented`), whatever the sign, so `+`, `-`, `*`, casts and constants
  come down to remainders that combine (`RemaindersCombine`), and `&`, `|`, `^`
  to the digits of the two. Division has no such law: there the code must choose
  the instruction by the type's sign, and a quotient that fits the type must be
  the one LLVM forms (`DivisionComputes`), but for the least number divided by
  minus one, undefined on both sides. Pointers need the array to be shorter than
  half the address space: only then is an index extended as its type says, and
  negated as 0 - index, the element meant.
- `DivModAgree`: (x / y) * y + x % y is x, for whatever bits two operands have,
  from `OperandsFitTheirTypes` and the law of quotients.
- `AcceptedExpressionsCompile`, for a client that bit-casts no `bool` and swaps no
  single byte: two integral types of one size have one width, `bool` aside.

Where a definition is recursive, the proofs show that the function it describes
exists and is the only one, by induction over a set of naturals, which the
provers can be given as a constant, from the well-foundedness of `<`
(`NatSetInduction`, `StepwiseFunction`; the library's induction theorems take an
operator, which they cannot). These facts stand at the head of
`ModuleBuilderProofs`, which the proofs on text and execution extend, and are
repeated in `CompilerProofs` and `OperationsProofs`.

Only model-checked:

- `Execution`: `ExecutesTheCalls` and `LoopFreeFunctionsFinish` are liveness, beyond
  the prover;
- what the text says after an exception: the theorems on the text are about
  clients whose lambdas return.

## Not modelled

- A compiler shared by threads. `external_symbols_` and `loaded_modules_` have no
  lock, and nothing in the repository says that a compiler may be used by two
  threads; a client that does so has a data race whatever the order of the calls.
  Each call is one step in `Compiler` and `Debugger`.
- LLVM: symbol renaming, linking, the JITDylib, the registration listener and
  the instructions are modelled from how the code uses them. The optimisation
  pipeline and code generation (`compiler::optimize_module` only configures them)
  are taken to keep the meaning of the code.
- In a Release build, after an exception left `create_function` of one builder and
  was caught inside a lambda of another: statements then go to the wrong builder.
  `Session` shows that they may (`Sound` excludes the case), not where they end.
- `bit_cast` between pointers and to or from floating point, and floating-point
  literals: the floating-point types of `Operations` have numbers, not bits.
- Indentation, the spelling of expressions, file input and output, alignment
  arguments, type traits, the build files and the tests themselves.
- Debug intrinsics for variables and values, which LLVM places before the
  terminator itself.
