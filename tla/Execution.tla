----------------------------- MODULE Execution -----------------------------
(***************************************************************************)
(* Running the function that was built.  The module is compiled as it is   *)
(* and a thread executes its instructions one by one; branches go either   *)
(* way.  Beside the code stands the program the client wrote: the calls in *)
(* order, and for each instruction the call that emitted it.  A variable   *)
(* may be declared and read anywhere.  Its stack slot and its loads only   *)
(* go on to the next instruction: a thread passes them without a step.     *)
(***************************************************************************)
EXTENDS ModuleBuilder

ASSUME ExecutionAssumption == MaxFunctions = 1

VARIABLES
  pc,       (* the instruction to execute next                              *)
  program,  (* the calls made, as StructuredProgram has them                *)
  lines,    (* the lines of the text, but for those that declare variables  *)
  steps,    (* block -> its instructions, but for the variables' slots and  *)
            (* loads                                                        *)
  origin,   (* block -> for each of its steps the call that emitted it      *)
  at,       (* the call that is being executed                              *)
  turn      (* flips at each instruction that is not a plain branch         *)

record  == <<program, lines, steps, origin>>
allVars == <<vars, pc, record, at, turn>>

Idle     == [block |-> 0, index |-> 0]
Finished == [block |-> 0, index |-> 1]

ExecutionInit ==
  /\ Init
  /\ pc = Idle /\ program = <<>> /\ at = 0 /\ turn = FALSE /\ lines = <<>>
  /\ steps = [b \in Block |-> <<>>] /\ origin = [b \in Block |-> <<>>]

-----------------------------------------------------------------------------
(* Building, and writing down what was called.                             *)

Added(after, before) == SubSeq(after, Len(before) + 1, Len(after))
Written(token) ==
  /\ program' = Append(program, token)
  /\ lines' = lines \o Added(source_code_', source_code_)
  /\ steps' = [b \in Block |-> steps[b] \o Added(code'[b], code[b])]
  /\ origin' = [b \in Block |-> [i \in DOMAIN steps'[b] |->
                  IF i \in DOMAIN origin[b] THEN origin[b][i] ELSE Len(program')]]
Silently == UNCHANGED record
Building == pc = Idle /\ UNCHANGED <<pc, at, turn>>

Build ==
  \/ CreateFunction /\ Written("function")
  \/ EndFunction    /\ Written("end")
  \/ Statement      /\ Written("statement")
  \/ (VariableDecl \/ VariableGet) /\ Silently
  \/ Return         /\ Written("return")
  \/ Break          /\ Written("break")
  \/ Continue       /\ Written("continue")
  \/ (IfElse \/ IfOnly) /\ Written("if")
  \/ Else           /\ Written("else")
  \/ EndIf          /\ Written("end")
  \/ WhileBegin     /\ Silently
  \/ WhileTest      /\ Written("while")
  \/ WhileBody      /\ Written("do")
  \/ EndWhile       /\ Written("end")

-----------------------------------------------------------------------------
(* Running.                                                                *)

FellOff(c) == c.index > Len(steps[c.block])
Current(c) == steps[c.block][c.index]

(* What is executed next, looking past unconditional branches.             *)
Onward(c) ==
  IF c = Finished \/ FellOff(c) \/ Current(c).op # "br" THEN {c}
  ELSE {[block |-> b, index |-> 1] : b \in Current(c).to}
CallAt(c) ==
  IF c = Finished THEN Len(program) + 1
  ELSE IF FellOff(c) THEN Len(program) ELSE origin[c.block][c.index]
Ahead(c) ==
  LET ahead[n \in 0..MaxBlocks] ==
        IF n = 0 THEN {c} ELSE UNION {Onward(d) : d \in ahead[n - 1]}
  IN CHOOSE p \in {CallAt(d) : d \in ahead[MaxBlocks]} : TRUE

Continues(c) == pc' = c /\ at' = Ahead(c)

(* build(), get_address() and a call of the pointer.                       *)
Start ==
  /\ pc = Idle /\ function_ # 0 /\ stack = <<>> /\ ~aborted
  /\ Continues([block |-> entry[function_], index |-> 1])
  /\ UNCHANGED <<vars, record, turn>>

Execute ==
  /\ pc \notin {Idle, Finished} /\ ~FellOff(pc)
  /\ \/ Current(pc).op = "op" /\ Continues([pc EXCEPT !.index = @ + 1])
     \/ Current(pc).op \in {"br", "condbr"} /\ \E b \in Current(pc).to : Continues([block |-> b, index |-> 1])
     \/ Current(pc).op = "ret" /\ Continues(Finished)
  /\ turn' = (turn # (Current(pc).op # "br"))
  /\ UNCHANGED <<vars, record>>

ExecutionNext == (Building /\ Build) \/ Start \/ Execute

(* A thread that runs native code keeps running it; nobody has to build.   *)
ExecutionSpec == ExecutionInit /\ [][ExecutionNext]_allVars /\ WF_allVars(Execute)

-----------------------------------------------------------------------------
(* Properties.                                                             *)

(* The blocks if_, while_, break_, continue_ and return_ leave behind      *)
(* execute the calls as the structured program they are, including         *)
(* conditions with statements of their own (run once before the loop and   *)
(* at each test), and never spin between blocks without executing a call.  *)
(* Variables may be declared and read between any two of them.             *)
Calls == INSTANCE StructuredProgram
ImplementsTheCalls == Calls!Safety

(* ... and a thread that came to a call does execute it.                   *)
ExecutesTheCalls == Calls!Spec

(* What a reader of the text has before him: the condition of a while is   *)
(* in its line, so that its test comes right after the line and before     *)
(* the lines that follow.  He skips the declarations of variables, and     *)
(* reads a variable inside the line that uses it.                          *)
TestsSpelledOut ==
  LET calls(n) == Cardinality({i \in 1..n : lines[i] = "while"}) + n
      line(p)  == CHOOSE n \in 1..Len(lines) : p \in (calls(n - 1) + 1)..calls(n)
  IN [p \in 1..calls(Len(lines)) |->
        IF p < calls(line(p)) \/ lines[line(p)] # "while" THEN lines[line(p)] ELSE "do"]
Before(tokens, p) == Cardinality({q \in 1..(p - 1) : q \in DOMAIN program /\ program[q] \in tokens})
InText(p) == p + Before({"while"}, p) - Before({"do"}, p)
AtInText ==
  IF at \in DOMAIN program /\ program[at] = "do"
  THEN InText(Calls!Loop(at)) + 1
  ELSE InText(at)

(* README.md: "human-readable source code".  The lines of the text, read   *)
(* as a structured program, run as the blocks do.                          *)
Text == INSTANCE StructuredProgram WITH program <- TestsSpelledOut, at <- AtInText
RunsAsTheTextSays == Text!Safety

(* ... as long as the conditions of its loops, run in the loop's head,     *)
(* have no statements of their own.                                        *)
Pure ==
  \A p \in DOMAIN program :
    program[p] = "while" /\ p < Len(program) => program[p + 1] = "do"
PureText == INSTANCE StructuredProgram
              WITH program <- IF Pure THEN TestsSpelledOut ELSE <<>>,
                   at <- IF Pure THEN AtInText ELSE 0, turn <- Pure /\ turn
PureConditionsReadRight == PureText!Safety

(* A function without a loop returns, or reaches its end: control is never *)
(* caught between blocks.                                                  *)
Running == at \in DOMAIN program
LoopFreeFunctionsFinish ==
  Running /\ (\A p \in DOMAIN program : program[p] # "while") ~> at >= Len(program)
=============================================================================
