----------------------------- MODULE SourceText -----------------------------
(***************************************************************************)
(* What a reader of the generated .txt file concludes about control flow,  *)
(* set against the control-flow graph the same calls built.  The text is   *)
(* read line by line, as the structured program it looks like; nothing of  *)
(* the builder's state is used.                                            *)
(***************************************************************************)
EXTENDS ModuleBuilder, SequencesExt

(* Reading one line: `live' is whether control can be here, `scopes' the   *)
(* open braces, each with what is live at its opening (`before') and, for  *)
(* an else, at the end of the first branch (`joined').                     *)
OpenBrace(reader, brace) ==
  [reader EXCEPT !.scopes = Append(@, [brace |-> brace, before |-> reader.live,
                                       joined |-> FALSE])]

CloseBrace(reader) ==
  LET scope == Last(reader.scopes)
      after == CASE scope.brace = "else"        -> reader.live \/ scope.joined
                 [] scope.brace \in {"if", "while"} -> reader.live \/ scope.before
                 [] OTHER                       -> FALSE
  IN [live |-> after, scopes |-> Front(reader.scopes)]

ElseBrace(reader) ==
  LET scope == Last(reader.scopes) IN
  [live |-> scope.before,
   scopes |-> Append(Front(reader.scopes),
                     [brace |-> "else", before |-> scope.before, joined |-> reader.live])]

ReadLine(reader, kind) ==
  CASE kind = "function"                       -> OpenBrace([reader EXCEPT !.live = TRUE], kind)
    [] kind \in {"if", "while"}                -> OpenBrace(reader, kind)
    [] kind = "else"                           -> ElseBrace(reader)
    [] kind = "end"                            -> CloseBrace(reader)
    [] kind \in {"return", "break", "continue"} -> [reader EXCEPT !.live = FALSE]
    [] kind \in {"statement", "declaration"}   -> reader

ReaderOf(text) ==
  LET after[n \in 0..Len(text)] ==
        IF n = 0 THEN [live |-> FALSE, scopes |-> <<>>]
        ELSE ReadLine(after[n - 1], text[n])
  IN after[Len(text)]
Reader == ReaderOf(source_code_)

(* Control runs through a block up to its first terminator.                *)
Targets(instructions) ==
  LET exits == {i \in DOMAIN instructions : instructions[i].op \in Terminators}
  IN IF exits = {} THEN {}
     ELSE instructions[CHOOSE i \in exits : \A j \in exits : i <= j].to

(* What is reached from b, in a graph given by the successors of a block.  *)
ReachedIn(successors, b) ==
  LET steps[n \in 0..MaxBlocks] ==
        IF n = 0 THEN {b}
        ELSE LET before == steps[n - 1]
             IN before \cup UNION {successors[c] : c \in before}
  IN steps[MaxBlocks]

(* The blocks control reaches from the entry of the current function.      *)
Successors == [b \in Block |-> Targets(code[b])]
Reachable == IF function_ = 0 THEN {} ELSE ReachedIn(Successors, entry[function_])

(* Where control is, the text and the graph agree: what is emitted next    *)
(* can run exactly when a reader of the text written so far would say the  *)
(* next line can, through any nesting of branches, loops, breaks and       *)
(* returns (both branches of an if_ returning included).                   *)
TextAgreesOnReachability ==
  stack # <<>> => (Reader.live <=> insert \in Reachable /\ ~exited_block_)

(* The text of a function created in another's lambda is inside the text   *)
(* of the outer one, which the builder does not return to: the function    *)
(* being written is the innermost the text has open, or it is not.         *)
FunctionFrames == {i \in DOMAIN stack : stack[i].kind = "function"}
WritesWhatIsOpen ==
  stack # <<>> /\ stack[CHOOSE i \in FunctionFrames :
                          \A j \in FunctionFrames : j <= i].fn = function_

(* Whatever the client does - code after an exit, a condition lambda that  *)
(* leaves its block from inside an if_, functions inside functions - the   *)
(* text never calls dead what can run in the function it shows.            *)
TextNeverHidesLiveCode ==
  WritesWhatIsOpen => (insert \in Reachable /\ ~exited_block_ => Reader.live)

(* A function whose text ends in no live line (every path returned, or     *)
(* loops) has no reachable block without a terminator: nothing falls off   *)
(* the end of the generated code, whatever empty merge blocks remain.      *)
NothingFallsOffTheEnd ==
  stack = <<>> /\ source_code_ # <<>> /\ ~ReaderOf(Front(source_code_)).live =>
    \A b \in Reachable : HasTerminator(b)
=============================================================================
