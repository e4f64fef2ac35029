---------------------------- MODULE MCExecution ----------------------------
(* Small instances of Execution for TLC: see the .cfg files.               *)
EXTENDS Execution

CONSTANT MaxReads

(* A client that declares one variable and then reads it a few times.      *)
Emissions(op) ==
  UNION {{<<b, i>> : i \in {j \in DOMAIN code[b] : code[b][j].op = op}} : b \in Block}
FewVariables ==
  /\ VariableDecl => Emissions("alloca") = {}
  /\ VariableGet  => Emissions("alloca") # {} /\ Cardinality(Emissions("get")) < MaxReads
BoundedSpec ==
  ExecutionInit /\ [][ExecutionNext /\ FewVariables]_allVars /\ WF_allVars(Execute)

(* A client whose conditions make the same calls at both runs: what is     *)
(* written after the "while" repeats what is written before it.            *)
LastWhile == Calls!Last({p \in DOMAIN program : program[p] = "while"})
Repeats ==
  LET second == SubSeq(program, LastWhile + 1, Len(program))
  IN /\ LastWhile - Len(second) > 0
     /\ second = SubSeq(program, LastWhile - Len(second), LastWhile - 1)
RepeatingSpec ==
  ExecutionInit /\ [][ExecutionNext /\ FewVariables /\ (WhileBody => Repeats)]_allVars
=============================================================================
