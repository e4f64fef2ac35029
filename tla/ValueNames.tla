---------------------------- MODULE ValueNames ----------------------------
(***************************************************************************)
(* The names the listing gives to values.  A codegen::value pairs an SSA   *)
(* value, computed where the call that returned it emitted its             *)
(* instruction, with a name; the name is printed wherever the value is     *)
(* used later.  Straight-line code is run as it is generated, twice: as    *)
(* LLVM executes the instructions, and as a reader executes the lines.     *)
(***************************************************************************)
EXTENDS Naturals, FiniteSets

CONSTANTS
  Variable,   (* codegen::variables, by name; two have different names      *)
  Callee,     (* functions called, builtin::memcmp among them               *)
  Unit,       (* translation units of the client: each has an id_counter    *)
  Data,       (* what a variable or a value holds                           *)
  None,       (* nothing yet                                                *)
  MaxLoads,   (* bound: loads in one unit                                   *)
  Liberties   (* uses of a value that nothing prevents                      *)

ASSUME ValueNamesAssumption ==
  /\ None \notin Data /\ MaxLoads \in Nat
  /\ Liberties \subseteq {"late_use", "call_twice", "two_units"}

VARIABLES
  memory,     (* the allocas, as the instructions leave them                *)
  reads,      (* every name, as a reader of the lines would have it         *)
  held,       (* the values the client has got: name and SSA value          *)
  id_counter, (* detail::id_counter, one for each translation unit          *)
  stale       (* history, for the client: the values it got from a variable *)
              (* before it was set, or from a call before the next one      *)

vars == <<memory, reads, held, id_counter, stale>>

Name == {<<"variable", v>> : v \in Variable} \cup {<<"ret", f>> : f \in Callee}
        \cup {<<"val", i>> : i \in 0..MaxLoads}
value == [name : Name, data : Data]

Init ==
  /\ memory = [v \in Variable |-> None]
  /\ reads = [n \in Name |-> None]
  /\ held = {} /\ stale = {}
  /\ id_counter = [u \in Unit |-> 0]

(* A line gives the name a new meaning; the values of that name are still  *)
(* the client's to use.                                                    *)
Line(name, meaning) == reads' = [reads EXCEPT ![name] = meaning]
Named(name)         == {x \in held : x.name = name}

(* What the client uses: any value it has, but without the liberty none    *)
(* whose name it has given to another one since.                           *)
GivenTwice(i) == \E u, w \in Unit : u # w /\ id_counter[u] > i /\ id_counter[w] > i
Uses(x) ==
  /\ x \in stale /\ x.name[1] = "variable" => "late_use" \in Liberties
  /\ x \in stale /\ x.name[1] = "ret" => "call_twice" \in Liberties
  /\ x.name[1] = "val" /\ GivenTwice(x.name[2]) => "two_units" \in Liberties

(* variable::get: a load here and now, and no line.                        *)
Get(v) ==
  LET new == [name |-> <<"variable", v>>, data |-> memory[v]] IN
  /\ memory[v] # None
  /\ held' = held \cup {new} /\ stale' = stale \ {new}
  /\ UNCHANGED <<memory, reads, id_counter>>

(* variable::set, and the constructor with a value: `name = value;'.       *)
Set(v) ==
  LET name == <<"variable", v>> IN
  /\ \/ \E x \in held : /\ Uses(x)
                        /\ memory' = [memory EXCEPT ![v] = x.data]
                        /\ Line(name, reads[x.name])
     \/ \E d \in Data : /\ memory' = [memory EXCEPT ![v] = d]      (* a constant *)
                        /\ Line(name, d)
  /\ stale' = stale \cup Named(name)
  /\ UNCHANGED <<held, id_counter>>

(* load: `valN = *pointer', N from the counter of the unit that compiled   *)
(* it, whatever the pointer leads to.                                      *)
MutantSameId(u) == UNCHANGED id_counter
Increment(u) == id_counter' = [id_counter EXCEPT ![u] = @ + 1]

Load(u) ==
  LET name == <<"val", id_counter[u]>> IN
  /\ id_counter[u] < MaxLoads
  /\ \E d \in Data : held' = held \cup {[name |-> name, data |-> d]} /\ Line(name, d)
  /\ Increment(u)
  /\ UNCHANGED <<memory, stale>>

(* call and memcmp: `f_ret = f(...);', whatever the function returns.      *)
Call(f) ==
  LET name == <<"ret", f>> IN
  /\ \E d \in Data :
       LET new == [name |-> name, data |-> d] IN
       /\ held' = held \cup {new} /\ stale' = (stale \cup Named(name)) \ {new}
       /\ Line(name, d)
  /\ UNCHANGED <<memory, id_counter>>

Next ==
  \/ \E v \in Variable : Get(v) \/ Set(v)
  \/ \E u \in Unit : Load(u)
  \/ \E f \in Callee : Call(f)

Spec == Init /\ [][Next]_vars

-----------------------------------------------------------------------------
(* README.md: "human-readable source code".  Whatever the client does, and *)
(* however long it keeps the value, the name of a load is the value loaded *)
(* as long as no two translation units have given that name.               *)
LoadNamesKeepTheirMeaning ==
  \A x \in held : x.name[1] = "val" =>
                    reads[x.name] = x.data \/ GivenTwice(x.name[2])

(* Whoever executes the lines in their order finds in every variable what  *)
(* the code keeps in it.                                                   *)
VariablesReadAsWritten == \A v \in Variable : reads[<<"variable", v>>] = memory[v]
=============================================================================
