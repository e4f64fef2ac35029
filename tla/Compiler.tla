------------------------------ MODULE Compiler ------------------------------
(***************************************************************************)
(* codegen::compiler and what module_builders do to it: the names modules  *)
(* define and declare, the symbol table of LLVM's main JITDylib, external  *)
(* symbols, source files, lazy materialisation and get_address.            *)
(*                                                                         *)
(* LLVM is external and modelled by what this code relies on: a module     *)
(* renames a second function of one name, a JITDylib refuses a second      *)
(* definition of a symbol, a module is compiled and linked when one of its *)
(* symbols is first looked up, and a symbol once defined stays defined.    *)
(* Mangling is injective, so that a mangled name is the name here, and     *)
(* every function a module declares is one it calls.                       *)
(***************************************************************************)
EXTENDS Naturals, Sequences, FiniteSets

CONSTANTS
  Name,         (* what functions are called; Memcmp is one of them         *)
  Memcmp,       (* the name builtin::memcmp declares                        *)
  Address,      (* native functions a client may declare as external        *)
  Process,      (* the process's own native functions: [Names -> addresses] *)
  Builder,      (* module_builders, each used once                          *)
  File,         (* source file names                                        *)
  None,         (* no builder, no address, no definition                    *)
  MaxEntities,  (* bound: functions and declarations in one module          *)
  Liberties     (* what the client does that nothing prevents               *)

ASSUME CompilerAssumption ==
  /\ Memcmp \in Name /\ Memcmp \in DOMAIN Process /\ DOMAIN Process \subseteq Name
  /\ None \notin Address \cup Builder \cup {Process[n] : n \in DOMAIN Process}
  /\ MaxEntities \in Nat \ {0} /\ IsFiniteSet(Builder)
  /\ Liberties \subseteq {"same_function", "redeclare", "same_file", "memcmp_twice"}

VARIABLES
  status,            (* of a builder: unused, open, added to the JITDylib,  *)
                     (* loaded (compiled and linked), rejected by build(),  *)
                     (* or broken (its symbols could not be linked)         *)
  source_file_,      (* module_builder::source_file_                        *)
  entities,          (* module_builder::module_, the functions it holds     *)
  external_symbols_, (* compiler::external_symbols_                         *)
  dylib,             (* main JITDylib: symbol -> definition                 *)
  source_directory_, (* file -> the builder whose text it holds             *)
  pointers           (* what get_address returned, for which function_ref   *)

vars == <<status, source_file_, entities, external_symbols_, dylib,
          source_directory_, pointers>>

(* A symbol: the name asked for and the number LLVM appended, 0 for none.  *)
Symbol == [name : Name, suffix : 0..MaxEntities - 1]
Plain(name) == [name |-> name, suffix |-> 0]

(* An entity is an llvm::Function: one with a body, or a declaration.      *)
Entity == [kind : {"function", "external", "memcmp"}, name : Name,
           symbol : Symbol, address : Address \cup {None}]

Native == Address \cup {Process[n] : n \in DOMAIN Process}
(* A definition: function number `index' of a module, or native code.      *)
Undefined == [builder |-> None, index |-> 0, address |-> None]
InModule(b, i) == [builder |-> b, index |-> i, address |-> None]
Absolute(a) == [builder |-> None, index |-> 0, address |-> a]
Definition == {Undefined} \cup {InModule(b, i) : b \in Builder, i \in 1..MaxEntities}
                          \cup {Absolute(a) : a \in Native}

Init ==
  /\ status = [b \in Builder |-> "unused"]
  /\ source_file_ = [b \in Builder |-> None]
  /\ entities = [b \in Builder |-> <<>>]
  /\ external_symbols_ = [n \in Name |-> None]
  /\ dylib = [s \in Symbol |-> Undefined]
  /\ source_directory_ = [f \in File |-> None]
  /\ pointers = {}

-----------------------------------------------------------------------------
(* Filling a module.                                                       *)

(* llvm::Function::Create: a name in use gets the module's next number.    *)
MutantNumberAll(b, name) == [name |-> name, suffix |-> Len(entities[b]) + 1]
NewSymbol(b, name) ==
  LET renamed == {i \in DOMAIN entities[b] : entities[b][i].symbol.suffix # 0}
  IN IF \E i \in DOMAIN entities[b] : entities[b][i].symbol = Plain(name)
     THEN [name |-> name, suffix |-> Cardinality(renamed) + 1]
     ELSE Plain(name)

Add(b, kind, name, address) ==
  /\ status[b] = "open" /\ Len(entities[b]) < MaxEntities
  /\ entities' = [entities EXCEPT ![b] =
                    Append(@, [kind |-> kind, name |-> name,
                               symbol |-> NewSymbol(b, name), address |-> address])]

Holds(b, kinds, name) ==
  \E i \in DOMAIN entities[b] : entities[b][i].kind \in kinds /\ entities[b][i].name = name

Functions(b) == {i \in DOMAIN entities[b] : entities[b][i].kind = "function"}

(* module_builder::module_builder.                                         *)
Open(b) ==
  \E file \in File :
    /\ status[b] = "unused"
    /\ (\E c \in Builder : source_file_[c] = file) => "same_file" \in Liberties
    /\ status' = [status EXCEPT ![b] = "open"]
    /\ source_file_' = [source_file_ EXCEPT ![b] = file]
    /\ UNCHANGED <<entities, external_symbols_, dylib, source_directory_, pointers>>

(* module_builder::create_function, as far as the compiler is concerned.   *)
CreateFunction(b) ==
  \E name \in Name :
    /\ Holds(b, {"function"}, name) => "same_function" \in Liberties
    /\ \/ /\ name # Memcmp
          /\ \A c \in Builder : ~Holds(c, {"external"}, name)
       \/ "redeclare" \in Liberties
    /\ Add(b, "function", name, None)
    /\ UNCHANGED <<status, source_file_, external_symbols_, dylib, source_directory_,
                   pointers>>

(* compiler::add_symbol: the table is the compiler's, every module's, and  *)
(* written before the module is built.                                     *)
add_symbol(name, address) == external_symbols_' = [external_symbols_ EXCEPT ![name] = address]

(* module_builder::declare_external_function.                              *)
DeclareExternal(b) ==
  \E name \in Name, address \in Address :
    /\ Holds(b, {"external"}, name) => "same_function" \in Liberties
    /\ \/ /\ external_symbols_[name] \in {None, address} /\ name # Memcmp
          /\ \A c \in Builder : ~Holds(c, {"function"}, name)
       \/ "redeclare" \in Liberties
    /\ Add(b, "external", name, address)
    /\ add_symbol(name, address)
    /\ UNCHANGED <<status, source_file_, dylib, source_directory_, pointers>>

(* builtin::memcmp, in the body of a function: the callee is declared at    *)
(* every call, and without an address.                                     *)
CallMemcmp(b) ==
  /\ Functions(b) # {}
  /\ Holds(b, {"memcmp"}, Memcmp) => "memcmp_twice" \in Liberties
  /\ Add(b, "memcmp", Memcmp, None)
  /\ UNCHANGED <<status, source_file_, external_symbols_, dylib, source_directory_,
                 pointers>>

-----------------------------------------------------------------------------
(* module_builder::build.                                                  *)

Declared(b)  == {entities[b][i].symbol : i \in DOMAIN entities[b] \ Functions(b)}

(* optimize_layer_.add: all symbols of the module, or none and an error.   *)
MutantNoClash(b) == FALSE
Clashes(b) == \E i \in Functions(b) : dylib[entities[b][i].symbol] # Undefined

Defined(b) ==
  [s \in Symbol |->
     IF \E i \in Functions(b) : entities[b][i].symbol = s
     THEN InModule(b, CHOOSE i \in Functions(b) : entities[b][i].symbol = s)
     ELSE dylib[s]]

(* The text is written first, whatever becomes of the module.              *)
Build(b) ==
  /\ status[b] = "open"
  /\ source_directory_' = [source_directory_ EXCEPT ![source_file_[b]] = b]
  /\ IF Clashes(b)
     THEN status' = [status EXCEPT ![b] = "rejected"] /\ UNCHANGED dylib
     ELSE status' = [status EXCEPT ![b] = "added"] /\ dylib' = Defined(b)
  /\ UNCHANGED <<source_file_, entities, external_symbols_, pointers>>

-----------------------------------------------------------------------------
(* module::get_address: a lookup by name, which compiles and links what it *)
(* reaches and has not been loaded yet.  It may be asked again after it    *)
(* failed.                                                                 *)

(* The generator: external_symbols_ first, then the process.               *)
MutantDeclaredOnly(s) ==
  IF s.suffix = 0 /\ external_symbols_[s.name] # None
  THEN Absolute(external_symbols_[s.name]) ELSE Undefined
MutantProcessFirst(s) ==
  IF s.suffix = 0 /\ s.name \in DOMAIN Process THEN Absolute(Process[s.name])
  ELSE MutantDeclaredOnly(s)
Generated(s) ==
  IF s.suffix # 0 THEN Undefined
  ELSE IF external_symbols_[s.name] # None THEN Absolute(external_symbols_[s.name])
  ELSE IF s.name \in DOMAIN Process THEN Absolute(Process[s.name])
  ELSE Undefined

Resolve(s) == IF dylib[s] # Undefined THEN dylib[s] ELSE Generated(s)

(* The modules a lookup of the symbols compiles, each with what it calls;  *)
(* no chain of calls needs more steps than there are modules.              *)
Owners(symbols) == {dylib[s].builder : s \in symbols} \ {None}
Reached(symbols) ==
  LET within[n \in 0..Cardinality(Builder)] ==
        IF n = 0 THEN Owners(symbols)
        ELSE LET before == within[n - 1]
             IN before \cup Owners(UNION {Declared(b) : b \in before})
  IN within[Cardinality(Builder)]
Wanted(symbols) ==
  symbols \cup UNION {Declared(b) : b \in {c \in Reached(symbols) : status[c] = "added"}}

(* A module that cannot be linked loses its symbols; what else the lookup  *)
(* reached may or may not have been loaded when the error came.            *)
Broken(symbols) ==
  {b \in Reached(symbols) : \E s \in Wanted(Declared(b)) : Resolve(s) = Undefined}

GetAddress(b) ==
  \E i \in DOMAIN entities[b] :
    LET ref    == entities[b][i]
        symbol == Plain(ref.name)
        broken == Broken({symbol})
        linked == [s \in Symbol |->
                     IF dylib[s].builder \in broken THEN Undefined
                     ELSE IF s \in Wanted({symbol}) THEN Resolve(s) ELSE dylib[s]]
        reached == {c \in Reached({symbol}) \ broken : status[c] = "added"}
    IN
      /\ status[b] \in {"added", "loaded", "broken"} /\ ref.kind # "memcmp"
      /\ dylib' = linked
      /\ \E loaded \in SUBSET reached :
           /\ broken = {} => loaded = reached
           /\ status' = [c \in Builder |-> IF c \in broken THEN "broken"
                                           ELSE IF c \in loaded THEN "loaded"
                                           ELSE status[c]]
      /\ pointers' = IF linked[symbol] = Undefined \/ broken # {} THEN pointers
                     ELSE pointers \cup {[builder |-> b, index |-> i, target |-> linked[symbol]]}
      /\ UNCHANGED <<source_file_, entities, external_symbols_, source_directory_>>

-----------------------------------------------------------------------------
Next ==
  \E b \in Builder :
    \/ Open(b) \/ CreateFunction(b) \/ DeclareExternal(b) \/ CallMemcmp(b)
    \/ Build(b) \/ GetAddress(b)

Spec == Init /\ [][Next]_vars

-----------------------------------------------------------------------------
(* Properties.                                                             *)

(* Every variable keeps the type of the C++ or LLVM object it stands for.  *)
TypeOK ==
  /\ status \in [Builder -> {"unused", "open", "added", "loaded", "rejected", "broken"}]
  /\ source_file_ \in [Builder -> File \cup {None}]
  /\ entities \in [Builder -> Seq(Entity)]
  /\ external_symbols_ \in [Name -> Address \cup {None}]
  /\ dylib \in [Symbol -> Definition]
  /\ source_directory_ \in [File -> Builder \cup {None}]
  /\ pointers \subseteq [builder : Builder, index : 1..MaxEntities, target : Definition]

(* README.md: create_function "returns a function reference that can be    *)
(* used to obtain a pointer to the function after the module is compiled". *)
(* The pointer is to that function, or to the native function declared.    *)
RefYieldsItsFunction ==
  \A p \in pointers :
    LET ref == entities[p.builder][p.index] IN
    p.target = IF ref.kind = "function" THEN InModule(p.builder, p.index)
               ELSE Absolute(ref.address)

(* A loaded module calls, for each external function it declared, the      *)
(* address it was declared with, whichever modules were built, looked up   *)
(* or declared in between, on the one table they all share.                *)
ExternalCallsReachDeclaration ==
  \A b \in Builder : status[b] = "loaded" =>
    \A i \in DOMAIN entities[b] :
      LET e == entities[b][i] IN
      e.kind = "external" => dylib[e.symbol] = Absolute(e.address)

(* README.md on the string comparator: memcmp "is an external function".   *)
(* A module that calls it any number of times links to the process's one.  *)
MemcmpLinks ==
  \A b \in Builder :
    /\ status[b] # "broken"
    /\ status[b] = "loaded" => \A i \in DOMAIN entities[b] :
         entities[b][i].kind = "memcmp" =>
           dylib[entities[b][i].symbol] = Absolute(Process[Memcmp])

(* A loaded module never jumps into code that is gone: whatever was        *)
(* rejected or failed to link since, every symbol it calls is still        *)
(* defined, by native code or by a function of a module that was accepted. *)
CallsStayLinked ==
  \A b \in Builder : status[b] = "loaded" =>
    \A s \in Declared(b) :
      /\ dylib[s] # Undefined
      /\ dylib[s].builder # None => status[dylib[s].builder] \in {"added", "loaded"}

(* The source file a module's debug information names holds the text of    *)
(* that module, and not of one built (or refused) later.                   *)
SourceFileShowsModule ==
  \A b \in Builder : status[b] \in {"added", "loaded"} /\ Functions(b) # {} =>
                       source_directory_[source_file_[b]] = b

(* README.md: "All function pointers to the compiled code remain valid     *)
(* during its lifetime": whatever is built or looked up later, a symbol    *)
(* handed out keeps its definition, so that asking again gives the same.   *)
PointersStayValid ==
  [][\A p \in pointers :
       LET symbol == Plain(entities[p.builder][p.index].name) IN
       p \in pointers' /\ dylib'[symbol] = p.target]_vars
=============================================================================
