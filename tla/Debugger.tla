------------------------------ MODULE Debugger ------------------------------
(***************************************************************************)
(* Compilers, one after the other or side by side in one process, and what *)
(* they tell GDB about the code in memory.                                 *)
(*                                                                         *)
(* LLVM's registration listener is external: one for the whole process, it *)
(* holds the debug object registered last under each key and links it into *)
(* the list GDB reads.  A second registration under a key frees the first  *)
(* object, and leaves it in GDB's list.                                    *)
(***************************************************************************)
EXTENDS Naturals, FiniteSets

CONSTANTS
  Compiler,
  Module,     (* modules: each is compiled to one object                    *)
  None

ASSUME DebuggerAssumption == None \notin Module /\ None \notin Compiler

VARIABLES
  life,            (* of a compiler: unused, alive, destructor run, gone    *)
  owner,           (* module -> the compiler it was built with              *)
  memory,          (* modules whose code is in memory                       *)
  loaded_modules_, (* compiler -> its objects' keys and how often each      *)
  held,            (* listener: key -> the module registered under it       *)
  listed           (* modules in the list GDB reads                         *)

vars == <<life, owner, memory, loaded_modules_, held, listed>>

(* optimize_layer_.add(JITDylib, module): no key is given, so that all     *)
(* have the default one.                                                   *)
Key    == {0}
KeyOf(m) == 0

Init ==
  /\ life = [c \in Compiler |-> "unused"]
  /\ owner = [m \in Module |-> None]
  /\ memory = {} /\ listed = {}
  /\ loaded_modules_ = [c \in Compiler |-> [k \in Key |-> 0]]
  /\ held = [k \in Key |-> None]

(* compiler::compiler. *)
Construct(c) ==
  /\ life[c] = "unused"
  /\ life' = [life EXCEPT ![c] = "alive"]
  /\ UNCHANGED <<owner, memory, loaded_modules_, held, listed>>

(* module_builder::build, with everything before it.                       *)
Build(c, m) ==
  /\ life[c] = "alive" /\ owner[m] = None
  /\ owner' = [owner EXCEPT ![m] = c]
  /\ UNCHANGED <<life, memory, loaded_modules_, held, listed>>

(* The first get_address of the module compiles it, and the object layer   *)
(* calls back: notifyObjectLoaded, then loaded_modules_.emplace_back.      *)
MutantUnrecorded(c, k) == loaded_modules_
Recorded(c, k) == [loaded_modules_ EXCEPT ![c][k] = @ + 1]

GetAddress(m) ==
  /\ owner[m] # None /\ life[owner[m]] = "alive" /\ m \notin memory
  /\ memory' = memory \cup {m}
  /\ held' = [held EXCEPT ![KeyOf(m)] = m]
  /\ listed' = listed \cup {m}
  /\ loaded_modules_' = Recorded(owner[m], KeyOf(m))
  /\ UNCHANGED <<life, owner>>

(* compiler::~compiler frees the keys of its objects, which takes what is  *)
(* held under them from GDB's list; freeing a key nothing is held under    *)
(* does nothing.  The code goes with the members, after the body.          *)
MutantEveryKey(c) == Key
Freed(c) == {k \in Key : loaded_modules_[c][k] > 0}

Destroy(c) ==
  /\ life[c] = "alive"
  /\ life' = [life EXCEPT ![c] = "destroyed"]
  /\ listed' = listed \ {held[k] : k \in Freed(c)}
  /\ held' = [k \in Key |-> IF k \in Freed(c) THEN None ELSE held[k]]
  /\ UNCHANGED <<owner, memory, loaded_modules_>>

ReleaseCode(c) ==
  /\ life[c] = "destroyed"
  /\ life' = [life EXCEPT ![c] = "gone"]
  /\ memory' = {m \in memory : owner[m] # c}
  /\ UNCHANGED <<owner, loaded_modules_, held, listed>>

Next ==
  \/ \E c \in Compiler :
       Construct(c) \/ Destroy(c) \/ ReleaseCode(c) \/ \E m \in Module : Build(c, m)
  \/ \E m \in Module : GetAddress(m)

Spec == Init /\ [][Next]_vars

-----------------------------------------------------------------------------
(* Properties.                                                             *)

(* What the listener holds it will hand to GDB, and free, by its key: it   *)
(* is in GDB's list, and the code it describes is in memory and of a       *)
(* compiler that is still to free it, through the lives and deaths of any  *)
(* compilers that share the key.                                           *)
ListenerHoldsLiveCode ==
  \A k \in Key : held[k] # None =>
    /\ held[k] \in listed \cap memory
    /\ life[owner[held[k]]] = "alive"

(* GDB is told of a module and can read what it was told.                  *)
Known(m) == m \in listed /\ \E k \in Key : held[k] = m

(* GDB forgets a module only when a compiler that has code in memory is    *)
(* destroyed, or when another is loaded: one that has loaded nothing takes *)
(* nobody's code from it.                                                  *)
Replaced(m) == \E n \in Module \ {m} : Known(n)' /\ n \notin memory
Freeing     == \E c \in Compiler : /\ life[c] = "alive" /\ life'[c] = "destroyed"
                                   /\ \E n \in memory : owner[n] = c
KnownUntilReplaced ==
  [][\A m \in Module : Known(m) => Known(m)' \/ Replaced(m) \/ Freeing]_vars

(* README.md: "informing GDB about the JIT-ed functions".  Two modules in  *)
(* memory are enough to refute both.  GDB is told of all code a client can *)
(* call, and can read what it was told ...                                 *)
GdbKnowsCallableCode == \A m \in memory : life[owner[m]] = "alive" => Known(m)

(* ... and its list never names an object that was freed, or whose code is *)
(* gone.                                                                   *)
GdbReadsNoFreedObject == \A m \in listed : m \in memory /\ Known(m)
=============================================================================
