--------------------------- MODULE DebuggerProofs ---------------------------
(***************************************************************************)
(* What holds of the debugger's list for any number of compilers, modules  *)
(* and objects in memory, although all objects share one key.  It has to   *)
(* be proved across a gap: a compiler's destructor has told GDB to forget  *)
(* its object before the members that hold the code are gone.              *)
(***************************************************************************)
EXTENDS Debugger, TLAPS

Counts == [Compiler -> [Key -> Nat]]

DebuggerTypes ==
  /\ life \in [Compiler -> {"unused", "alive", "destroyed", "gone"}]
  /\ owner \in [Module -> Compiler \cup {None}]
  /\ memory \subseteq Module /\ listed \subseteq Module
  /\ loaded_modules_ \in Counts /\ held \in [Key -> Module \cup {None}]

(* The object that is held is one its compiler has recorded; what a living *)
(* compiler has recorded is in memory.                                     *)
HeldCounted == held[0] # None => loaded_modules_[owner[held[0]]][0] > 0
CountsTrue  == \A c \in Compiler :
                 life[c] = "alive" /\ loaded_modules_[c][0] > 0 => \E m \in memory : owner[m] = c
OwnersKnown == \A m \in memory : owner[m] \in Compiler
UnusedEmpty == \A c \in Compiler : life[c] = "unused" => loaded_modules_[c][0] = 0
DebuggerInv ==
  /\ DebuggerTypes /\ ListenerHoldsLiveCode
  /\ HeldCounted /\ CountsTrue /\ OwnersKnown /\ UnusedEmpty

LEMMA OneKey ==
  ASSUME DebuggerInv
  PROVE  /\ held[0] \in Module \cup {None} /\ 0 \in Key
         /\ held[0] # None => /\ held[0] \in Module /\ held[0] \in listed /\ held[0] \in memory
                              /\ owner[held[0]] \in Compiler /\ life[owner[held[0]]] = "alive"
BY DEF DebuggerInv, DebuggerTypes, ListenerHoldsLiveCode, OwnersKnown, Key

LEMMA DebuggerInit == Init => DebuggerInv
<1>. SUFFICES ASSUME Init PROVE DebuggerInv OBVIOUS
<1>1. loaded_modules_ \in Counts BY DEF Init, Counts
<1>2. DebuggerTypes BY <1>1 DEF Init, DebuggerTypes
<1>. QED
  BY <1>2 DEF Init, DebuggerInv, ListenerHoldsLiveCode, HeldCounted, CountsTrue, OwnersKnown,
              UnusedEmpty, Key

LEMMA ConstructStep ==
  ASSUME DebuggerInv, NEW c \in Compiler, Construct(c)
  PROVE  DebuggerInv'
<1>1. /\ life' = [life EXCEPT ![c] = "alive"] /\ life[c] = "unused"
      /\ UNCHANGED <<owner, memory, loaded_modules_, held, listed>>
  BY DEF Construct
<1>2. DebuggerTypes' /\ \A d \in Compiler : life[d] = "alive" => life'[d] = "alive"
  BY <1>1 DEF DebuggerInv, DebuggerTypes
<1>3. \A d \in Compiler : d # c => life'[d] = life[d]
  BY <1>1 DEF DebuggerInv, DebuggerTypes
<1>4. loaded_modules_[c][0] = 0 BY <1>1 DEF DebuggerInv, UnusedEmpty
<1>5. CountsTrue' BY <1>1, <1>3, <1>4 DEF DebuggerInv, CountsTrue
<1>6. ListenerHoldsLiveCode' BY <1>1, <1>2, OneKey DEF ListenerHoldsLiveCode, Key
<1>. QED
  BY <1>1, <1>2, <1>3, <1>4, <1>5, <1>6 DEF DebuggerInv, HeldCounted, OwnersKnown, UnusedEmpty

LEMMA BuildStep ==
  ASSUME DebuggerInv, NEW c \in Compiler, NEW m \in Module, Build(c, m)
  PROVE  DebuggerInv'
<1>1. /\ owner' = [owner EXCEPT ![m] = c] /\ owner[m] = None
      /\ UNCHANGED <<life, memory, loaded_modules_, held, listed>>
  BY DEF Build
<1>2. DebuggerTypes' /\ \A n \in Module : n # m => owner'[n] = owner[n]
  BY <1>1 DEF DebuggerInv, DebuggerTypes
<1>3. m \notin memory BY <1>1, DebuggerAssumption DEF DebuggerInv, OwnersKnown
<1>4. \A n \in memory : owner'[n] = owner[n]
  BY <1>2, <1>3 DEF DebuggerInv, DebuggerTypes
<1>5. OwnersKnown' BY <1>1, <1>4 DEF DebuggerInv, OwnersKnown
<1>6. ListenerHoldsLiveCode' /\ HeldCounted'
  BY <1>1, <1>4, OneKey DEF DebuggerInv, ListenerHoldsLiveCode, HeldCounted, Key
<1>7. CountsTrue' BY <1>1, <1>4 DEF DebuggerInv, CountsTrue
<1>. QED BY <1>1, <1>2, <1>5, <1>6, <1>7 DEF DebuggerInv, UnusedEmpty

LEMMA GetAddressStep ==
  ASSUME DebuggerInv, NEW m \in Module, GetAddress(m)
  PROVE  DebuggerInv'
<1> DEFINE c == owner[m]
<1>1. /\ c \in Compiler /\ life[c] = "alive"
      /\ memory' = memory \cup {m} /\ listed' = listed \cup {m}
      /\ held' = [held EXCEPT ![0] = m]
      /\ loaded_modules_' = [loaded_modules_ EXCEPT ![c][0] = @ + 1]
      /\ UNCHANGED <<life, owner>>
  BY DEF GetAddress, KeyOf, Recorded, DebuggerInv, DebuggerTypes
<1>2. loaded_modules_' \in Counts /\ loaded_modules_'[c][0] > 0
      /\ \A d \in Compiler : d # c => loaded_modules_'[d] = loaded_modules_[d]
  <2>1. loaded_modules_ \in Counts /\ 0 \in Key BY DEF DebuggerInv, DebuggerTypes, Key
  <2>2. loaded_modules_[c] \in [Key -> Nat] /\ loaded_modules_[c][0] \in Nat
    BY <1>1, <2>1 DEF Counts
  <2> DEFINE more == [loaded_modules_[c] EXCEPT ![0] = loaded_modules_[c][0] + 1]
  <2>3. loaded_modules_' = [loaded_modules_ EXCEPT ![c] = more] BY <1>1, <2>1, <2>2 DEF Counts
  <2>4. more \in [Key -> Nat] /\ more[0] > 0 BY <2>1, <2>2
  <2>. HIDE DEF more
  <2>. QED BY <1>1, <2>1, <2>3, <2>4 DEF Counts
<1>3. held'[0] = m /\ m \in memory' /\ m \in listed' /\ DebuggerTypes'
  BY <1>1, <1>2 DEF DebuggerInv, DebuggerTypes, Key
<1>4. owner'[m] = c /\ life'[c] = "alive" BY <1>1
<1>5. ListenerHoldsLiveCode' /\ HeldCounted'
  BY <1>2, <1>3, <1>4 DEF ListenerHoldsLiveCode, HeldCounted, Key
<1>6. OwnersKnown' BY <1>1 DEF DebuggerInv, OwnersKnown
<1>7. CountsTrue'
  <2>. SUFFICES ASSUME NEW d \in Compiler, life[d] = "alive", loaded_modules_'[d][0] > 0
                PROVE  \E n \in memory' : owner[n] = d
    BY <1>1 DEF CountsTrue
  <2>1. CASE d = c BY <1>3, <2>1
  <2>2. CASE d # c BY <1>1, <1>2, <2>2 DEF DebuggerInv, CountsTrue
  <2>. QED BY <2>1, <2>2
<1>8. UnusedEmpty' BY <1>1, <1>2 DEF DebuggerInv, UnusedEmpty
<1>. QED BY <1>3, <1>5, <1>6, <1>7, <1>8 DEF DebuggerInv

(* A compiler that is destroyed either frees what is held, or has recorded *)
(* nothing, and then what is held is another's.                            *)
LEMMA DestroyFrees ==
  ASSUME DebuggerInv, NEW c \in Compiler, Destroy(c)
  PROVE  \/ loaded_modules_[c][0] > 0 /\ held'[0] = None
         \/ /\ held'[0] = held[0] /\ listed' = listed
            /\ held[0] # None => owner[held[0]] # c
<1>1. /\ listed' = listed \ {held[k] : k \in Freed(c)}
      /\ held' = [k \in Key |-> IF k \in Freed(c) THEN None ELSE held[k]]
  BY DEF Destroy
<1>2. CASE loaded_modules_[c][0] > 0
  <2>1. Freed(c) = {0} BY <1>2 DEF Freed, Key
  <2>. QED BY <1>1, <1>2, <2>1 DEF Key
<1>3. CASE ~(loaded_modules_[c][0] > 0)
  <2>1. Freed(c) = {} BY <1>3 DEF Freed, Key
  <2>. QED BY <1>1, <1>3, <2>1 DEF Key, DebuggerInv, HeldCounted
<1>. QED BY <1>2, <1>3

LEMMA DestroyStep ==
  ASSUME DebuggerInv, NEW c \in Compiler, Destroy(c)
  PROVE  DebuggerInv'
<1>1. /\ life[c] = "alive" /\ life' = [life EXCEPT ![c] = "destroyed"]
      /\ UNCHANGED <<owner, memory, loaded_modules_>>
  BY DEF Destroy
<1>2. /\ DebuggerTypes' /\ life'[c] = "destroyed"
      /\ \A d \in Compiler : d # c => life'[d] = life[d]
  BY <1>1 DEF Destroy, DebuggerInv, DebuggerTypes
<1>3. OwnersKnown' /\ CountsTrue' /\ UnusedEmpty'
  BY <1>1, <1>2 DEF DebuggerInv, OwnersKnown, CountsTrue, UnusedEmpty
<1>4. ListenerHoldsLiveCode' /\ HeldCounted'
  BY <1>1, <1>2, OneKey, DestroyFrees
     DEF DebuggerInv, ListenerHoldsLiveCode, HeldCounted, Key
<1>. QED BY <1>2, <1>3, <1>4 DEF DebuggerInv

LEMMA ReleaseCodeStep ==
  ASSUME DebuggerInv, NEW c \in Compiler, ReleaseCode(c)
  PROVE  DebuggerInv'
<1>1. /\ life[c] = "destroyed" /\ life' = [life EXCEPT ![c] = "gone"]
      /\ memory' = {m \in memory : owner[m] # c}
      /\ UNCHANGED <<owner, loaded_modules_, held, listed>>
  BY DEF ReleaseCode
<1>2. /\ DebuggerTypes' /\ life'[c] = "gone"
      /\ \A d \in Compiler : d # c => life'[d] = life[d]
  BY <1>1 DEF DebuggerInv, DebuggerTypes
<1>3. OwnersKnown' /\ UnusedEmpty' /\ HeldCounted'
  BY <1>1, <1>2 DEF DebuggerInv, OwnersKnown, UnusedEmpty, HeldCounted
<1>4. CountsTrue' BY <1>1, <1>2 DEF DebuggerInv, CountsTrue
<1>5. ListenerHoldsLiveCode' BY <1>1, <1>2, OneKey DEF ListenerHoldsLiveCode, Key
<1>. QED BY <1>2, <1>3, <1>4, <1>5 DEF DebuggerInv

LEMMA DebuggerInductive == DebuggerInv /\ [Next]_vars => DebuggerInv'
<1>. SUFFICES ASSUME DebuggerInv, [Next]_vars PROVE DebuggerInv' OBVIOUS
<1>1. CASE UNCHANGED vars
  BY <1>1 DEF vars, DebuggerInv, DebuggerTypes, ListenerHoldsLiveCode, HeldCounted,
              CountsTrue, OwnersKnown, UnusedEmpty
<1>. QED BY <1>1, ConstructStep, BuildStep, GetAddressStep, DestroyStep, ReleaseCodeStep
     DEF Next

(* Whatever compilers come and go, with any number of objects in memory,   *)
(* what the listener holds, and will free by its key, is in GDB's list and *)
(* describes code in memory, of a compiler that is still to free it: not   *)
(* even between a destructor's body and its members' end is it otherwise.  *)
THEOREM ListenerIsSound == Spec => []ListenerHoldsLiveCode
<1>1. DebuggerInv => ListenerHoldsLiveCode BY DEF DebuggerInv
<1>. QED BY <1>1, DebuggerInit, DebuggerInductive, PTL DEF Spec

(* GDB forgets a module only when a compiler that has code in memory is    *)
(* destroyed, or when another module is loaded.                            *)
THEOREM ForgottenOnlyForAnother == Spec => KnownUntilReplaced
<1>1. ASSUME DebuggerInv, [Next]_vars, NEW m \in Module
      PROVE  Known(m) => Known(m)' \/ Replaced(m) \/ Freeing
  <2>. SUFFICES ASSUME Known(m) PROVE Known(m)' \/ Replaced(m) \/ Freeing OBVIOUS
  <2>1. m \in listed /\ m \in memory /\ held[0] = m /\ m # None
    BY <1>1, DebuggerAssumption, OneKey DEF Known, Key
  <2>2. held'[0] = m /\ m \in listed' => Known(m)' BY DEF Known, Key
  <2>3. CASE held' = held /\ listed' = listed BY <2>1, <2>2, <2>3
  <2>4. ASSUME NEW n \in Module, GetAddress(n) PROVE Replaced(m)
    <3>1. held'[0] = n /\ n \in listed' /\ n \notin memory
      BY <1>1, <2>4 DEF GetAddress, KeyOf, DebuggerInv, DebuggerTypes, Key
    <3>2. Known(n)' BY <3>1 DEF Known, Key
    <3>. QED BY <2>1, <3>1, <3>2 DEF Replaced
  <2>5. ASSUME NEW c \in Compiler, Destroy(c) PROVE Known(m)' \/ Freeing
    <3>1. life[c] = "alive" /\ life'[c] = "destroyed"
      BY <1>1, <2>5 DEF Destroy, DebuggerInv, DebuggerTypes
    <3>2. CASE loaded_modules_[c][0] > 0
      <4>1. \E n \in memory : owner[n] = c BY <1>1, <3>1, <3>2 DEF DebuggerInv, CountsTrue
      <4>. QED BY <3>1, <4>1 DEF Freeing
    <3>3. CASE ~(loaded_modules_[c][0] > 0)
      <4>1. held'[0] = held[0] /\ listed' = listed BY <1>1, <2>5, <3>3, DestroyFrees
      <4>. QED BY <2>1, <2>2, <4>1
    <3>. QED BY <3>2, <3>3
  <2>6. ASSUME NEW c \in Compiler, NEW n \in Module,
               Construct(c) \/ ReleaseCode(c) \/ Build(c, n)
        PROVE  held' = held /\ listed' = listed
    BY <2>6 DEF Construct, ReleaseCode, Build
  <2>7. CASE Next BY <2>3, <2>4, <2>5, <2>6, <2>7 DEF Next
  <2>8. CASE UNCHANGED vars BY <2>3, <2>8 DEF vars
  <2>. QED BY <1>1, <2>7, <2>8
<1>2. DebuggerInv /\ [Next]_vars =>
        [\A m \in Module : Known(m) => Known(m)' \/ Replaced(m) \/ Freeing]_vars
  BY <1>1
<1>. QED BY <1>2, DebuggerInit, DebuggerInductive, PTL DEF Spec, KnownUntilReplaced
=============================================================================
