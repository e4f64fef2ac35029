--------------------------- MODULE CompilerProofs ---------------------------
(***************************************************************************)
(* The compiler for any number of builders, names and addresses.           *)
(***************************************************************************)
EXTENDS Compiler, FiniteSetTheorems, SequenceTheorems, WellFoundedInduction, TLAPS

-----------------------------------------------------------------------------
(* Functions defined step by step.  Induction is over a set of naturals,   *)
(* so that it can be cited for a set defined where it is needed.           *)

LEMMA LeastNatural ==
  ASSUME NEW T, T \subseteq Nat, T # {}
  PROVE  \E x \in T : \A y \in T : x <= y
<1> DEFINE R == OpToRel(<, Nat)
<1>1. IsWellFoundedOn(R, Nat) BY NatLessThanWellFounded
<1>2. \A x, y \in Nat : x < y => <<x, y>> \in R BY DEF OpToRel
<1>. HIDE DEF R
<1>3. PICK x \in T : \A y \in T : ~(<<y, x>> \in R) BY <1>1, WFMin
<1>4. \A y \in T : x <= y
  <2>. SUFFICES ASSUME NEW y \in T, ~(x <= y) PROVE FALSE OBVIOUS
  <2>1. x \in Nat /\ y \in Nat OBVIOUS
  <2>2. y < x BY <2>1
  <2>. QED BY <1>2, <1>3, <2>1, <2>2
<1>. QED BY <1>4

LEMMA NatSetInduction ==
  ASSUME NEW S, 0 \in S, \A n \in Nat : n \in S => n + 1 \in S
  PROVE  Nat \subseteq S
<1>1. SUFFICES ASSUME Nat \ S # {} PROVE FALSE OBVIOUS
<1>2. PICK x \in Nat \ S : \A y \in Nat \ S : x <= y BY <1>1, LeastNatural
<1>3. x # 0 OBVIOUS
<1>4. x - 1 \in Nat /\ ~(x <= x - 1) /\ (x - 1) + 1 = x BY <1>3
<1>. QED BY <1>2, <1>4

(* A function that is given its first value and, for every later one, how  *)
(* it follows from the one before.                                         *)
Stepwise(h, N, first, G) == h[0] = first /\ \A n \in 1..N : h[n] = G[n][h[n - 1]]

LEMMA StepwiseFunction ==
  ASSUME NEW N \in Nat, NEW X, NEW first \in X, NEW G \in [1..N -> [X -> X]]
  PROVE  \E h \in [0..N -> X] : Stepwise(h, N, first, G)
<1> DEFINE S == {m \in Nat : m <= N => \E h \in [0..m -> X] : Stepwise(h, m, first, G)}
<1>1. 0 \in S
  <2>1. [n \in 0..0 |-> first] \in [0..0 -> X]
      /\ Stepwise([n \in 0..0 |-> first], 0, first, G)
    BY DEF Stepwise
  <2>. QED BY <2>1
<1>2. ASSUME NEW m \in Nat, m \in S PROVE m + 1 \in S
  <2>1. SUFFICES ASSUME m + 1 <= N PROVE \E h \in [0..m + 1 -> X] : Stepwise(h, m + 1, first, G) OBVIOUS
  <2>2. PICK h \in [0..m -> X] : Stepwise(h, m, first, G) BY <1>2, <2>1
  <2> DEFINE value == G[m + 1][h[m]]
             k == [n \in 0..m + 1 |-> IF n = m + 1 THEN value ELSE h[n]]
  <2>3. h[m] \in X /\ m + 1 \in 1..N BY <2>1
  <2>4. value \in X BY <2>3
  <2>5. k \in [0..m + 1 -> X] BY <2>4
  <2>6. \A n \in 0..m : k[n] = h[n] OBVIOUS
  <2>7. k[m + 1] = value OBVIOUS
  <2>. HIDE DEF k
  <2>8. ASSUME NEW n \in 1..m + 1 PROVE k[n] = G[n][k[n - 1]]
    <3>1. CASE n = m + 1
      <4>1. n - 1 = m /\ k[m] = h[m] BY <2>6, <3>1
      <4>. QED BY <2>7, <3>1, <4>1
    <3>2. CASE n # m + 1
      <4>1. n \in 1..m /\ n \in 0..m /\ n - 1 \in 0..m BY <3>2
      <4>. QED BY <2>2, <2>6, <4>1 DEF Stepwise
    <3>. QED BY <3>1, <3>2
  <2>9. k[0] = first BY <2>2, <2>6 DEF Stepwise
  <2>. QED BY <2>5, <2>8, <2>9 DEF Stepwise
<1>. HIDE DEF S
<1>3. N \in S BY <1>1, <1>2, NatSetInduction
<1>. QED BY <1>3 DEF S

(* Following F from a set for as many steps as there are elements reaches  *)
(* the least set that F does not lead out of: as long as a step adds       *)
(* something, the set has more elements than steps were taken.             *)
LEMMA ClosureReached ==
  ASSUME NEW V, IsFiniteSet(V), NEW N \in Nat, Cardinality(V) <= N,
         NEW F \in [V -> SUBSET V], NEW h \in [0..N -> SUBSET V],
         \A n \in 1..N : h[n] = h[n - 1] \cup UNION {F[b] : b \in h[n - 1]}
  PROVE  /\ h[0] \subseteq h[N]
         /\ \A b \in h[N] : F[b] \subseteq h[N]
         /\ \A T \in SUBSET V : h[0] \subseteq T /\ (\A b \in T : F[b] \subseteq T) => h[N] \subseteq T
<1> DEFINE Closed(T) == \A b \in T : F[b] \subseteq T
<1>1. ASSUME NEW m \in Nat, m + 1 <= N
      PROVE  /\ m \in 0..N /\ m + 1 \in 0..N
             /\ h[m + 1] = h[m] \cup UNION {F[b] : b \in h[m]}
  <2>1. m + 1 \in 1..N /\ (m + 1) - 1 = m /\ m \in 0..N /\ m + 1 \in 0..N BY <1>1
  <2>. QED BY <2>1
<1>2. h[0] \subseteq h[N]
  <2> DEFINE S == {m \in Nat : m <= N => h[0] \subseteq h[m]}
  <2>1. 0 \in S OBVIOUS
  <2>2. ASSUME NEW m \in Nat, m \in S PROVE m + 1 \in S BY <1>1, <2>2
  <2>. HIDE DEF S
  <2>3. N \in S BY <2>1, <2>2, NatSetInduction
  <2>. QED BY <2>3 DEF S
<1>3. ASSUME NEW T \in SUBSET V, h[0] \subseteq T, Closed(T) PROVE h[N] \subseteq T
  <2> DEFINE S == {m \in Nat : m <= N => h[m] \subseteq T}
  <2>1. 0 \in S BY <1>3
  <2>2. ASSUME NEW m \in Nat, m \in S PROVE m + 1 \in S
    <3>1. SUFFICES ASSUME m + 1 <= N PROVE h[m + 1] \subseteq T OBVIOUS
    <3>2. h[m] \subseteq T BY <2>2, <3>1
    <3>. QED BY <1>1, <1>3, <3>1, <3>2
  <2>. HIDE DEF S
  <2>3. N \in S BY <2>1, <2>2, NatSetInduction
  <2>. QED BY <2>3 DEF S
<1>4. \A T \in SUBSET V : IsFiniteSet(T) /\ Cardinality(T) \in Nat /\ Cardinality(T) <= Cardinality(V)
  BY FS_Subset, FS_CardinalityType
<1>5. Closed(h[N])
  <2> DEFINE S == {m \in Nat : m <= N => Closed(h[m]) \/ Cardinality(h[m]) > m}
  <2>1. 0 \in S
    <3>1. CASE h[0] = {} BY <3>1
    <3>2. CASE h[0] # {}
      <4>1. h[0] \in SUBSET V OBVIOUS
      <4>2. Cardinality(h[0]) # 0 BY <1>4, <3>2, <4>1, FS_EmptySet
      <4>. QED BY <1>4, <4>1, <4>2
    <3>. QED BY <3>1, <3>2
  <2>2. ASSUME NEW m \in Nat, m \in S PROVE m + 1 \in S
    <3>1. SUFFICES ASSUME m + 1 <= N, ~Closed(h[m + 1]) PROVE Cardinality(h[m + 1]) > m + 1 OBVIOUS
    <3>2. /\ h[m] \in SUBSET V /\ h[m + 1] \in SUBSET V
          /\ h[m + 1] = h[m] \cup UNION {F[b] : b \in h[m]}
      BY <1>1, <3>1
    <3>3. ~Closed(h[m]) /\ h[m + 1] # h[m]
      <4>1. ASSUME Closed(h[m]) PROVE h[m + 1] = h[m] BY <3>2, <4>1
      <4>2. ASSUME h[m + 1] = h[m] PROVE FALSE BY <3>1, <3>2, <4>2
      <4>. QED BY <4>1, <4>2
    <3>4. Cardinality(h[m]) > m BY <2>2, <3>1, <3>3
    <3>5. Cardinality(h[m]) < Cardinality(h[m + 1])
      <4>1. IsFiniteSet(h[m + 1]) /\ h[m] \in SUBSET h[m + 1] BY <1>4, <3>2
      <4>2. /\ Cardinality(h[m]) <= Cardinality(h[m + 1])
            /\ Cardinality(h[m]) = Cardinality(h[m + 1]) => h[m] = h[m + 1]
        BY <4>1, FS_Subset
      <4>. QED BY <1>4, <3>2, <3>3, <4>2
    <3>. QED BY <1>4, <3>2, <3>4, <3>5
  <2>. HIDE DEF S
  <2>3. N \in S BY <2>1, <2>2, NatSetInduction
  <2>4. h[N] \in SUBSET V OBVIOUS
  <2>. QED BY <1>4, <2>3, <2>4, FS_CardinalityType DEF S
<1>. QED BY <1>2, <1>3, <1>5

-----------------------------------------------------------------------------
CompilerTypes == TypeOK /\ \A b \in Builder : Len(entities[b]) <= MaxEntities

LEMMA SymbolTypes ==
  ASSUME CompilerTypes
  PROVE  /\ \A b \in Builder : \A i \in DOMAIN entities[b] : entities[b][i] \in Entity
         /\ \A b \in Builder : Declared(b) \in SUBSET Symbol
         /\ \A s \in Symbol : dylib[s] \in Definition /\ dylib[s].builder \in Builder \cup {None}
         /\ \A symbols \in SUBSET Symbol : Owners(symbols) \in SUBSET Builder
<1>1. ASSUME NEW b \in Builder, NEW i \in DOMAIN entities[b] PROVE entities[b][i] \in Entity
  BY DEF CompilerTypes, TypeOK
<1>2. ASSUME NEW b \in Builder PROVE Declared(b) \in SUBSET Symbol
  BY <1>1 DEF Declared, Entity
<1>3. ASSUME NEW s \in Symbol PROVE dylib[s] \in Definition /\ dylib[s].builder \in Builder \cup {None}
  BY DEF CompilerTypes, TypeOK, Definition, Undefined, InModule, Absolute
<1>. QED BY <1>1, <1>2, <1>3 DEF Owners

(* Reached is the least set of modules that holds those that define the    *)
(* symbols and every module one of its members calls.                      *)
LEMMA ReachedClosed ==
  ASSUME CompilerTypes, NEW symbols \in SUBSET Symbol
  PROVE  /\ Reached(symbols) \in SUBSET Builder
         /\ Owners(symbols) \subseteq Reached(symbols)
         /\ \A b \in Reached(symbols) : Owners(Declared(b)) \subseteq Reached(symbols)
         /\ \A T \in SUBSET Builder :
              Owners(symbols) \subseteq T /\ (\A b \in T : Owners(Declared(b)) \subseteq T)
                => Reached(symbols) \subseteq T
<1> DEFINE N == Cardinality(Builder)
           Step(before) == before \cup Owners(UNION {Declared(b) : b \in before})
           F == [b \in Builder |-> Owners(Declared(b))]
           G == [n \in 1..N |-> [before \in SUBSET Builder |-> Step(before)]]
           within[n \in 0..N] == IF n = 0 THEN Owners(symbols) ELSE Step(within[n - 1])
<1>1. N \in Nat /\ IsFiniteSet(Builder) BY CompilerAssumption, FS_CardinalityType
<1>2. ASSUME NEW before \in SUBSET Builder
      PROVE  Step(before) \in SUBSET Builder /\ Step(before) = before \cup UNION {F[b] : b \in before}
  <2>1. UNION {Declared(b) : b \in before} \in SUBSET Symbol BY SymbolTypes
  <2>2. Owners(UNION {Declared(b) : b \in before}) \in SUBSET Builder BY <2>1, SymbolTypes
  <2>3. Owners(UNION {Declared(b) : b \in before}) = UNION {Owners(Declared(b)) : b \in before}
    BY DEF Owners
  <2>4. \A b \in before : F[b] = Owners(Declared(b)) OBVIOUS
  <2>5. UNION {F[b] : b \in before} = UNION {Owners(Declared(b)) : b \in before} BY <2>4
  <2>6. Step(before) = before \cup Owners(UNION {Declared(b) : b \in before}) OBVIOUS
  <2>. HIDE DEF F, Step
  <2>. QED BY <2>2, <2>3, <2>5, <2>6
<1>3. Reached(symbols) = within[N] BY DEF Reached
<1>4. within \in [0..N -> SUBSET Builder] /\ within[0] = Owners(symbols)
      /\ \A n \in 1..N : within[n] = Step(within[n - 1])
  <2>. DEFINE Modules == SUBSET Builder
  <2>1. Owners(symbols) \in Modules BY SymbolTypes
  <2>2. G \in [1..N -> [Modules -> Modules]] BY <1>2
  <2>. HIDE DEF N, Step, F, G, within, Modules
  <2>3. PICK h \in [0..N -> Modules] : Stepwise(h, N, Owners(symbols), G)
    BY <1>1, <2>1, <2>2, StepwiseFunction
  <2>4. h = [n \in 0..N |-> IF n = 0 THEN Owners(symbols) ELSE Step(h[n - 1])]
    <3>1. ASSUME NEW n \in 0..N PROVE h[n] = IF n = 0 THEN Owners(symbols) ELSE Step(h[n - 1])
      <4>1. CASE n = 0 BY <2>3, <4>1 DEF Stepwise
      <4>2. CASE n # 0
        <5>1. n \in 1..N /\ n - 1 \in 0..N BY <1>1, <4>2
        <5>2. h[n - 1] \in SUBSET Builder BY <5>1 DEF Modules
        <5>3. G[n][h[n - 1]] = Step(h[n - 1]) BY <5>1, <5>2 DEF G
        <5>. QED BY <2>3, <4>2, <5>1, <5>3 DEF Stepwise
      <4>. QED BY <4>1, <4>2
    <3>. QED BY <3>1
  <2>5. within = [n \in 0..N |-> IF n = 0 THEN Owners(symbols) ELSE Step(within[n - 1])]
    BY <2>4 DEF within
  <2>. HIDE DEF within
  <2>6. \A n \in 0..N : within[n] = IF n = 0 THEN Owners(symbols) ELSE Step(within[n - 1]) BY <2>5
  <2>7. \A n \in 1..N : n # 0 /\ n \in 0..N BY <1>1
  <2>8. within[0] = Owners(symbols) /\ \A n \in 1..N : within[n] = Step(within[n - 1])
    BY <1>1, <2>6, <2>7
  <2>9. \A n \in 0..N : within[n] \in SUBSET Builder
    <3>. DEFINE S == {m \in Nat : m <= N => within[m] \in SUBSET Builder}
    <3>1. 0 \in S BY <2>1, <2>8 DEF Modules
    <3>2. ASSUME NEW m \in Nat, m \in S PROVE m + 1 \in S
      <4>1. SUFFICES ASSUME m + 1 <= N PROVE within[m + 1] \in SUBSET Builder OBVIOUS
      <4>2. m + 1 \in 1..N /\ (m + 1) - 1 = m /\ m <= N BY <1>1, <4>1
      <4>3. within[m] \in SUBSET Builder BY <3>2, <4>2
      <4>4. within[m + 1] = Step(within[m]) BY <2>8, <4>2
      <4>. QED BY <1>2, <4>3, <4>4
    <3>. HIDE DEF S
    <3>3. Nat \subseteq S BY <3>1, <3>2, NatSetInduction
    <3>. QED BY <1>1, <3>3 DEF S
  <2>. QED BY <2>5, <2>8, <2>9
<1>. HIDE DEF N, Step, within
<1>5. \A n \in 1..N : within[n] = within[n - 1] \cup UNION {F[b] : b \in within[n - 1]}
  <2>. SUFFICES ASSUME NEW n \in 1..N PROVE within[n - 1] \in SUBSET Builder BY <1>2, <1>4
  <2>. QED BY <1>1, <1>4
<1>6. F \in [Builder -> SUBSET Builder] BY SymbolTypes
<1>7. \A b \in Builder : F[b] = Owners(Declared(b)) OBVIOUS
<1>. HIDE DEF F
<1>8. Cardinality(Builder) <= N BY <1>1 DEF N
<1>9. within[N] \in SUBSET Builder BY <1>1, <1>4
<1>10. /\ within[0] \subseteq within[N]
       /\ \A b \in within[N] : F[b] \subseteq within[N]
       /\ \A T \in SUBSET Builder :
            within[0] \subseteq T /\ (\A b \in T : F[b] \subseteq T) => within[N] \subseteq T
  BY <1>1, <1>4, <1>5, <1>6, <1>8, ClosureReached
<1>. QED BY <1>3, <1>4, <1>7, <1>9, <1>10

-----------------------------------------------------------------------------
(* What keeps loaded code and pointers alive: a set of modules, none of    *)
(* them refused or broken, with every loaded one, every one a pointer      *)
(* leads to, and whatever its members call.  A module joins it when a      *)
(* lookup that reaches it succeeds for it; no later lookup breaks it,      *)
(* since all it needs is inside.                                           *)
Accepted == {"added", "loaded"}
PointerSymbol(p) == Plain(entities[p.builder][p.index].name)
Linked(modules) ==
  /\ \A c \in Builder : status[c] = "loaded" => c \in modules
  /\ \A c \in modules : status[c] \in Accepted
  /\ \A c \in modules : \A s \in Declared(c) : dylib[s] # Undefined /\ Owners({s}) \subseteq modules
  /\ \A p \in pointers : /\ dylib[PointerSymbol(p)] = p.target /\ p.target # Undefined
                         /\ Owners({PointerSymbol(p)}) \subseteq modules

PointersKnown == \A p \in pointers : p.index \in DOMAIN entities[p.builder]
OwnersAccepted == \A s \in Symbol : \A c \in Builder :
                    dylib[s].builder = c => status[c] \in Accepted
LinkInv ==
  /\ CompilerTypes /\ PointersKnown /\ OwnersAccepted
  /\ \E modules \in SUBSET Builder : Linked(modules)

KeepsPointers ==
  \A p \in pointers : p \in pointers' /\ dylib'[PointerSymbol(p)] = p.target

LEMMA LinkInit == Init => LinkInv
<1>. SUFFICES ASSUME Init PROVE LinkInv OBVIOUS
<1>1. CompilerTypes
  <2>1. \A b \in Builder : Len(entities[b]) = 0 BY DEF Init
  <2>. QED BY <2>1, CompilerAssumption DEF Init, CompilerTypes, TypeOK, Definition
<1>2. OwnersAccepted
  BY CompilerAssumption DEF Init, OwnersAccepted, Undefined
<1>3. Linked({}) BY DEF Init, Linked
<1>. QED BY <1>1, <1>2, <1>3 DEF Init, LinkInv, PointersKnown

(* A name in use gets a number no module of this size runs out of: at      *)
(* least one of its entities has none.                                     *)
LEMMA NewSymbolType ==
  ASSUME CompilerTypes, NEW b \in Builder, NEW name \in Name, Len(entities[b]) < MaxEntities
  PROVE  NewSymbol(b, name) \in Symbol
<1> DEFINE domain == 1..Len(entities[b])
           renamed == {i \in DOMAIN entities[b] : entities[b][i].symbol.suffix # 0}
<1>1. entities[b] \in Seq(Entity) /\ DOMAIN entities[b] = domain /\ Len(entities[b]) \in Nat
  BY DEF CompilerTypes, TypeOK
<1>2. MaxEntities \in Nat /\ 0 \in 0..MaxEntities - 1 BY CompilerAssumption
<1>3. Plain(name) \in Symbol BY <1>2 DEF Plain, Symbol
<1>4. ASSUME NEW i \in domain, entities[b][i].symbol = Plain(name)
      PROVE  Cardinality(renamed) + 1 \in 0..MaxEntities - 1
  <2>1. i \notin renamed BY <1>4 DEF Plain
  <2>2. IsFiniteSet(domain) /\ Cardinality(domain) = Len(entities[b])
    BY <1>1, FS_Interval
  <2>3. renamed \in SUBSET domain /\ renamed # domain BY <1>1, <2>1
  <2>4. /\ Cardinality(renamed) \in Nat /\ Cardinality(renamed) <= Cardinality(domain)
        /\ Cardinality(renamed) # Cardinality(domain)
    BY <2>2, <2>3, FS_Subset, FS_CardinalityType
  <2>. QED BY <1>1, <1>2, <2>2, <2>4
<1>. QED BY <1>1, <1>3, <1>4 DEF NewSymbol, Symbol

LEMMA AddTypes ==
  ASSUME CompilerTypes, NEW b \in Builder, NEW name \in Name,
         NEW kind \in {"function", "external", "memcmp"}, NEW address \in Address \cup {None},
         Add(b, kind, name, address)
  PROVE  /\ entities' \in [Builder -> Seq(Entity)]
         /\ \A c \in Builder : Len(entities'[c]) <= MaxEntities
         /\ \A c \in Builder \ {b} : entities'[c] = entities[c]
         /\ \A i \in DOMAIN entities[b] : i \in DOMAIN entities'[b] /\ entities'[b][i] = entities[b][i]
         /\ DOMAIN entities'[b] = DOMAIN entities[b] \cup {Len(entities[b]) + 1}
         /\ entities'[b][Len(entities[b]) + 1] =
              [kind |-> kind, name |-> name, symbol |-> NewSymbol(b, name), address |-> address]
<1> DEFINE new == [kind |-> kind, name |-> name, symbol |-> NewSymbol(b, name), address |-> address]
<1>1. new \in Entity BY NewSymbolType DEF Add, Entity
<1>2. entities[b] \in Seq(Entity) /\ Len(entities[b]) \in Nat /\ MaxEntities \in Nat
  BY CompilerAssumption DEF CompilerTypes, TypeOK
<1>3. entities' = [entities EXCEPT ![b] = Append(entities[b], new)] BY DEF Add
<1>. HIDE DEF new
<1>4. Append(entities[b], new) \in Seq(Entity) /\ Len(Append(entities[b], new)) = Len(entities[b]) + 1
  BY <1>1, <1>2
<1>5. /\ \A i \in DOMAIN entities[b] : Append(entities[b], new)[i] = entities[b][i]
      /\ Append(entities[b], new)[Len(entities[b]) + 1] = new
      /\ DOMAIN Append(entities[b], new) = DOMAIN entities[b] \cup {Len(entities[b]) + 1}
  BY <1>1, <1>2
<1>6. entities'[b] = Append(entities[b], new) /\ \A c \in Builder \ {b} : entities'[c] = entities[c]
  BY <1>3 DEF CompilerTypes, TypeOK
<1>7. entities' \in [Builder -> Seq(Entity)] BY <1>3, <1>4 DEF CompilerTypes, TypeOK
<1>8. \A c \in Builder : Len(entities'[c]) <= MaxEntities
  BY <1>2, <1>4, <1>6 DEF CompilerTypes, Add
<1>. QED BY <1>5, <1>6, <1>7, <1>8 DEF new

(* Filling a module disturbs nothing that is linked: the module is not in  *)
(* the JITDylib yet.                                                       *)
Fills(b) ==
  /\ status[b] \in {"unused", "open"} /\ status' \in {status, [status EXCEPT ![b] = "open"]}
  /\ \A c \in Builder \ {b} : entities'[c] = entities[c]
  /\ \A i \in DOMAIN entities[b] : i \in DOMAIN entities'[b] /\ entities'[b][i] = entities[b][i]
  /\ UNCHANGED <<dylib, pointers>>

LEMMA FillSteps ==
  ASSUME CompilerTypes, NEW b \in Builder,
         Open(b) \/ CreateFunction(b) \/ DeclareExternal(b) \/ CallMemcmp(b)
  PROVE  CompilerTypes' /\ Fills(b)
<1>1. CASE Open(b)
  BY <1>1 DEF Open, CompilerTypes, TypeOK, Fills
<1>2. CASE CreateFunction(b)
  <2>1. PICK name \in Name : Add(b, "function", name, None) BY <1>2 DEF CreateFunction
  <2>2. UNCHANGED <<status, source_file_, external_symbols_, dylib, source_directory_, pointers>>
    BY <1>2 DEF CreateFunction
  <2>3. status[b] = "open" BY <2>1 DEF Add
  <2>. QED BY <2>1, <2>2, <2>3, AddTypes DEF CompilerTypes, TypeOK, Fills
<1>3. CASE DeclareExternal(b)
  <2>1. PICK name \in Name, address \in Address :
          Add(b, "external", name, address) /\ add_symbol(name, address)
    BY <1>3 DEF DeclareExternal
  <2>2. UNCHANGED <<status, source_file_, dylib, source_directory_, pointers>>
    BY <1>3 DEF DeclareExternal
  <2>3. status[b] = "open" BY <2>1 DEF Add
  <2>4. external_symbols_' \in [Name -> Address \cup {None}]
    BY <2>1 DEF add_symbol, CompilerTypes, TypeOK
  <2>. QED BY <2>1, <2>2, <2>3, <2>4, AddTypes DEF CompilerTypes, TypeOK, Fills
<1>4. CASE CallMemcmp(b)
  <2>1. Add(b, "memcmp", Memcmp, None) BY <1>4 DEF CallMemcmp
  <2>2. UNCHANGED <<status, source_file_, external_symbols_, dylib, source_directory_, pointers>>
    BY <1>4 DEF CallMemcmp
  <2>3. status[b] = "open" BY <2>1 DEF Add
  <2>. QED BY <2>1, <2>2, <2>3, AddTypes, CompilerAssumption DEF CompilerTypes, TypeOK, Fills
<1>. QED BY <1>1, <1>2, <1>3, <1>4

LEMMA FillKeeps ==
  ASSUME LinkInv, NEW b \in Builder, Fills(b), CompilerTypes'
  PROVE  LinkInv' /\ KeepsPointers
<1>1. PICK modules \in SUBSET Builder : Linked(modules) BY DEF LinkInv
<1>2. b \notin modules /\ status[b] \notin Accepted BY <1>1 DEF Linked, Fills, Accepted
<1>3. \A c \in Builder : status[c] \in Accepted \/ status'[c] \in Accepted => status'[c] = status[c]
  BY DEF LinkInv, CompilerTypes, TypeOK, Fills, Accepted
<1>4. \A c \in modules : Declared(c)' = Declared(c)
  <2>. SUFFICES ASSUME NEW c \in modules PROVE Declared(c)' = Declared(c) OBVIOUS
  <2>1. entities'[c] = entities[c] BY <1>2 DEF Fills
  <2>. QED BY <2>1 DEF Declared, Functions
<1>5. \A symbols : Owners(symbols)' = Owners(symbols) BY DEF Fills, Owners
<1>6. \A p \in pointers : PointerSymbol(p)' = PointerSymbol(p) /\ p.index \in DOMAIN entities'[p.builder]
  <2>. SUFFICES ASSUME NEW p \in pointers
                PROVE  /\ entities'[p.builder][p.index] = entities[p.builder][p.index]
                       /\ p.index \in DOMAIN entities'[p.builder]
    BY DEF PointerSymbol, Plain
  <2>1. p.builder \in Builder /\ p.index \in DOMAIN entities[p.builder]
    BY DEF LinkInv, CompilerTypes, TypeOK, PointersKnown
  <2>. QED BY <2>1 DEF Fills
<1>7. PointersKnown' BY <1>6 DEF PointersKnown, Fills
<1>8. OwnersAccepted'
  BY <1>3 DEF LinkInv, OwnersAccepted, Fills
<1>9. Linked(modules)'
  <2>1. \A c \in Builder : status'[c] = "loaded" => c \in modules BY <1>1, <1>3 DEF Linked, Accepted
  <2>2. \A c \in modules : status'[c] \in Accepted BY <1>1, <1>3 DEF Linked
  <2>3. dylib' = dylib /\ pointers' = pointers BY DEF Fills
  <2>4. \A c \in modules : \A s \in Declared(c)' : dylib'[s] # Undefined /\ Owners({s})' \subseteq modules
    BY <1>1, <1>4, <1>5, <2>3 DEF Linked
  <2>5. \A p \in pointers' : /\ dylib'[PointerSymbol(p)'] = p.target /\ p.target # Undefined
                             /\ Owners({PointerSymbol(p)})' \subseteq modules
    BY <1>1, <1>5, <1>6, <2>3 DEF Linked
  <2>. QED BY <2>1, <2>2, <2>4, <2>5 DEF Linked
<1>10. KeepsPointers BY <1>1 DEF KeepsPointers, Linked, Fills
<1>. QED BY <1>7, <1>8, <1>9, <1>10 DEF LinkInv

(* An accepted module defines symbols no other one did; a refused one      *)
(* defines none.                                                           *)
LEMMA BuildKeeps ==
  ASSUME LinkInv, NEW b \in Builder, Build(b)
  PROVE  LinkInv' /\ KeepsPointers
<1>1. PICK modules \in SUBSET Builder : Linked(modules) BY DEF LinkInv
<1>2. /\ status[b] = "open" /\ status' \in {[status EXCEPT ![b] = "rejected"], [status EXCEPT ![b] = "added"]}
      /\ UNCHANGED <<source_file_, entities, external_symbols_, pointers>>
      /\ source_directory_' = [source_directory_ EXCEPT ![source_file_[b]] = b]
  BY DEF Build
<1>3. b \notin modules BY <1>1, <1>2 DEF Linked, Accepted
<1>4. CompilerTypes BY DEF LinkInv
<1>5. /\ dylib' \in [Symbol -> Definition]
      /\ \A s \in Symbol : dylib[s] # Undefined => dylib'[s] = dylib[s]
      /\ \A s \in Symbol : dylib'[s] = dylib[s] \/ (status'[b] = "added" /\ dylib'[s].builder = b)
  <2>1. CASE Clashes(b)
    BY <1>4, <2>1 DEF Build, CompilerTypes, TypeOK
  <2>2. CASE ~Clashes(b)
    <3>1. dylib' = Defined(b) /\ status' = [status EXCEPT ![b] = "added"] BY <2>2 DEF Build
    <3>2. ASSUME NEW s \in Symbol, \E i \in Functions(b) : entities[b][i].symbol = s
          PROVE  \E i \in Functions(b) : entities[b][i].symbol = s /\ Defined(b)[s] = InModule(b, i)
      <4>. DEFINE j == CHOOSE i \in Functions(b) : entities[b][i].symbol = s
      <4>1. j \in Functions(b) /\ entities[b][j].symbol = s BY <3>2
      <4>2. Defined(b)[s] = InModule(b, j) BY <3>2 DEF Defined
      <4>. QED BY <4>1, <4>2
    <3>3. ASSUME NEW s \in Symbol, ~\E i \in Functions(b) : entities[b][i].symbol = s
          PROVE  Defined(b)[s] = dylib[s]
      BY <3>3 DEF Defined
    <3>4. Functions(b) \subseteq 1..MaxEntities
      BY <1>4, CompilerAssumption DEF Functions, CompilerTypes, TypeOK
    <3>5. \A i \in Functions(b) : InModule(b, i) \in Definition /\ InModule(b, i).builder = b
      BY <3>4 DEF Definition, InModule
    <3>6. \A s \in Symbol : Defined(b)[s] \in Definition BY <1>4, <3>2, <3>3, <3>5 DEF CompilerTypes, TypeOK
    <3>7. Defined(b) \in [Symbol -> Definition] BY <3>6 DEF Defined
    <3>8. \A s \in Symbol : dylib[s] # Undefined => Defined(b)[s] = dylib[s] BY <2>2, <3>2, <3>3 DEF Clashes
    <3>9. status'[b] = "added" BY <1>4, <3>1 DEF CompilerTypes, TypeOK
    <3>. QED BY <3>1, <3>2, <3>3, <3>5, <3>7, <3>8, <3>9
  <2>. QED BY <2>1, <2>2
<1>6. CompilerTypes'
  <2>1. source_directory_' \in [File -> Builder \cup {None}] BY <1>2, <1>4 DEF CompilerTypes, TypeOK
  <2>. QED BY <1>2, <1>4, <1>5, <2>1 DEF CompilerTypes, TypeOK
<1>7. \A c \in Builder \ {b} : status'[c] = status[c] BY <1>2, <1>4 DEF CompilerTypes, TypeOK
<1>8. OwnersAccepted'
  <2>. SUFFICES ASSUME NEW s \in Symbol, NEW c \in Builder, dylib'[s].builder = c
                PROVE  status'[c] \in Accepted
    BY DEF OwnersAccepted
  <2>1. CASE dylib'[s] = dylib[s]
    <3>1. status[c] \in Accepted BY <2>1 DEF LinkInv, OwnersAccepted
    <3>2. c # b BY <1>2, <3>1 DEF Accepted
    <3>. QED BY <1>7, <3>1, <3>2
  <2>2. CASE status'[b] = "added" /\ dylib'[s].builder = b BY <2>2 DEF Accepted
  <2>. QED BY <1>5, <2>1, <2>2
<1>9. \A s \in Symbol : dylib[s] # Undefined => Owners({s})' = Owners({s}) BY <1>5 DEF Owners
<1>10. \A c \in Builder : Declared(c)' = Declared(c) BY <1>2 DEF Declared, Functions
<1>11. \A p \in pointers : PointerSymbol(p)' = PointerSymbol(p) /\ PointerSymbol(p) \in Symbol
  <2>. SUFFICES ASSUME NEW p \in pointers PROVE PointerSymbol(p) \in Symbol
    BY <1>2 DEF PointerSymbol
  <2>1. p.builder \in Builder /\ p.index \in DOMAIN entities[p.builder]
    BY DEF LinkInv, CompilerTypes, TypeOK, PointersKnown
  <2>2. entities[p.builder][p.index].name \in Name BY <1>4, <2>1, SymbolTypes DEF Entity
  <2>3. 0 \in 0..MaxEntities - 1 BY CompilerAssumption
  <2>. QED BY <2>2, <2>3 DEF PointerSymbol, Plain, Symbol
<1>12. Linked(modules)'
  <2>1. \A c \in Builder : status'[c] = "loaded" => c \in modules
    BY <1>1, <1>2, <1>4, <1>7 DEF Linked, CompilerTypes, TypeOK
  <2>2. \A c \in modules : status'[c] \in Accepted BY <1>1, <1>3, <1>7 DEF Linked
  <2>3. \A c \in modules : \A s \in Declared(c)' : dylib'[s] # Undefined /\ Owners({s})' \subseteq modules
    <3>. SUFFICES ASSUME NEW c \in modules, NEW s \in Declared(c)
                  PROVE  dylib'[s] # Undefined /\ Owners({s})' \subseteq modules
      BY <1>10
    <3>1. s \in Symbol BY <1>4, SymbolTypes
    <3>2. dylib[s] # Undefined /\ Owners({s}) \subseteq modules BY <1>1 DEF Linked
    <3>. QED BY <1>5, <1>9, <3>1, <3>2
  <2>4. \A p \in pointers' : /\ dylib'[PointerSymbol(p)'] = p.target /\ p.target # Undefined
                             /\ Owners({PointerSymbol(p)})' \subseteq modules
    <3>1. pointers' = pointers BY <1>2
    <3>. SUFFICES ASSUME NEW p \in pointers
                  PROVE  /\ dylib'[PointerSymbol(p)'] = p.target /\ p.target # Undefined
                         /\ Owners({PointerSymbol(p)})' \subseteq modules
      BY <3>1
    <3>2. PICK s \in Symbol : s = PointerSymbol(p) /\ s = PointerSymbol(p)' BY <1>11
    <3>3. dylib[s] = p.target /\ p.target # Undefined /\ Owners({s}) \subseteq modules
      BY <1>1, <3>2 DEF Linked
    <3>4. dylib'[s] = dylib[s] /\ Owners({s})' = Owners({s}) BY <1>5, <1>9, <3>2, <3>3
    <3>5. Owners({PointerSymbol(p)})' = Owners({s})' BY <3>2 DEF Owners
    <3>. QED BY <3>2, <3>3, <3>4, <3>5
  <2>. QED BY <2>1, <2>2, <2>3, <2>4 DEF Linked
<1>13. KeepsPointers BY <1>1, <1>2, <1>5, <1>11 DEF KeepsPointers, Linked
<1>14. PointersKnown' BY <1>2 DEF LinkInv, PointersKnown
<1>. QED BY <1>6, <1>8, <1>12, <1>13, <1>14 DEF LinkInv

(* A member of a linked set links: all it reaches is in the set, and       *)
(* defined.                                                                *)
LEMMA MembersLink ==
  ASSUME CompilerTypes, NEW modules \in SUBSET Builder, Linked(modules), NEW c \in modules,
         NEW s \in Wanted(Declared(c))
  PROVE  Resolve(s) # Undefined
<1>1. Declared(c) \in SUBSET Symbol BY SymbolTypes
<1>2. \A d \in modules : Owners(Declared(d)) \subseteq modules
  BY DEF Linked, Owners
<1>3. Reached(Declared(c)) \subseteq modules BY <1>1, <1>2, ReachedClosed
<1>4. PICK d \in modules : s \in Declared(d) BY <1>3 DEF Wanted
<1>5. dylib[s] # Undefined BY <1>4 DEF Linked
<1>. QED BY <1>5 DEF Resolve

LEMMA ResolveTypes ==
  ASSUME CompilerTypes, NEW s \in Symbol
  PROVE  Resolve(s) \in Definition /\ (Resolve(s) = dylib[s] \/ Resolve(s).builder = None)
<1>1. s.name \in Name BY DEF Symbol
<1>2. \/ Generated(s) = Undefined
      \/ \E a \in Native : Generated(s) = Absolute(a)
  <2>1. external_symbols_[s.name] # None => external_symbols_[s.name] \in Native
    BY <1>1 DEF Native, CompilerTypes, TypeOK
  <2>2. s.name \in DOMAIN Process => Process[s.name] \in Native BY DEF Native
  <2>. QED BY <2>1, <2>2 DEF Generated
<1>3. Generated(s) \in Definition BY <1>2 DEF Definition
<1>4. Generated(s).builder = None BY <1>2 DEF Undefined, Absolute
<1>. QED BY <1>3, <1>4, SymbolTypes DEF Resolve

(* A module that calls one that cannot be linked cannot be linked itself.  *)
LEMMA BreakingSpreads ==
  ASSUME CompilerTypes, NEW c \in Builder, NEW d \in Owners(Declared(c)), status[d] = "added",
         NEW s \in Wanted(Declared(d))
  PROVE  s \in Wanted(Declared(c))
<1>1. Declared(c) \in SUBSET Symbol BY SymbolTypes
<1>2. /\ d \in Reached(Declared(c)) /\ d \in Builder
      /\ Reached(Declared(c)) \in SUBSET Builder
      /\ \A e \in Reached(Declared(c)) : Owners(Declared(e)) \subseteq Reached(Declared(c))
  BY <1>1, ReachedClosed
<1>3. Declared(d) \in SUBSET Symbol BY <1>2, SymbolTypes
<1>4. Reached(Declared(d)) \subseteq Reached(Declared(c)) BY <1>2, <1>3, ReachedClosed
<1>. QED BY <1>2, <1>4 DEF Wanted

(* The lookup of a symbol: what it breaks was not linked, and what it      *)
(* reaches and does not break is linked afterwards.                        *)
TableAfter(symbol) ==
  [s \in Symbol |-> IF dylib[s].builder \in Broken({symbol}) THEN Undefined
                    ELSE IF s \in Wanted({symbol}) THEN Resolve(s) ELSE dylib[s]]
LinkedAfter(modules, symbol) == modules \cup (Reached({symbol}) \ Broken({symbol}))

LEMMA LookupLinks ==
  ASSUME CompilerTypes, OwnersAccepted, NEW modules \in SUBSET Builder, Linked(modules),
         NEW symbol \in Symbol
  PROVE  /\ LinkedAfter(modules, symbol) \in SUBSET Builder /\ Broken({symbol}) \in SUBSET Builder
         /\ Broken({symbol}) \cap LinkedAfter(modules, symbol) = {}
         /\ \A c \in LinkedAfter(modules, symbol) : status[c] \in Accepted
         /\ \A s \in Symbol :
              /\ TableAfter(symbol)[s] \in Definition
              /\ dylib[s] # Undefined /\ dylib[s].builder \notin Broken({symbol})
                   => TableAfter(symbol)[s] = dylib[s]
              /\ TableAfter(symbol)[s].builder # None
                   => /\ TableAfter(symbol)[s] = dylib[s]
                      /\ TableAfter(symbol)[s].builder \notin Broken({symbol})
         /\ \A c \in LinkedAfter(modules, symbol) : \A s \in Declared(c) :
              /\ TableAfter(symbol)[s] # Undefined
              /\ TableAfter(symbol)[s].builder \in LinkedAfter(modules, symbol) \cup {None}
<1> DEFINE reached == Reached({symbol})
           broken == Broken({symbol})
           after == modules \cup (reached \ broken)
           linked == TableAfter(symbol)
<1>1. after = LinkedAfter(modules, symbol) BY DEF LinkedAfter
<1>2. /\ reached \in SUBSET Builder /\ broken \in SUBSET reached
      /\ Owners({symbol}) \subseteq reached
      /\ \A c \in reached : Owners(Declared(c)) \subseteq reached
  BY ReachedClosed DEF Broken
<1>3. broken \cap modules = {} BY MembersLink DEF Broken
<1>4. ASSUME NEW c \in reached PROVE status[c] \in Accepted
  <2> DEFINE accepted == {d \in Builder : status[d] \in Accepted}
  <2>1. \A symbols \in SUBSET Symbol : Owners(symbols) \subseteq accepted
    BY SymbolTypes DEF OwnersAccepted, Owners
  <2>2. \A d \in Builder : Owners(Declared(d)) \subseteq accepted BY <2>1, SymbolTypes
  <2>3. Owners({symbol}) \subseteq accepted BY <2>1
  <2>4. accepted \in SUBSET Builder OBVIOUS
  <2>. HIDE DEF accepted
  <2>5. reached \subseteq accepted BY <2>2, <2>3, <2>4, ReachedClosed
  <2>6. c \in accepted BY <2>5
  <2>. QED BY <2>6 DEF accepted
<1>5. \A c \in after : status[c] \in Accepted BY <1>4 DEF Linked
<1>6. None \notin broken BY <1>2, CompilerAssumption
<1>7. ASSUME NEW s \in Symbol
      PROVE  /\ linked[s] \in Definition
             /\ dylib[s] # Undefined /\ dylib[s].builder \notin broken => linked[s] = dylib[s]
             /\ linked[s].builder # None => linked[s] = dylib[s] /\ linked[s].builder \notin broken
  <2>1. Undefined \in Definition /\ Undefined.builder = None BY DEF Definition, Undefined
  <2>2. CASE dylib[s].builder \in broken BY <2>1, <2>2 DEF TableAfter
  <2>3. CASE dylib[s].builder \notin broken /\ s \in Wanted({symbol})
    <3>1. linked[s] = Resolve(s) BY <2>3 DEF TableAfter
    <3>2. dylib[s] # Undefined => Resolve(s) = dylib[s] BY DEF Resolve
    <3>. QED BY <2>3, <3>1, <3>2, ResolveTypes
  <2>4. CASE dylib[s].builder \notin broken /\ s \notin Wanted({symbol})
    <3>1. linked[s] = dylib[s] BY <2>4 DEF TableAfter
    <3>. QED BY <2>4, <3>1, SymbolTypes
  <2>. QED BY <2>2, <2>3, <2>4
<1>8. ASSUME NEW c \in after, NEW s \in Declared(c)
      PROVE  linked[s] # Undefined /\ linked[s].builder \in after \cup {None}
  <2>1. s \in Symbol /\ c \in Builder BY <1>2, SymbolTypes
  <2>2. dylib[s].builder # None => dylib[s].builder \in Owners(Declared(c)) BY DEF Owners
  <2>3. CASE c \in modules
    <3>1. dylib[s] # Undefined /\ Owners({s}) \subseteq modules BY <2>3 DEF Linked
    <3>2. dylib[s].builder \in modules \cup {None} BY <3>1 DEF Owners
    <3>3. dylib[s].builder \notin broken BY <1>3, <1>6, <3>2
    <3>. QED BY <1>7, <2>1, <3>1, <3>2, <3>3
  <2>4. CASE c \notin modules
    <3>1. c \in reached \ broken /\ status[c] = "added"
      BY <1>4, <2>1, <2>4 DEF Linked, Accepted
    <3>2. \A t \in Wanted(Declared(c)) : Resolve(t) # Undefined BY <3>1 DEF Broken
    <3>3. dylib[s].builder \notin broken
      <4>. SUFFICES ASSUME dylib[s].builder \in broken PROVE FALSE OBVIOUS
      <4> DEFINE d == dylib[s].builder
      <4>1. d \in Owners(Declared(c)) /\ d \in reached /\ d \notin modules BY <1>2, <1>3, <1>6, <2>2
      <4>2. status[d] = "added" BY <1>2, <1>4, <4>1 DEF Linked, Accepted
      <4>3. PICK t \in Wanted(Declared(d)) : Resolve(t) = Undefined BY DEF Broken
      <4>4. t \in Wanted(Declared(c)) BY <2>1, <4>1, <4>2, BreakingSpreads
      <4>. QED BY <3>2, <4>3, <4>4
    <3>4. s \in Wanted(Declared(c)) /\ s \in Wanted({symbol}) BY <3>1 DEF Wanted
    <3>5. linked[s] = Resolve(s) /\ linked[s] # Undefined BY <2>1, <3>2, <3>3, <3>4 DEF TableAfter
    <3>6. linked[s].builder # None => linked[s].builder \in reached \ broken
      BY <1>2, <1>7, <2>1, <2>2, <3>1
    <3>. QED BY <3>5, <3>6
  <2>. QED BY <2>3, <2>4
<1>. QED BY <1>1, <1>2, <1>3, <1>5, <1>7, <1>8

LEMMA GetKeeps ==
  ASSUME LinkInv, NEW b \in Builder, GetAddress(b)
  PROVE  LinkInv' /\ KeepsPointers
<1>1. PICK modules \in SUBSET Builder : Linked(modules) BY DEF LinkInv
<1>2. PICK i \in DOMAIN entities[b] :
        LET symbol == Plain(entities[b][i].name)
            broken == Broken({symbol})
            linked == [s \in Symbol |->
                         IF dylib[s].builder \in broken THEN Undefined
                         ELSE IF s \in Wanted({symbol}) THEN Resolve(s) ELSE dylib[s]]
            reached == {c \in Reached({symbol}) \ broken : status[c] = "added"}
        IN
          /\ dylib' = linked
          /\ \E loaded \in SUBSET reached :
               status' = [c \in Builder |-> IF c \in broken THEN "broken"
                                            ELSE IF c \in loaded THEN "loaded"
                                            ELSE status[c]]
          /\ pointers' = IF linked[symbol] = Undefined \/ broken # {} THEN pointers
                         ELSE pointers \cup {[builder |-> b, index |-> i, target |-> linked[symbol]]}
          /\ UNCHANGED <<source_file_, entities, external_symbols_, source_directory_>>
  BY DEF GetAddress
<1> DEFINE symbol == Plain(entities[b][i].name)
           broken == Broken({symbol})
<1>3. CompilerTypes /\ OwnersAccepted /\ i \in 1..MaxEntities
  BY CompilerAssumption DEF LinkInv, CompilerTypes, TypeOK
<1>4. \A c \in Builder : \A j \in DOMAIN entities[c] : Plain(entities[c][j].name) \in Symbol
  <2>. SUFFICES ASSUME NEW c \in Builder, NEW j \in DOMAIN entities[c]
                PROVE  Plain(entities[c][j].name) \in Symbol
    OBVIOUS
  <2>1. entities[c][j].name \in Name BY <1>3, SymbolTypes DEF Entity
  <2>2. 0 \in 0..MaxEntities - 1 BY CompilerAssumption
  <2>. QED BY <2>1, <2>2 DEF Plain, Symbol
<1>5. symbol \in Symbol BY <1>4
<1>6. PICK new : new = [builder |-> b, index |-> i, target |-> dylib'[symbol]] OBVIOUS
<1>7. PICK after : after = LinkedAfter(modules, symbol) OBVIOUS
<1>8. /\ dylib' = TableAfter(symbol)
      /\ pointers' \in {pointers, pointers \cup {new}}
      /\ pointers' = pointers \/ dylib'[symbol] # Undefined
      /\ UNCHANGED <<source_file_, entities, external_symbols_, source_directory_>>
  BY <1>2, <1>6 DEF TableAfter
<1>9. PICK loaded \in SUBSET (Reached({symbol}) \ broken) :
        status' = [c \in Builder |-> IF c \in broken THEN "broken"
                                     ELSE IF c \in loaded THEN "loaded" ELSE status[c]]
  BY <1>2
<1>. HIDE DEF symbol
<1>10. /\ after \in SUBSET Builder /\ broken \in SUBSET Builder /\ broken \cap after = {}
       /\ \A c \in after : status[c] \in Accepted
       /\ \A s \in Symbol :
            /\ dylib'[s] \in Definition
            /\ dylib[s] # Undefined /\ dylib[s].builder \notin broken => dylib'[s] = dylib[s]
            /\ dylib'[s].builder # None => dylib'[s] = dylib[s] /\ dylib'[s].builder \notin broken
       /\ \A c \in after : \A s \in Declared(c) :
            dylib'[s] # Undefined /\ dylib'[s].builder \in after \cup {None}
  BY <1>1, <1>3, <1>5, <1>7, <1>8, LookupLinks
<1>11. None \notin broken BY <1>10, CompilerAssumption
<1>12. \A p \in pointers : /\ PointerSymbol(p) \in Symbol
                           /\ dylib'[PointerSymbol(p)] = p.target
                           /\ p.target # Undefined /\ p.target.builder \in modules \cup {None}
  <2>. SUFFICES ASSUME NEW p \in pointers
                PROVE  /\ PointerSymbol(p) \in Symbol
                       /\ dylib'[PointerSymbol(p)] = p.target
                       /\ p.target # Undefined /\ p.target.builder \in modules \cup {None}
    OBVIOUS
  <2>1. p.builder \in Builder /\ p.index \in DOMAIN entities[p.builder]
    BY DEF LinkInv, CompilerTypes, TypeOK, PointersKnown
  <2>2. PointerSymbol(p) \in Symbol BY <1>4, <2>1 DEF PointerSymbol
  <2>3. dylib[PointerSymbol(p)] = p.target /\ p.target # Undefined
        /\ Owners({PointerSymbol(p)}) \subseteq modules
    BY <1>1 DEF Linked
  <2>4. p.target.builder \in modules \cup {None} BY <2>3 DEF Owners
  <2>5. p.target.builder \notin broken BY <1>7, <1>10, <1>11, <2>4 DEF LinkedAfter
  <2>. QED BY <1>10, <2>2, <2>3, <2>4, <2>5
<1>13. KeepsPointers BY <1>8, <1>12 DEF KeepsPointers
<1>14. new \in [builder : Builder, index : 1..MaxEntities, target : Definition]
  BY <1>3, <1>5, <1>6, <1>10
<1>15. CompilerTypes'
  <2>1. status' \in [Builder -> {"unused", "open", "added", "loaded", "rejected", "broken"}]
    BY <1>3, <1>9 DEF CompilerTypes, TypeOK
  <2>2. dylib' \in [Symbol -> Definition] BY <1>8, <1>10 DEF TableAfter
  <2>. QED BY <1>3, <1>8, <1>14, <2>1, <2>2 DEF CompilerTypes, TypeOK
<1>16. PointersKnown'
  <2>. SUFFICES ASSUME NEW p \in pointers' PROVE p.index \in DOMAIN entities[p.builder]
    BY <1>8 DEF PointersKnown
  <2>1. CASE p \in pointers BY <2>1 DEF LinkInv, PointersKnown
  <2>2. CASE p = new BY <1>6, <2>2
  <2>. QED BY <1>8, <2>1, <2>2
<1>17. \A c \in Builder : c \notin broken /\ status[c] \in Accepted => status'[c] \in Accepted
  BY <1>9 DEF Accepted
<1>18. OwnersAccepted'
  <2>. SUFFICES ASSUME NEW s \in Symbol, NEW c \in Builder, dylib'[s].builder = c
                PROVE  status'[c] \in Accepted
    BY DEF OwnersAccepted
  <2>1. c # None BY CompilerAssumption
  <2>2. dylib[s].builder = c /\ c \notin broken BY <1>10, <2>1
  <2>. QED BY <1>3, <1>17, <2>2 DEF OwnersAccepted
<1>19. Linked(after)'
  <2>1. \A c \in Builder : status'[c] = "loaded" => c \in after
    BY <1>1, <1>7, <1>9 DEF Linked, LinkedAfter
  <2>2. \A c \in after : status'[c] \in Accepted BY <1>10, <1>17
  <2>3. \A c \in after : \A s \in Declared(c)' : dylib'[s] # Undefined /\ Owners({s})' \subseteq after
    <3>1. \A c : Declared(c)' = Declared(c) BY <1>8 DEF Declared, Functions
    <3>. QED BY <1>10, <3>1 DEF Owners
  <2>4. ASSUME NEW p \in pointers'
        PROVE  /\ dylib'[PointerSymbol(p)'] = p.target /\ p.target # Undefined
               /\ Owners({PointerSymbol(p)})' \subseteq after
    <3>1. PointerSymbol(p)' = PointerSymbol(p) BY <1>8 DEF PointerSymbol
    <3>2. CASE p \in pointers
      BY <1>7, <1>12, <3>1, <3>2 DEF Owners, LinkedAfter
    <3>3. CASE p = new /\ pointers' # pointers
      <4>1. PointerSymbol(p) = symbol /\ p.target = dylib'[symbol] BY <1>6, <3>3 DEF symbol, PointerSymbol
      <4>2. dylib'[symbol].builder # None => dylib'[symbol].builder \in after
        <5>1. Owners({symbol}) \subseteq Reached({symbol}) BY <1>3, <1>5, ReachedClosed
        <5>. QED BY <1>5, <1>7, <1>10, <5>1 DEF Owners, LinkedAfter
      <4>. QED BY <1>8, <3>1, <3>3, <4>1, <4>2 DEF Owners
    <3>. QED BY <1>8, <3>2, <3>3
  <2>. QED BY <2>1, <2>2, <2>3, <2>4 DEF Linked
<1>. QED BY <1>10, <1>13, <1>15, <1>16, <1>18, <1>19 DEF LinkInv

LEMMA LinkSteps ==
  ASSUME LinkInv, [Next]_vars
  PROVE  LinkInv' /\ KeepsPointers
<1>1. CASE UNCHANGED vars
  <2>1. CompilerTypes' /\ PointersKnown' /\ OwnersAccepted'
    BY <1>1 DEF vars, LinkInv, CompilerTypes, TypeOK, PointersKnown, OwnersAccepted
  <2>2. \A modules : Linked(modules)' = Linked(modules)
    BY <1>1 DEF vars, Linked, Owners, Declared, Functions, PointerSymbol
  <2>3. LinkInv' BY <2>1, <2>2 DEF LinkInv
  <2>4. \A p \in pointers : dylib[PointerSymbol(p)] = p.target BY DEF LinkInv, Linked
  <2>. QED BY <1>1, <2>3, <2>4 DEF vars, KeepsPointers
<1>2. ASSUME NEW b \in Builder,
             \/ Open(b) \/ CreateFunction(b) \/ DeclareExternal(b) \/ CallMemcmp(b)
             \/ Build(b) \/ GetAddress(b)
      PROVE  LinkInv' /\ KeepsPointers
  <2>1. CASE Open(b) \/ CreateFunction(b) \/ DeclareExternal(b) \/ CallMemcmp(b)
    BY <2>1, FillSteps, FillKeeps DEF LinkInv
  <2>2. CASE Build(b) BY <2>2, BuildKeeps
  <2>3. CASE GetAddress(b) BY <2>3, GetKeeps
  <2>. QED BY <1>2, <2>1, <2>2, <2>3
<1>. QED BY <1>1, <1>2 DEF Next

LEMMA LinkAlways == Spec => []LinkInv
<1>1. LinkInv /\ [Next]_vars => LinkInv' BY LinkSteps
<1>. QED BY <1>1, LinkInit, PTL DEF Spec

(* Whatever the client does: same names, redeclared functions, modules     *)
(* refused or broken, in any order.                                        *)
THEOREM CompilerTypeCorrect == Spec => []TypeOK
<1>1. LinkInv => TypeOK BY DEF LinkInv, CompilerTypes
<1>. QED BY <1>1, LinkAlways, PTL

(* A loaded module never jumps into code that is gone.                     *)
THEOREM LoadedCodeStaysLinked == Spec => []CallsStayLinked
<1>1. LinkInv => CallsStayLinked
  BY CompilerAssumption DEF LinkInv, Linked, CallsStayLinked, Owners, Accepted
<1>. QED BY <1>1, LinkAlways, PTL

(* README.md: "All function pointers to the compiled code remain valid     *)
(* during its lifetime": a symbol handed out keeps its definition.         *)
THEOREM PointersNeverDangle == Spec => PointersStayValid
<1>1. LinkInv /\ [Next]_vars => [\A p \in pointers :
          LET symbol == Plain(entities[p.builder][p.index].name) IN
          p \in pointers' /\ dylib'[symbol] = p.target]_vars
  BY LinkSteps DEF KeepsPointers, PointerSymbol
<1>. QED BY <1>1, LinkAlways, PTL DEF Spec, PointersStayValid

-----------------------------------------------------------------------------
(* What a client gets that names no function twice, declares an external   *)
(* function with one address and calls memcmp once in a module.  (Two      *)
(* builders may still define one function: build() refuses the second.)    *)
Orderly == Liberties \subseteq {"same_file"}

PlainSymbols == \A b \in Builder : \A i \in DOMAIN entities[b] :
                  entities[b][i].symbol = Plain(entities[b][i].name)
NamesApart   == \A b \in Builder : \A i, j \in DOMAIN entities[b] :
                  entities[b][i].name = entities[b][j].name => i = j
MemcmpNamed  == \A b \in Builder : \A i \in DOMAIN entities[b] :
                  entities[b][i].kind = "memcmp" <=> entities[b][i].name = Memcmp
KindsApart   == \A b, c \in Builder : \A i \in DOMAIN entities[b] : \A j \in DOMAIN entities[c] :
                  entities[b][i].kind = "function" /\ entities[c][j].kind = "external"
                    => entities[b][i].name # entities[c][j].name
ExternalsDeclared ==
  /\ external_symbols_[Memcmp] = None
  /\ \A b \in Builder : \A i \in DOMAIN entities[b] :
       entities[b][i].kind = "external" =>
         /\ entities[b][i].address \in Address
         /\ external_symbols_[entities[b][i].name] = entities[b][i].address
ModuleOrder == PlainSymbols /\ NamesApart /\ MemcmpNamed /\ KindsApart /\ ExternalsDeclared

FunctionsDefined == \A b \in Builder : status[b] \in Accepted =>
                      \A i \in Functions(b) : dylib[entities[b][i].symbol] = InModule(b, i)
(* A symbol is a function's, or an external function's, or memcmp's.       *)
TableTrue == \A s \in Symbol : dylib[s] # Undefined =>
  \/ \E b \in Builder : \E i \in Functions(b) :
       entities[b][i].symbol = s /\ dylib[s] = InModule(b, i)
  \/ external_symbols_[s.name] # None /\ dylib[s] = Absolute(external_symbols_[s.name])
  \/ s.name = Memcmp /\ dylib[s] = Absolute(Process[Memcmp])
PointersOfRefs == \A p \in pointers :
  status[p.builder] \in Accepted /\ entities[p.builder][p.index].kind # "memcmp"
NoneBroken == \A b \in Builder : status[b] # "broken"
OrderInv == ModuleOrder /\ FunctionsDefined /\ TableTrue /\ PointersOfRefs /\ NoneBroken

LEMMA OrderInit == Init => OrderInv
<1>. SUFFICES ASSUME Init PROVE OrderInv OBVIOUS
<1>1. ModuleOrder
  BY CompilerAssumption
  DEF Init, ModuleOrder, PlainSymbols, NamesApart, MemcmpNamed, KindsApart, ExternalsDeclared
<1>2. TableTrue BY DEF Init, TableTrue
<1>. QED
  BY <1>1, <1>2 DEF Init, OrderInv, FunctionsDefined, PointersOfRefs, NoneBroken, Accepted

(* One more entity, of a name its module does not hold and which is not a  *)
(* function in one module and an external in another.                      *)
LEMMA AddKeeps ==
  ASSUME OrderInv, LinkInv, NEW b \in Builder, NEW name \in Name,
         NEW kind \in {"function", "external", "memcmp"}, NEW address \in Address \cup {None},
         Add(b, kind, name, address), UNCHANGED <<status, dylib, pointers>>,
         \A i \in DOMAIN entities[b] : entities[b][i].name # name,
         kind = "memcmp" <=> name = Memcmp,
         kind = "function" => \A c \in Builder : ~Holds(c, {"external"}, name),
         kind = "external" => \A c \in Builder : ~Holds(c, {"function"}, name),
         external_symbols_'[Memcmp] = None,
         \A n \in Name : external_symbols_[n] # None => external_symbols_'[n] = external_symbols_[n],
         kind = "external" => address \in Address /\ external_symbols_'[name] = address
  PROVE  OrderInv'
<1> DEFINE last == Len(entities[b]) + 1
           new == [kind |-> kind, name |-> name, symbol |-> Plain(name), address |-> address]
<1>1. CompilerTypes /\ status[b] = "open" BY DEF LinkInv, Add
<1>2. NewSymbol(b, name) = Plain(name)
  <2>1. \A n : Plain(n).name = n BY DEF Plain
  <2>2. \A i \in DOMAIN entities[b] : entities[b][i].symbol # Plain(name)
    BY <2>1 DEF OrderInv, ModuleOrder, PlainSymbols
  <2>. QED BY <2>2 DEF NewSymbol
<1>3. /\ \A c \in Builder \ {b} : entities'[c] = entities[c]
      /\ \A i \in DOMAIN entities[b] : i \in DOMAIN entities'[b] /\ entities'[b][i] = entities[b][i]
      /\ DOMAIN entities'[b] = DOMAIN entities[b] \cup {last}
      /\ entities'[b][last] = new
  BY <1>1, <1>2, AddTypes
<1>4. \A c \in Builder : \A i \in DOMAIN entities'[c] :
        \/ i \in DOMAIN entities[c] /\ entities'[c][i] = entities[c][i]
        \/ c = b /\ i = last /\ entities'[c][i] = new
  BY <1>3
<1>5. \A c \in Builder : \A i \in DOMAIN entities[c] :
        i \in DOMAIN entities'[c] /\ entities'[c][i] = entities[c][i]
  BY <1>3
<1>. HIDE DEF last, new
<1>6. new.kind = kind /\ new.name = name /\ new.symbol = Plain(name) /\ new.address = address
  BY DEF new
<1>7. ModuleOrder'
  <2>1. PlainSymbols' BY <1>4, <1>6 DEF OrderInv, ModuleOrder, PlainSymbols
  <2>2. NamesApart' BY <1>4, <1>6 DEF OrderInv, ModuleOrder, NamesApart
  <2>3. MemcmpNamed' BY <1>4, <1>6 DEF OrderInv, ModuleOrder, MemcmpNamed
  <2>4. KindsApart'
    <3>. SUFFICES ASSUME NEW c \in Builder, NEW d \in Builder,
                         NEW i \in DOMAIN entities'[c], NEW j \in DOMAIN entities'[d],
                         entities'[c][i].kind = "function", entities'[d][j].kind = "external",
                         entities'[c][i].name = entities'[d][j].name
                  PROVE  FALSE
      BY DEF KindsApart
    <3>1. CASE c = b /\ i = last /\ entities'[c][i] = new
      <4>1. j \in DOMAIN entities[d] /\ entities'[d][j] = entities[d][j] BY <1>4, <1>6, <3>1
      <4>. QED BY <1>6, <3>1, <4>1 DEF Holds
    <3>2. CASE d = b /\ j = last /\ entities'[d][j] = new
      <4>1. i \in DOMAIN entities[c] /\ entities'[c][i] = entities[c][i] BY <1>4, <1>6, <3>2
      <4>. QED BY <1>6, <3>2, <4>1 DEF Holds
    <3>3. CASE /\ i \in DOMAIN entities[c] /\ entities'[c][i] = entities[c][i]
               /\ j \in DOMAIN entities[d] /\ entities'[d][j] = entities[d][j]
      BY <3>3 DEF OrderInv, ModuleOrder, KindsApart
    <3>. QED BY <1>4, <3>1, <3>2, <3>3
  <2>5. ExternalsDeclared'
    <3>. SUFFICES ASSUME NEW c \in Builder, NEW i \in DOMAIN entities'[c],
                         entities'[c][i].kind = "external"
                  PROVE  /\ entities'[c][i].address \in Address
                         /\ external_symbols_'[entities'[c][i].name] = entities'[c][i].address
      BY DEF ExternalsDeclared
    <3>1. CASE c = b /\ i = last /\ entities'[c][i] = new BY <1>6, <3>1
    <3>2. CASE i \in DOMAIN entities[c] /\ entities'[c][i] = entities[c][i]
      <4>1. /\ entities[c][i].address \in Address /\ entities[c][i].name \in Name
            /\ external_symbols_[entities[c][i].name] = entities[c][i].address
        BY <1>1, <3>2, SymbolTypes DEF OrderInv, ModuleOrder, ExternalsDeclared, Entity
      <4>2. entities[c][i].address # None BY <4>1, CompilerAssumption
      <4>. QED BY <3>2, <4>1, <4>2
    <3>. QED BY <1>4, <3>1, <3>2
  <2>. QED BY <2>1, <2>2, <2>3, <2>4, <2>5 DEF ModuleOrder
<1>8. FunctionsDefined'
  <2>. SUFFICES ASSUME NEW c \in Builder, status[c] \in Accepted, NEW i \in Functions(c)'
                PROVE  dylib[entities'[c][i].symbol] = InModule(c, i)
    BY DEF FunctionsDefined
  <2>1. c # b BY <1>1 DEF Accepted
  <2>2. entities'[c] = entities[c] BY <1>3, <2>1
  <2>3. i \in Functions(c) BY <2>2 DEF Functions
  <2>. QED BY <2>2, <2>3 DEF OrderInv, FunctionsDefined
<1>9. TableTrue'
  <2>. SUFFICES ASSUME NEW s \in Symbol, dylib[s] # Undefined
                PROVE  \/ \E c \in Builder : \E i \in Functions(c)' :
                            entities'[c][i].symbol = s /\ dylib[s] = InModule(c, i)
                       \/ /\ external_symbols_'[s.name] # None
                          /\ dylib[s] = Absolute(external_symbols_'[s.name])
                       \/ s.name = Memcmp /\ dylib[s] = Absolute(Process[Memcmp])
    BY DEF TableTrue
  <2>1. \A c \in Builder : \A i \in Functions(c) :
          i \in Functions(c)' /\ entities'[c][i].symbol = entities[c][i].symbol
    BY <1>5 DEF Functions
  <2>2. s.name \in Name BY DEF Symbol
  <2>. QED BY <2>1, <2>2 DEF OrderInv, TableTrue
<1>10. PointersOfRefs'
  BY <1>5 DEF OrderInv, LinkInv, CompilerTypes, TypeOK, PointersKnown, PointersOfRefs
<1>. QED BY <1>7, <1>8, <1>9, <1>10 DEF OrderInv, NoneBroken

LEMMA OrderFills ==
  ASSUME Orderly, OrderInv, LinkInv, NEW b \in Builder,
         Open(b) \/ CreateFunction(b) \/ DeclareExternal(b) \/ CallMemcmp(b)
  PROVE  OrderInv'
<1>1. \A i \in DOMAIN entities[b] : entities[b][i].kind \in {"function", "external", "memcmp"}
  BY SymbolTypes DEF LinkInv, Entity
<1>2. external_symbols_[Memcmp] = None BY DEF OrderInv, ModuleOrder, ExternalsDeclared
<1>3. CASE Open(b)
  <2>1. /\ UNCHANGED <<entities, external_symbols_, dylib, pointers>>
        /\ status' = [status EXCEPT ![b] = "open"] /\ status[b] = "unused"
    BY <1>3 DEF Open
  <2>2. ModuleOrder'
    BY <2>1 DEF OrderInv, ModuleOrder, PlainSymbols, NamesApart, MemcmpNamed, KindsApart,
                ExternalsDeclared
  <2>3. \A c \in Builder : status'[c] # status[c] => c = b /\ status'[c] = "open"
    BY <2>1 DEF LinkInv, CompilerTypes, TypeOK
  <2>4. \A c : Functions(c)' = Functions(c) BY <2>1 DEF Functions
  <2>5. TableTrue' BY <2>1, <2>4 DEF OrderInv, TableTrue
  <2>6. FunctionsDefined' /\ NoneBroken'
    BY <2>1, <2>3, <2>4 DEF OrderInv, FunctionsDefined, NoneBroken, Accepted
  <2>7. PointersOfRefs'
    BY <2>1, <2>3 DEF OrderInv, PointersOfRefs, LinkInv, CompilerTypes, TypeOK, Accepted
  <2>. QED BY <2>2, <2>5, <2>6, <2>7 DEF OrderInv
<1>4. CASE CreateFunction(b)
  <2>1. PICK name \in Name :
          /\ ~Holds(b, {"function"}, name) /\ name # Memcmp
          /\ \A c \in Builder : ~Holds(c, {"external"}, name)
          /\ Add(b, "function", name, None)
    BY <1>4 DEF CreateFunction, Orderly
  <2>2. \A i \in DOMAIN entities[b] : entities[b][i].name # name
    BY <1>1, <2>1 DEF Holds, OrderInv, ModuleOrder, MemcmpNamed
  <2>3. UNCHANGED <<status, dylib, pointers, external_symbols_>> BY <1>4 DEF CreateFunction
  <2>. QED BY <1>2, <2>1, <2>2, <2>3, AddKeeps
<1>5. CASE DeclareExternal(b)
  <2>1. PICK name \in Name, address \in Address :
          /\ ~Holds(b, {"external"}, name)
          /\ external_symbols_[name] \in {None, address} /\ name # Memcmp
          /\ \A c \in Builder : ~Holds(c, {"function"}, name)
          /\ Add(b, "external", name, address) /\ add_symbol(name, address)
    BY <1>5 DEF DeclareExternal, Orderly
  <2>2. \A i \in DOMAIN entities[b] : entities[b][i].name # name
    BY <1>1, <2>1 DEF Holds, OrderInv, ModuleOrder, MemcmpNamed
  <2>3. UNCHANGED <<status, dylib, pointers>> BY <1>5 DEF DeclareExternal
  <2>4. /\ external_symbols_'[name] = address /\ external_symbols_'[Memcmp] = None
        /\ \A n \in Name : external_symbols_[n] # None => external_symbols_'[n] = external_symbols_[n]
    BY <1>2, <2>1, CompilerAssumption DEF add_symbol, LinkInv, CompilerTypes, TypeOK
  <2>. QED BY <2>1, <2>2, <2>3, <2>4, AddKeeps
<1>6. CASE CallMemcmp(b)
  <2>1. ~Holds(b, {"memcmp"}, Memcmp) /\ Add(b, "memcmp", Memcmp, None)
    BY <1>6 DEF CallMemcmp, Orderly
  <2>2. \A i \in DOMAIN entities[b] : entities[b][i].name # Memcmp
    BY <2>1 DEF Holds, OrderInv, ModuleOrder, MemcmpNamed
  <2>3. UNCHANGED <<status, dylib, pointers, external_symbols_>> BY <1>6 DEF CallMemcmp
  <2>. QED BY <1>2, <2>1, <2>2, <2>3, AddKeeps, CompilerAssumption
<1>. QED BY <1>3, <1>4, <1>5, <1>6

LEMMA OrderBuild ==
  ASSUME OrderInv, LinkInv, NEW b \in Builder, Build(b)
  PROVE  OrderInv'
<1>1. CompilerTypes /\ status[b] = "open" /\ UNCHANGED <<entities, external_symbols_, pointers>>
  BY DEF LinkInv, Build
<1>2. \A c : Functions(c)' = Functions(c) BY <1>1 DEF Functions
<1>3. ModuleOrder'
  BY <1>1 DEF OrderInv, ModuleOrder, PlainSymbols, NamesApart, MemcmpNamed, KindsApart,
              ExternalsDeclared
<1>4. \A c \in Builder : \A i \in Functions(c) : entities[c][i] \in Entity /\ entities[c][i].symbol \in Symbol
  BY <1>1, SymbolTypes DEF Functions, Entity
<1>5. CASE Clashes(b)
  <2>1. status' = [status EXCEPT ![b] = "rejected"] /\ dylib' = dylib BY <1>5 DEF Build
  <2>2. \A c \in Builder : status'[c] = status[c] \/ (status'[c] = "rejected" /\ c = b)
    BY <1>1, <2>1 DEF CompilerTypes, TypeOK
  <2>3. FunctionsDefined' /\ NoneBroken'
    BY <1>1, <1>2, <2>1, <2>2 DEF OrderInv, FunctionsDefined, NoneBroken, Accepted
  <2>4. TableTrue' BY <1>1, <1>2, <2>1 DEF OrderInv, TableTrue
  <2>5. PointersOfRefs'
    BY <1>1, <2>2 DEF OrderInv, PointersOfRefs, CompilerTypes, TypeOK, Accepted
  <2>. QED BY <1>3, <2>3, <2>4, <2>5 DEF OrderInv
<1>6. CASE ~Clashes(b)
  <2>1. status' = [status EXCEPT ![b] = "added"] /\ dylib' = Defined(b) BY <1>6 DEF Build
  <2>2. \A c \in Builder : status'[c] = IF c = b THEN "added" ELSE status[c]
    BY <1>1, <2>1 DEF CompilerTypes, TypeOK
  <2>3. ASSUME NEW i \in Functions(b) PROVE dylib'[entities[b][i].symbol] = InModule(b, i)
    <3>. DEFINE s == entities[b][i].symbol
                j == CHOOSE k \in Functions(b) : entities[b][k].symbol = s
    <3>1. j \in Functions(b) /\ entities[b][j].symbol = s OBVIOUS
    <3>2. Plain(entities[b][j].name) = Plain(entities[b][i].name)
      BY <3>1 DEF OrderInv, ModuleOrder, PlainSymbols, Functions
    <3>3. entities[b][j].name = entities[b][i].name
      <4>1. \A n : Plain(n).name = n BY DEF Plain
      <4>. QED BY <3>2, <4>1
    <3>4. j = i BY <3>1, <3>3 DEF OrderInv, ModuleOrder, NamesApart, Functions
    <3>5. s \in Symbol BY <1>4
    <3>6. Defined(b)[s] = InModule(b, j) BY <3>5 DEF Defined
    <3>. QED BY <2>1, <3>4, <3>6
  <2>4. ASSUME NEW s \in Symbol, \A i \in Functions(b) : entities[b][i].symbol # s
        PROVE  dylib'[s] = dylib[s]
    BY <2>1, <2>4 DEF Defined
  <2>5. \A s \in Symbol : dylib[s] # Undefined => dylib'[s] = dylib[s] BY <1>6, <2>4 DEF Clashes
  <2>6. FunctionsDefined'
    <3>. SUFFICES ASSUME NEW c \in Builder, status'[c] \in Accepted, NEW i \in Functions(c)
                  PROVE  dylib'[entities[c][i].symbol] = InModule(c, i)
      BY <1>1, <1>2 DEF FunctionsDefined
    <3>1. CASE c = b BY <2>3, <3>1
    <3>2. CASE c # b
      <4>1. dylib[entities[c][i].symbol] = InModule(c, i)
        BY <2>2, <3>2 DEF OrderInv, FunctionsDefined
      <4>2. InModule(c, i) # Undefined BY CompilerAssumption DEF InModule, Undefined
      <4>. QED BY <1>4, <2>5, <4>1, <4>2
    <3>. QED BY <3>1, <3>2
  <2>7. TableTrue'
    <3>. SUFFICES ASSUME NEW s \in Symbol, dylib'[s] # Undefined
                  PROVE  \/ \E c \in Builder : \E i \in Functions(c) :
                              entities[c][i].symbol = s /\ dylib'[s] = InModule(c, i)
                         \/ /\ external_symbols_[s.name] # None
                            /\ dylib'[s] = Absolute(external_symbols_[s.name])
                         \/ s.name = Memcmp /\ dylib'[s] = Absolute(Process[Memcmp])
      BY <1>1, <1>2 DEF TableTrue
    <3>1. CASE \E i \in Functions(b) : entities[b][i].symbol = s BY <2>3, <3>1
    <3>2. CASE \A i \in Functions(b) : entities[b][i].symbol # s
      BY <2>4, <3>2 DEF OrderInv, TableTrue
    <3>. QED BY <3>1, <3>2
  <2>8. PointersOfRefs' BY <1>1, <2>2 DEF OrderInv, PointersOfRefs, LinkInv, CompilerTypes, TypeOK, Accepted
  <2>9. NoneBroken' BY <2>2 DEF OrderInv, NoneBroken
  <2>. QED BY <1>3, <2>6, <2>7, <2>8, <2>9 DEF OrderInv
<1>. QED BY <1>5, <1>6

(* Whatever a module calls can be found, in its place.                     *)
LEMMA DeclaredFound ==
  ASSUME OrderInv, LinkInv, NEW b \in Builder, NEW i \in DOMAIN entities[b] \ Functions(b)
  PROVE  LET s == entities[b][i].symbol IN
         /\ s \in Symbol /\ s.name = entities[b][i].name /\ Generated(s) # Undefined
         /\ \/ external_symbols_[s.name] # None /\ Generated(s) = Absolute(external_symbols_[s.name])
            \/ s.name = Memcmp /\ Generated(s) = Absolute(Process[Memcmp])
<1> DEFINE e == entities[b][i]
           s == e.symbol
<1>1. e \in Entity /\ s \in Symbol /\ e.kind # "function"
  BY SymbolTypes DEF LinkInv, Functions, Entity
<1>2. s = Plain(e.name) BY DEF OrderInv, ModuleOrder, PlainSymbols
<1>3. s.name = e.name /\ s.suffix = 0 BY <1>2 DEF Plain
<1>4. \A a \in Native : Absolute(a) # Undefined
  BY CompilerAssumption DEF Absolute, Undefined, Native
<1>5. CASE e.kind = "external"
  <2>1. external_symbols_[s.name] \in Address BY <1>3, <1>5 DEF OrderInv, ModuleOrder, ExternalsDeclared
  <2>2. external_symbols_[s.name] # None /\ external_symbols_[s.name] \in Native
    BY <2>1, CompilerAssumption DEF Native
  <2>. QED BY <1>1, <1>3, <1>4, <2>2 DEF Generated
<1>6. CASE e.kind = "memcmp"
  <2>1. s.name = Memcmp /\ external_symbols_[s.name] = None
    BY <1>3, <1>6 DEF OrderInv, ModuleOrder, MemcmpNamed, ExternalsDeclared
  <2>2. Memcmp \in DOMAIN Process /\ Process[Memcmp] \in Native BY CompilerAssumption DEF Native
  <2>. QED BY <1>1, <1>3, <1>4, <2>1, <2>2 DEF Generated
<1>7. e.kind \in {"function", "external", "memcmp"} BY <1>1 DEF Entity
<1>. QED BY <1>1, <1>5, <1>6, <1>7

LEMMA OrderGet ==
  ASSUME OrderInv, LinkInv, NEW b \in Builder, GetAddress(b)
  PROVE  OrderInv'
<1>1. PICK i \in DOMAIN entities[b] :
        LET symbol == Plain(entities[b][i].name)
            broken == Broken({symbol})
            linked == [s \in Symbol |->
                         IF dylib[s].builder \in broken THEN Undefined
                         ELSE IF s \in Wanted({symbol}) THEN Resolve(s) ELSE dylib[s]]
            reached == {c \in Reached({symbol}) \ broken : status[c] = "added"}
        IN
          /\ status[b] \in {"added", "loaded", "broken"} /\ entities[b][i].kind # "memcmp"
          /\ dylib' = linked
          /\ \E loaded \in SUBSET reached :
               status' = [c \in Builder |-> IF c \in broken THEN "broken"
                                            ELSE IF c \in loaded THEN "loaded"
                                            ELSE status[c]]
          /\ pointers' = IF linked[symbol] = Undefined \/ broken # {} THEN pointers
                         ELSE pointers \cup {[builder |-> b, index |-> i, target |-> linked[symbol]]}
          /\ UNCHANGED <<source_file_, entities, external_symbols_, source_directory_>>
  BY DEF GetAddress
<1> DEFINE symbol == entities[b][i].symbol
<1>2. symbol = Plain(entities[b][i].name) /\ symbol \in Symbol
  BY SymbolTypes DEF OrderInv, ModuleOrder, PlainSymbols, LinkInv, Entity
<1>3. ASSUME NEW c \in Builder, NEW s \in Declared(c)
      PROVE  /\ s \in Symbol /\ Generated(s) # Undefined
             /\ \/ external_symbols_[s.name] # None /\ Generated(s) = Absolute(external_symbols_[s.name])
                \/ s.name = Memcmp /\ Generated(s) = Absolute(Process[Memcmp])
  BY DeclaredFound DEF Declared
<1>4. \A symbols \in SUBSET Symbol : Reached(symbols) \in SUBSET Builder BY ReachedClosed DEF LinkInv
<1>5. Broken({symbol}) = {}
  <2>. SUFFICES ASSUME NEW c \in Reached({symbol}), NEW s \in Wanted(Declared(c)), Resolve(s) = Undefined
                PROVE  FALSE
    BY DEF Broken
  <2>1. c \in Builder /\ Declared(c) \in SUBSET Symbol BY <1>2, <1>4, SymbolTypes DEF LinkInv
  <2>2. PICK d \in Builder : s \in Declared(d) BY <1>4, <2>1 DEF Wanted
  <2>. QED BY <1>3, <2>2 DEF Resolve
<1>6. /\ status[b] \in Accepted /\ entities[b][i].kind # "memcmp"
      /\ dylib' = [s \in Symbol |-> IF s \in Wanted({symbol}) THEN Resolve(s) ELSE dylib[s]]
      /\ \A p \in pointers' : p \in pointers \/ (p.builder = b /\ p.index = i)
      /\ UNCHANGED <<entities, external_symbols_>>
  <2>1. dylib' = [s \in Symbol |-> IF dylib[s].builder \in Broken({symbol}) THEN Undefined
                                   ELSE IF s \in Wanted({symbol}) THEN Resolve(s) ELSE dylib[s]]
    BY <1>1, <1>2
  <2>2. dylib' = [s \in Symbol |-> IF s \in Wanted({symbol}) THEN Resolve(s) ELSE dylib[s]]
    BY <1>5, <2>1
  <2>3. \A p \in pointers' : p \in pointers \/ (p.builder = b /\ p.index = i)
    BY <1>1
  <2>4. status[b] \in Accepted BY <1>1 DEF OrderInv, NoneBroken, Accepted
  <2>. QED BY <1>1, <2>2, <2>3, <2>4
<1>7. PICK loaded \in SUBSET {c \in Reached({symbol}) : status[c] = "added"} :
        status' = [c \in Builder |-> IF c \in loaded THEN "loaded" ELSE status[c]]
  BY <1>1, <1>2, <1>5
<1>8. \A c \in Builder : \/ status'[c] = status[c]
                         \/ status[c] \in Accepted /\ status'[c] = "loaded"
  BY <1>7 DEF Accepted
<1>9. \A c : Functions(c)' = Functions(c) BY <1>6 DEF Functions
<1>10. ModuleOrder'
  BY <1>6 DEF OrderInv, ModuleOrder, PlainSymbols, NamesApart, MemcmpNamed, KindsApart,
              ExternalsDeclared
<1>11. \A s \in Symbol : dylib[s] # Undefined => dylib'[s] = dylib[s] BY <1>6 DEF Resolve
<1>12. FunctionsDefined'
  <2>. SUFFICES ASSUME NEW c \in Builder, status[c] \in Accepted, NEW j \in Functions(c)
                PROVE  dylib'[entities[c][j].symbol] = InModule(c, j)
    BY <1>6, <1>8, <1>9 DEF FunctionsDefined, Accepted
  <2>1. dylib[entities[c][j].symbol] = InModule(c, j) BY DEF OrderInv, FunctionsDefined
  <2>2. entities[c][j].symbol \in Symbol BY SymbolTypes DEF LinkInv, Functions, Entity
  <2>3. InModule(c, j) # Undefined BY CompilerAssumption DEF InModule, Undefined
  <2>. QED BY <1>11, <2>1, <2>2, <2>3
<1>13. TableTrue'
  <2>. SUFFICES ASSUME NEW s \in Symbol, dylib'[s] # Undefined
                PROVE  \/ \E c \in Builder : \E j \in Functions(c) :
                            entities[c][j].symbol = s /\ dylib'[s] = InModule(c, j)
                       \/ /\ external_symbols_[s.name] # None
                          /\ dylib'[s] = Absolute(external_symbols_[s.name])
                       \/ s.name = Memcmp /\ dylib'[s] = Absolute(Process[Memcmp])
    BY <1>6, <1>9 DEF TableTrue
  <2>1. CASE dylib[s] # Undefined BY <1>11, <2>1 DEF OrderInv, TableTrue
  <2>2. CASE dylib[s] = Undefined
    <3>1. s \in Wanted({symbol}) /\ dylib'[s] = Generated(s) BY <1>6, <2>2 DEF Resolve
    <3>2. CASE \E c \in Builder : s \in Declared(c) BY <1>3, <3>1, <3>2
    <3>3. CASE s = symbol
      <4>1. i \notin Functions(b)
        <5>. SUFFICES ASSUME i \in Functions(b) PROVE FALSE OBVIOUS
        <5>1. dylib[s] = InModule(b, i) BY <1>6, <3>3 DEF OrderInv, FunctionsDefined
        <5>. QED BY <2>2, <5>1, CompilerAssumption DEF InModule, Undefined
      <4>. QED BY <3>1, <3>3, <4>1, DeclaredFound
    <3>. QED BY <1>2, <1>4, <3>1, <3>2, <3>3 DEF Wanted
  <2>. QED BY <2>1, <2>2
<1>14. PointersOfRefs'
  <2>. SUFFICES ASSUME NEW p \in pointers'
                PROVE  status'[p.builder] \in Accepted /\ entities[p.builder][p.index].kind # "memcmp"
    BY <1>6 DEF PointersOfRefs
  <2>1. CASE p \in pointers
    <3>1. p.builder \in Builder BY <2>1 DEF LinkInv, CompilerTypes, TypeOK
    <3>. QED BY <1>8, <2>1, <3>1 DEF OrderInv, PointersOfRefs, Accepted
  <2>2. CASE p.builder = b /\ p.index = i BY <1>6, <1>8, <2>2 DEF Accepted
  <2>. QED BY <1>6, <2>1, <2>2
<1>15. NoneBroken' BY <1>8 DEF OrderInv, NoneBroken
<1>. QED BY <1>10, <1>12, <1>13, <1>14, <1>15, Zenon DEF OrderInv

LEMMA OrderAlways ==
  ASSUME Orderly
  PROVE  Spec => []OrderInv
<1>1. OrderInv /\ LinkInv /\ [Next]_vars => OrderInv'
  <2>. SUFFICES ASSUME OrderInv, LinkInv, [Next]_vars PROVE OrderInv' OBVIOUS
  <2>1. CASE UNCHANGED vars
    BY <2>1 DEF vars, OrderInv, ModuleOrder, PlainSymbols, NamesApart, MemcmpNamed, KindsApart,
                ExternalsDeclared, FunctionsDefined, TableTrue, PointersOfRefs, NoneBroken, Functions
  <2>2. CASE Next BY <2>2, OrderFills, OrderBuild, OrderGet DEF Next
  <2>. QED BY <2>1, <2>2
<1>. QED BY <1>1, OrderInit, LinkAlways, PTL DEF Spec

(* The definition of an entity's symbol, where there is one, is the        *)
(* function itself or what its declaration said.                           *)
LEMMA SymbolsMeanEntities ==
  ASSUME OrderInv, LinkInv, NEW b \in Builder, NEW i \in DOMAIN entities[b],
         dylib[entities[b][i].symbol] # Undefined
  PROVE  LET e == entities[b][i] IN
         /\ e.kind = "function" /\ status[b] \in Accepted => dylib[e.symbol] = InModule(b, i)
         /\ e.kind = "external" => dylib[e.symbol] = Absolute(e.address)
         /\ e.kind = "memcmp" => dylib[e.symbol] = Absolute(Process[Memcmp])
<1> DEFINE e == entities[b][i]
<1>1. e.kind = "function" /\ status[b] \in Accepted => dylib[e.symbol] = InModule(b, i)
  BY DEF OrderInv, FunctionsDefined, Functions
<1>2. e.symbol \in Symbol BY SymbolTypes DEF LinkInv, Entity
<1>3. \A n : Plain(n).name = n BY DEF Plain
<1>4. e.symbol.name = e.name BY <1>3 DEF OrderInv, ModuleOrder, PlainSymbols
<1>5. ASSUME e.kind # "function"
      PROVE  ~\E c \in Builder : \E j \in Functions(c) : entities[c][j].symbol = e.symbol
  <2>. SUFFICES ASSUME NEW c \in Builder, NEW j \in Functions(c), entities[c][j].symbol = e.symbol
                PROVE  FALSE
    OBVIOUS
  <2>1. j \in DOMAIN entities[c] /\ entities[c][j].kind = "function" BY DEF Functions
  <2>2. entities[c][j].name = e.name BY <1>3, <1>4, <2>1 DEF OrderInv, ModuleOrder, PlainSymbols
  <2>3. e.kind \in {"external", "memcmp"} BY <1>5, SymbolTypes DEF LinkInv, Entity
  <2>. QED BY <2>1, <2>2, <2>3 DEF OrderInv, ModuleOrder, KindsApart, MemcmpNamed
<1>6. ASSUME e.kind # "function"
      PROVE  \/ external_symbols_[e.name] # None /\ dylib[e.symbol] = Absolute(external_symbols_[e.name])
             \/ e.name = Memcmp /\ dylib[e.symbol] = Absolute(Process[Memcmp])
  BY <1>2, <1>4, <1>5, <1>6 DEF OrderInv, TableTrue
<1>7. e.kind = "external" => external_symbols_[e.name] = e.address /\ e.name # Memcmp
  BY DEF OrderInv, ModuleOrder, ExternalsDeclared, MemcmpNamed
<1>8. e.kind = "memcmp" => external_symbols_[e.name] = None
  BY DEF OrderInv, ModuleOrder, ExternalsDeclared, MemcmpNamed
<1>. QED BY <1>1, <1>6, <1>7, <1>8

(* README.md: create_function "returns a function reference that can be    *)
(* used to obtain a pointer to the function after the module is compiled": *)
(* to that very function, or to the native function declared.              *)
THEOREM PointersAreOfTheFunction ==
  ASSUME Orderly
  PROVE  Spec => []RefYieldsItsFunction
<1>1. OrderInv /\ LinkInv => RefYieldsItsFunction
  <2>. SUFFICES ASSUME OrderInv, LinkInv, NEW p \in pointers
                PROVE  LET ref == entities[p.builder][p.index] IN
                       p.target = IF ref.kind = "function" THEN InModule(p.builder, p.index)
                                  ELSE Absolute(ref.address)
    BY DEF RefYieldsItsFunction
  <2> DEFINE ref == entities[p.builder][p.index]
  <2>1. p.builder \in Builder /\ p.index \in DOMAIN entities[p.builder]
    BY DEF LinkInv, CompilerTypes, TypeOK, PointersKnown
  <2>2. ref.symbol = PointerSymbol(p)
    BY <2>1 DEF PointerSymbol, OrderInv, ModuleOrder, PlainSymbols
  <2>3. dylib[ref.symbol] = p.target /\ p.target # Undefined BY <2>2 DEF LinkInv, Linked
  <2>4. status[p.builder] \in Accepted /\ ref.kind \in {"function", "external"}
    BY <2>1, SymbolTypes DEF OrderInv, PointersOfRefs, LinkInv, Entity
  <2>. QED BY <2>1, <2>3, <2>4, SymbolsMeanEntities
<1>. QED BY <1>1, OrderAlways, LinkAlways, PTL

(* A loaded module calls, for each external function it declared, the      *)
(* address it was declared with, on the one table all modules share.       *)
THEOREM ExternalCallsAreTrue ==
  ASSUME Orderly
  PROVE  Spec => []ExternalCallsReachDeclaration
<1>1. OrderInv /\ LinkInv => ExternalCallsReachDeclaration
  <2>. SUFFICES ASSUME OrderInv, LinkInv, NEW b \in Builder, status[b] = "loaded",
                       NEW i \in DOMAIN entities[b], entities[b][i].kind = "external"
                PROVE  dylib[entities[b][i].symbol] = Absolute(entities[b][i].address)
    BY DEF ExternalCallsReachDeclaration
  <2>1. entities[b][i].symbol \in Declared(b) BY DEF Declared, Functions
  <2>2. dylib[entities[b][i].symbol] # Undefined BY <2>1 DEF LinkInv, Linked
  <2>. QED BY <2>2, SymbolsMeanEntities
<1>. QED BY <1>1, OrderAlways, LinkAlways, PTL

(* README.md on the string comparator: memcmp "is an external function".   *)
(* No module is broken, and one that calls memcmp calls the process's.     *)
THEOREM MemcmpIsTheProcess ==
  ASSUME Orderly
  PROVE  Spec => []MemcmpLinks
<1>1. OrderInv /\ LinkInv => MemcmpLinks
  <2>. SUFFICES ASSUME OrderInv, LinkInv
                PROVE  \A b \in Builder : status[b] = "loaded" => \A i \in DOMAIN entities[b] :
                         entities[b][i].kind = "memcmp" =>
                           dylib[entities[b][i].symbol] = Absolute(Process[Memcmp])
    BY DEF MemcmpLinks, OrderInv, NoneBroken
  <2>. SUFFICES ASSUME NEW b \in Builder, status[b] = "loaded",
                       NEW i \in DOMAIN entities[b], entities[b][i].kind = "memcmp"
                PROVE  dylib[entities[b][i].symbol] = Absolute(Process[Memcmp])
    OBVIOUS
  <2>1. entities[b][i].symbol \in Declared(b) BY DEF Declared, Functions
  <2>2. dylib[entities[b][i].symbol] # Undefined BY <2>1 DEF LinkInv, Linked
  <2>. QED BY <2>2, SymbolsMeanEntities
<1>. QED BY <1>1, OrderAlways, LinkAlways, PTL
=============================================================================
