------------------------ MODULE ModuleBuilderProofs ------------------------
(***************************************************************************)
(* Proofs about ModuleBuilder, for every number of functions, blocks and   *)
(* lines, every depth of nesting and every liberty of the client; and with *)
(* Exceptions, where that is said: loops through every exit and exception, *)
(* the instructions of a block, their locations and targets.               *)
(***************************************************************************)
EXTENDS Exceptions, ModuleBuilderInvariant, FiniteSetTheorems, SequenceTheorems,
        WellFoundedInduction, TLAPS

-----------------------------------------------------------------------------
(* Functions defined step by step.  Induction is over a set of naturals,   *)
(* so that it can be cited for a set defined where it is needed.           *)

LEMMA LeastNatural ==
  ASSUME NEW T, T \subseteq Nat, T # {}
  PROVE  \E x \in T : \A y \in T : x <= y
<1> DEFINE R == OpToRel(<, Nat)
<1>1. IsWellFoundedOn(R, Nat) BY NatLessThanWellFounded
<1>2. \A x, y \in Nat : x < y => <<x, y>> \in R BY DEF OpToRel
<1>. HIDE DEF R
<1>3. PICK x \in T : \A y \in T : ~(<<y, x>> \in R) BY <1>1, WFMin
<1>4. \A y \in T : x <= y
  <2>. SUFFICES ASSUME NEW y \in T, ~(x <= y) PROVE FALSE OBVIOUS
  <2>1. x \in Nat /\ y \in Nat OBVIOUS
  <2>2. y < x BY <2>1
  <2>. QED BY <1>2, <1>3, <2>1, <2>2
<1>. QED BY <1>4

LEMMA NatSetInduction ==
  ASSUME NEW S, 0 \in S, \A n \in Nat : n \in S => n + 1 \in S
  PROVE  Nat \subseteq S
<1>1. SUFFICES ASSUME Nat \ S # {} PROVE FALSE OBVIOUS
<1>2. PICK x \in Nat \ S : \A y \in Nat \ S : x <= y BY <1>1, LeastNatural
<1>3. x # 0 OBVIOUS
<1>4. x - 1 \in Nat /\ ~(x <= x - 1) /\ (x - 1) + 1 = x BY <1>3
<1>. QED BY <1>2, <1>4

(* A function that is given its first value and, for every later one, how  *)
(* it follows from the one before.                                         *)
Stepwise(h, N, first, G) == h[0] = first /\ \A n \in 1..N : h[n] = G[n][h[n - 1]]

LEMMA StepwiseFunction ==
  ASSUME NEW N \in Nat, NEW X, NEW first \in X, NEW G \in [1..N -> [X -> X]]
  PROVE  \E h \in [0..N -> X] : Stepwise(h, N, first, G)
<1> DEFINE S == {m \in Nat : m <= N => \E h \in [0..m -> X] : Stepwise(h, m, first, G)}
<1>1. 0 \in S
  <2>1. [n \in 0..0 |-> first] \in [0..0 -> X]
      /\ Stepwise([n \in 0..0 |-> first], 0, first, G)
    BY DEF Stepwise
  <2>. QED BY <2>1
<1>2. ASSUME NEW m \in Nat, m \in S PROVE m + 1 \in S
  <2>1. SUFFICES ASSUME m + 1 <= N PROVE \E h \in [0..m + 1 -> X] : Stepwise(h, m + 1, first, G) OBVIOUS
  <2>2. PICK h \in [0..m -> X] : Stepwise(h, m, first, G) BY <1>2, <2>1
  <2> DEFINE value == G[m + 1][h[m]]
             k == [n \in 0..m + 1 |-> IF n = m + 1 THEN value ELSE h[n]]
  <2>3. h[m] \in X /\ m + 1 \in 1..N BY <2>1
  <2>4. value \in X BY <2>3
  <2>5. k \in [0..m + 1 -> X] BY <2>4
  <2>6. \A n \in 0..m : k[n] = h[n] OBVIOUS
  <2>7. k[m + 1] = value OBVIOUS
  <2>. HIDE DEF k
  <2>8. ASSUME NEW n \in 1..m + 1 PROVE k[n] = G[n][k[n - 1]]
    <3>1. CASE n = m + 1
      <4>1. n - 1 = m /\ k[m] = h[m] BY <2>6, <3>1
      <4>. QED BY <2>7, <3>1, <4>1
    <3>2. CASE n # m + 1
      <4>1. n \in 1..m /\ n \in 0..m /\ n - 1 \in 0..m BY <3>2
      <4>. QED BY <2>2, <2>6, <4>1 DEF Stepwise
    <3>. QED BY <3>1, <3>2
  <2>9. k[0] = first BY <2>2, <2>6 DEF Stepwise
  <2>. QED BY <2>5, <2>8, <2>9 DEF Stepwise
<1>. HIDE DEF S
<1>3. N \in S BY <1>1, <1>2, NatSetInduction
<1>. QED BY <1>3 DEF S

(* Following F from a set for as many steps as there are elements reaches  *)
(* the least set that F does not lead out of: as long as a step adds       *)
(* something, the set has more elements than steps were taken.             *)
LEMMA ClosureReached ==
  ASSUME NEW V, IsFiniteSet(V), NEW N \in Nat, Cardinality(V) <= N,
         NEW F \in [V -> SUBSET V], NEW h \in [0..N -> SUBSET V],
         \A n \in 1..N : h[n] = h[n - 1] \cup UNION {F[b] : b \in h[n - 1]}
  PROVE  /\ h[0] \subseteq h[N]
         /\ \A b \in h[N] : F[b] \subseteq h[N]
         /\ \A T \in SUBSET V : h[0] \subseteq T /\ (\A b \in T : F[b] \subseteq T) => h[N] \subseteq T
<1> DEFINE Closed(T) == \A b \in T : F[b] \subseteq T
<1>1. ASSUME NEW m \in Nat, m + 1 <= N
      PROVE  /\ m \in 0..N /\ m + 1 \in 0..N
             /\ h[m + 1] = h[m] \cup UNION {F[b] : b \in h[m]}
  <2>1. m + 1 \in 1..N /\ (m + 1) - 1 = m /\ m \in 0..N /\ m + 1 \in 0..N BY <1>1
  <2>. QED BY <2>1
<1>2. h[0] \subseteq h[N]
  <2> DEFINE S == {m \in Nat : m <= N => h[0] \subseteq h[m]}
  <2>1. 0 \in S OBVIOUS
  <2>2. ASSUME NEW m \in Nat, m \in S PROVE m + 1 \in S BY <1>1, <2>2
  <2>. HIDE DEF S
  <2>3. N \in S BY <2>1, <2>2, NatSetInduction
  <2>. QED BY <2>3 DEF S
<1>3. ASSUME NEW T \in SUBSET V, h[0] \subseteq T, Closed(T) PROVE h[N] \subseteq T
  <2> DEFINE S == {m \in Nat : m <= N => h[m] \subseteq T}
  <2>1. 0 \in S BY <1>3
  <2>2. ASSUME NEW m \in Nat, m \in S PROVE m + 1 \in S
    <3>1. SUFFICES ASSUME m + 1 <= N PROVE h[m + 1] \subseteq T OBVIOUS
    <3>2. h[m] \subseteq T BY <2>2, <3>1
    <3>. QED BY <1>1, <1>3, <3>1, <3>2
  <2>. HIDE DEF S
  <2>3. N \in S BY <2>1, <2>2, NatSetInduction
  <2>. QED BY <2>3 DEF S
<1>4. \A T \in SUBSET V : IsFiniteSet(T) /\ Cardinality(T) \in Nat /\ Cardinality(T) <= Cardinality(V)
  BY FS_Subset, FS_CardinalityType
<1>5. Closed(h[N])
  <2> DEFINE S == {m \in Nat : m <= N => Closed(h[m]) \/ Cardinality(h[m]) > m}
  <2>1. 0 \in S
    <3>1. CASE h[0] = {} BY <3>1
    <3>2. CASE h[0] # {}
      <4>1. h[0] \in SUBSET V OBVIOUS
      <4>2. Cardinality(h[0]) # 0 BY <1>4, <3>2, <4>1, FS_EmptySet
      <4>. QED BY <1>4, <4>1, <4>2
    <3>. QED BY <3>1, <3>2
  <2>2. ASSUME NEW m \in Nat, m \in S PROVE m + 1 \in S
    <3>1. SUFFICES ASSUME m + 1 <= N, ~Closed(h[m + 1]) PROVE Cardinality(h[m + 1]) > m + 1 OBVIOUS
    <3>2. /\ h[m] \in SUBSET V /\ h[m + 1] \in SUBSET V
          /\ h[m + 1] = h[m] \cup UNION {F[b] : b \in h[m]}
      BY <1>1, <3>1
    <3>3. ~Closed(h[m]) /\ h[m + 1] # h[m]
      <4>1. ASSUME Closed(h[m]) PROVE h[m + 1] = h[m] BY <3>2, <4>1
      <4>2. ASSUME h[m + 1] = h[m] PROVE FALSE BY <3>1, <3>2, <4>2
      <4>. QED BY <4>1, <4>2
    <3>4. Cardinality(h[m]) > m BY <2>2, <3>1, <3>3
    <3>5. Cardinality(h[m]) < Cardinality(h[m + 1])
      <4>1. IsFiniteSet(h[m + 1]) /\ h[m] \in SUBSET h[m + 1] BY <1>4, <3>2
      <4>2. /\ Cardinality(h[m]) <= Cardinality(h[m + 1])
            /\ Cardinality(h[m]) = Cardinality(h[m + 1]) => h[m] = h[m + 1]
        BY <4>1, FS_Subset
      <4>. QED BY <1>4, <3>2, <3>3, <4>2
    <3>. QED BY <1>4, <3>2, <3>4, <3>5
  <2>. HIDE DEF S
  <2>3. N \in S BY <2>1, <2>2, NatSetInduction
  <2>4. h[N] \in SUBSET V OBVIOUS
  <2>. QED BY <1>4, <2>3, <2>4, FS_CardinalityType DEF S
<1>. QED BY <1>2, <1>3, <1>5

-----------------------------------------------------------------------------
(* What the stack of running lambdas keeps when one starts, returns or     *)
(* goes on to its next part.                                               *)

LEMMA TopFacts ==
  ASSUME NEW S, NEW s \in Seq(S), s # <<>>
  PROVE  /\ Len(s) \in Nat \ {0} /\ s[Len(s)] \in S
         /\ DOMAIN s = 1..Len(s) /\ Len(s) \in DOMAIN s
<1>1. Len(s) \in Nat \ {0} BY EmptySeq
<1>2. DOMAIN s = 1..Len(s) BY LenProperties
<1>3. Len(s) \in 1..Len(s) BY <1>1
<1>. QED BY <1>1, <1>2, <1>3, ElementOfSeq

LEMMA PopFacts ==
  ASSUME NEW S, NEW s \in Seq(S), s # <<>>
  PROVE  /\ SubSeq(s, 1, Len(s) - 1) \in Seq(S)
         /\ DOMAIN SubSeq(s, 1, Len(s) - 1) = 1..(Len(s) - 1)
         /\ Len(SubSeq(s, 1, Len(s) - 1)) = Len(s) - 1
         /\ \A i \in 1..(Len(s) - 1) : SubSeq(s, 1, Len(s) - 1)[i] = s[i]
<1> DEFINE t == SubSeq(s, 1, Len(s) - 1)
<1>1. Len(s) \in Nat \ {0} BY TopFacts
<1>2. \A i \in 1..(Len(s) - 1) : s[i] \in S BY <1>1, ElementOfSeq
<1>3. /\ t \in Seq(S)
      /\ Len(t) = IF 1 <= Len(s) - 1 THEN Len(s) - 1 - 1 + 1 ELSE 0
      /\ \A i \in 1..(Len(s) - 1 - 1 + 1) : t[i] = s[1 + i - 1]
  BY <1>1, <1>2, SubSeqProperties
<1>. HIDE DEF t
<1>4. Len(t) = Len(s) - 1
  <2>1. \A n \in Nat \ {0} : (IF 1 <= n - 1 THEN n - 1 - 1 + 1 ELSE 0) = n - 1
    OBVIOUS
  <2>. QED BY <1>1, <1>3, <2>1
<1>5. DOMAIN t = 1..(Len(s) - 1) BY <1>3, <1>4, LenProperties
<1>6. \A i \in 1..(Len(s) - 1) : t[i] = s[i] BY <1>1, <1>3
<1>. QED BY <1>3, <1>4, <1>5, <1>6 DEF t

LEMMA PushFacts ==
  ASSUME NEW S, NEW s \in Seq(S), NEW e \in S
  PROVE  /\ Append(s, e) \in Seq(S) /\ Append(s, e) # <<>>
         /\ Len(Append(s, e)) = Len(s) + 1 /\ Len(s) \in Nat
         /\ DOMAIN Append(s, e) = 1..(Len(s) + 1) /\ DOMAIN s = 1..Len(s)
         /\ \A i \in 1..Len(s) : Append(s, e)[i] = s[i]
         /\ Append(s, e)[Len(s) + 1] = e
  BY Z3

LEMMA ReplaceFacts ==
  ASSUME NEW S, NEW s \in Seq(S), s # <<>>, NEW e \in S
  PROVE  LET t == [s EXCEPT ![Len(s)] = e] IN
         /\ t \in Seq(S) /\ t # <<>> /\ Len(t) = Len(s) /\ DOMAIN t = DOMAIN s
         /\ t[Len(s)] = e
         /\ \A i \in 1..(Len(s) - 1) : t[i] = s[i]
<1>1. Len(s) \in Nat \ {0} BY TopFacts
<1>2. Len(s) \in 1..Len(s) BY <1>1
<1> DEFINE t == [s EXCEPT ![Len(s)] = e]
<1>3. /\ t \in Seq(S) /\ Len(t) = Len(s)
      /\ \A j \in 1..Len(s) : t[j] = IF j = Len(s) THEN e ELSE s[j]
  BY <1>2, ExceptSeq
<1>. HIDE DEF t
<1>4. t # <<>> BY <1>1, <1>3, EmptySeq
<1>5. DOMAIN t = DOMAIN s BY <1>3, LenProperties
<1>6. t[Len(s)] = e BY <1>2, <1>3
<1>7. \A i \in 1..(Len(s) - 1) : t[i] = s[i] BY <1>1, <1>3
<1>. QED BY <1>3, <1>4, <1>5, <1>6, <1>7 DEF t

-----------------------------------------------------------------------------
(* Type correctness.                                                       *)

LEMMA LineFacts ==
  ASSUME TypeOK
  PROVE  /\ line_no_ \in Nat /\ line_no_ + 1 \in Nat
         /\ \A n \in Nat : At(n) \in Location
         /\ \A kind \in LineKind : Append(source_code_, kind) \in Seq(LineKind)
<1>1. source_code_ \in Seq(LineKind) /\ dbg_scope_ \in Scope BY DEF TypeOK
<1>2. line_no_ \in Nat BY <1>1, LenProperties DEF line_no_
<1>3. \A kind \in LineKind : Append(source_code_, kind) \in Seq(LineKind)
  BY <1>1, PushFacts
<1>4. line_no_ + 1 \in Nat BY <1>2
<1>. QED BY <1>1, <1>2, <1>3, <1>4 DEF At, Location

LEMMA EmittedType ==
  ASSUME TypeOK, NEW op, NEW to \in SUBSET Block, NEW at \in Location,
         op \in {"op", "get", "alloca"} \cup Terminators
  PROVE  /\ Instruction(op, to, at) \in Instr
         /\ Emitted(Instruction(op, to, at)) \in [Block -> Seq(Instr)]
<1>1. Instruction(op, to, at) \in Instr BY DEF Instruction, Instr
<1>2. code \in [Block -> Seq(Instr)] BY DEF TypeOK
<1>3. \A b \in Block : Append(code[b], Instruction(op, to, at)) \in Seq(Instr)
  BY <1>1, <1>2, PushFacts
<1>. QED BY <1>1, <1>2, <1>3 DEF Emitted

(* The stack slot of a variable.                                           *)
LEMMA AllocaFacts ==
  ASSUME TypeOK, entry[function_] \in Block
  PROVE  /\ Alloca \in Instr /\ Alloca.op = "alloca" /\ Alloca.op \notin Terminators
         /\ Alloca.to = {}
         /\ \/ Alloca.loc = NoLoc
            \/ \E k \in DOMAIN code[entry[function_]] : Alloca.loc = code[entry[function_]][k].loc
<1> DEFINE e == entry[function_]
<1>1. NoLoc \in Location BY BoundsAssumption DEF NoLoc, FileScope, Location, Scope
<1>2. code[e] \in Seq(Instr) BY DEF TypeOK
<1>3. /\ TopLocation(e) \in Location
      /\ TopLocation(e) = NoLoc \/ \E k \in DOMAIN code[e] : TopLocation(e) = code[e][k].loc
  <2>1. CASE code[e] = <<>> BY <1>1, <2>1 DEF TopLocation
  <2>2. CASE code[e] # <<>>
    <3>1. 1 \in DOMAIN code[e] /\ code[e][1] \in Instr BY <1>2, <2>2
    <3>. QED BY <2>2, <3>1 DEF TopLocation, Instr
  <2>. QED BY <2>1, <2>2
<1>. HIDE DEF e
<1>4. Alloca = [op |-> "alloca", to |-> {}, loc |-> TopLocation(e)]
  BY DEF Alloca, Instruction, e
<1>. QED BY <1>3, <1>4 DEF Instr, Terminators, e

LEMMA NewFrameType ==
  ASSUME TypeOK, NEW kind \in FrameKind
  PROVE  NewFrame(kind) \in Frame
  BY BoundsAssumption DEF TypeOK, NewFrame, Frame, NoLoop, Loop

LEMMA ScopeFacts ==
  ASSUME NEW s \in Scope, NEW n \in Nat
  PROVE  LexicalBlock(s, n) \in Scope /\ [line |-> n, scope |-> s] \in Location
  BY DEF LexicalBlock, Scope, Location

LEMMA TopFrame ==
  ASSUME TypeOK, stack # <<>>
  PROVE  Top \in Frame /\ Outer \in Seq(Frame)
  BY TopFacts, PopFacts DEF TypeOK, Top, Outer

LEMMA CloseBranchType ==
  ASSUME TypeOK, NEW target \in Block, NEW at \in Location, CloseBranch(target, at)
  PROVE  /\ code' \in [Block -> Seq(Instr)] /\ loc' \in Location
         /\ exited_block_' \in BOOLEAN
<1>1. Emitted(Instruction("br", {target}, at)) \in [Block -> Seq(Instr)]
  BY EmittedType DEF Terminators
<1>. QED BY <1>1 DEF CloseBranch, TypeOK

LEMMA PlaceType ==
  ASSUME TypeOK, NEW b \in Block, PlaceAndInsert(b)
  PROVE  parent' \in [Block -> 0..MaxFunctions] /\ insert' \in 0..MaxBlocks
  BY BoundsAssumption DEF TypeOK, PlaceAndInsert, Block

(* The blocks create_function, if_ and while_ are about to create exist.   *)
LEMMA CreateBlocks ==
  ASSUME TypeOK, CreateFunction
  PROVE  blocks + 1 \in Block /\ blocks + 1 > blocks /\ blocks + 1 \in 0..MaxBlocks
<1>1. blocks \in 0..MaxBlocks BY DEF TypeOK
<1>2. blocks < MaxBlocks BY DEF CreateFunction
<1>3. MaxBlocks \in Nat BY BoundsAssumption
<1>. QED BY <1>1, <1>2, <1>3 DEF Block

LEMMA IfBlocks ==
  ASSUME TypeOK, NEW kind, NEW pending \in {1, 2}, IfBegin(kind, pending)
  PROVE  /\ blocks \in Nat /\ blocks + 1 \in Block /\ blocks + 1 > blocks
         /\ blocks + 2 \in Block /\ blocks + 2 > blocks
         /\ blocks + 1 + pending \in Block /\ blocks + 1 + pending > blocks
         /\ blocks + 1 + pending \in 0..MaxBlocks
         /\ (IF blocks + 2 = blocks + 1 + pending THEN 0 ELSE blocks + 2) \in 0..MaxBlocks
<1>1. blocks \in 0..MaxBlocks BY DEF TypeOK
<1>2. blocks + 1 + pending <= MaxBlocks BY DEF IfBegin
<1>3. MaxBlocks \in Nat BY BoundsAssumption
<1>. QED BY <1>1, <1>2, <1>3 DEF Block

LEMMA TestBlocks ==
  ASSUME TypeOK, WhileTest
  PROVE  /\ blocks \in Nat /\ blocks + 1 \in Block /\ blocks + 1 > blocks
         /\ blocks + 2 \in Block /\ blocks + 2 > blocks
         /\ blocks + 3 \in Block /\ blocks + 3 > blocks
         /\ blocks + 1 \in 0..MaxBlocks /\ blocks + 2 \in 0..MaxBlocks
         /\ blocks + 3 \in 0..MaxBlocks
<1>1. blocks \in 0..MaxBlocks BY DEF TypeOK
<1>2. blocks + 3 <= MaxBlocks BY DEF WhileTest
<1>3. MaxBlocks \in Nat BY BoundsAssumption
<1>. QED BY <1>1, <1>2, <1>3 DEF Block

LEMMA TypeStep ==
  ASSUME TypeOK, FramesShaped, [Next]_vars
  PROVE  TypeOK'
<1>. USE DEF MayNest, MayAdd, MayExit, MayCall
<1>1. CASE CreateFunction
  <2>. PICK fn \in Function :
         /\ function_' = fn
         /\ entry' = [entry EXCEPT ![fn] = blocks + 1]
         /\ parent' = [parent EXCEPT ![blocks + 1] = fn]
         /\ dbg_scope_' = [fn |-> fn, line |-> line_no_]
         /\ Push([NewFrame("function") EXCEPT !.fn = fn])
    BY <1>1 DEF CreateFunction, FunctionToFill
  <2>1. blocks + 1 \in Block /\ blocks + 1 \in 0..MaxBlocks BY <1>1, CreateBlocks
  <2>2. [NewFrame("function") EXCEPT !.fn = fn] \in Frame
    <3>1. NewFrame("function") \in Frame BY NewFrameType DEF FrameKind
    <3>2. fn \in 0..MaxFunctions BY BoundsAssumption DEF Function
    <3>. QED BY <3>1, <3>2 DEF Frame
  <2>3. stack' \in Seq(Frame) BY <2>2, PushFacts DEF Push, TypeOK
  <2>4. source_code_' \in Seq(LineKind) /\ dbg_scope_' \in Scope
    BY <1>1, LineFacts, BoundsAssumption DEF CreateFunction, add_line, LineKind, Scope, Function
  <2>5. /\ entry' \in [Function -> 0..MaxBlocks]
        /\ parent' \in [Block -> 0..MaxFunctions]
        /\ function_' \in 0..MaxFunctions
    <3>1. entry \in [Function -> 0..MaxBlocks] /\ parent \in [Block -> 0..MaxFunctions]
      BY DEF TypeOK
    <3>2. fn \in 0..MaxFunctions BY BoundsAssumption DEF Function
    <3>. QED BY <2>1, <3>1, <3>2
  <2>6. loc' \in Location /\ insert' \in 0..MaxBlocks /\ blocks' \in 0..MaxBlocks
    <3>1. insert' = blocks + 1 /\ blocks' = blocks + 1 /\ loc' = FreshLocation
      BY <1>1 DEF CreateFunction
    <3>2. FreshLocation \in Location
      BY BoundsAssumption DEF FreshLocation, NoLoc, FileScope, Location, Scope
    <3>. QED BY <2>1, <3>1, <3>2
  <2>. QED BY <1>1, <2>3, <2>4, <2>5, <2>6 DEF CreateFunction, TypeOK
<1>2. CASE EndFunction
  <2>1. stack # <<>> BY <1>2 DEF EndFunction, Returns
  <2>2. Top.parent_scope \in Scope BY <2>1, TopFrame DEF Frame
  <2>. QED
    BY <1>2, <2>1, <2>2, TopFrame, LineFacts DEF EndFunction, TypeOK, Pop, add_line, LineKind
<1>3. CASE Statement
  <2>1. At(line_no_) \in Location BY LineFacts
  <2>2. Emitted(Instruction("op", {}, At(line_no_))) \in [Block -> Seq(Instr)]
    BY <2>1, EmittedType
  <2>. QED BY <1>3, <2>1, <2>2, LineFacts DEF Statement, TypeOK, add_line, LineKind
<1>4. CASE VariableGet
  <2>1. Emitted(Instruction("get", {}, loc)) \in [Block -> Seq(Instr)]
    BY EmittedType DEF TypeOK
  <2>. QED BY <1>4, <2>1 DEF VariableGet, TypeOK
<1>5. CASE VariableDecl
  <2>1. code' = [code EXCEPT ![entry[function_]] = <<Alloca>> \o @] BY <1>5 DEF VariableDecl
  <2>2. ASSUME entry[function_] \in Block PROVE code' \in [Block -> Seq(Instr)]
    <3>1. <<Alloca>> \in Seq(Instr) BY <2>2, AllocaFacts
    <3>2. code \in [Block -> Seq(Instr)] BY DEF TypeOK
    <3>3. <<Alloca>> \o code[entry[function_]] \in Seq(Instr)
      BY <2>2, <3>1, <3>2, ConcatProperties
    <3>. QED BY <2>1, <2>2, <3>2, <3>3
  <2>3. ASSUME entry[function_] \notin Block PROVE code' \in [Block -> Seq(Instr)]
    <3>1. code \in [Block -> Seq(Instr)] BY DEF TypeOK
    <3>2. code' = code BY <2>1, <2>3, <3>1
    <3>. QED BY <3>1, <3>2
  <2>4. code' \in [Block -> Seq(Instr)] BY <2>2, <2>3
  <2>. QED BY <1>5, <2>4, LineFacts DEF VariableDecl, TypeOK, add_line, LineKind
<1>6. ASSUME NEW kind \in LineKind, NEW op \in Terminators, NEW to \in SUBSET Block,
             Exit(kind, op, to)
      PROVE  TypeOK'
  <2>1. At(line_no_) \in Location BY LineFacts
  <2>2. Emitted(Instruction(op, to, At(line_no_))) \in [Block -> Seq(Instr)]
    BY <2>1, EmittedType
  <2>. QED BY <1>6, <2>1, <2>2, LineFacts DEF Exit, TypeOK, add_line
<1>7. CASE Return
  BY <1>6, <1>7 DEF Return, LineKind, Terminators
<1>8. CASE Abort
  BY <1>8 DEF Abort, TypeOK
<1>9. CASE Break
  <2>1. current_loop_.break_block_ # 0 => {current_loop_.break_block_} \in SUBSET Block
    BY BoundsAssumption DEF TypeOK, Loop, Block
  <2>. QED BY <1>6, <1>8, <1>9, <2>1 DEF Break, LineKind, Terminators
<1>10. CASE Continue
  <2>1. current_loop_.continue_block_ # 0 => {current_loop_.continue_block_} \in SUBSET Block
    BY BoundsAssumption DEF TypeOK, Loop, Block
  <2>. QED BY <1>6, <1>8, <1>10, <2>1 DEF Continue, LineKind, Terminators
<1>11. ASSUME NEW kind \in {"then_else", "then"}, NEW pending \in {1, 2},
              IfBegin(kind, pending), ~exited_block_
       PROVE  TypeOK'
  <2> DEFINE next  == blocks + 2
             merge == blocks + 1 + pending
             frame == [NewFrame(kind) EXCEPT
                         !.exit_block = merge,
                         !.next_block = IF next = merge THEN 0 ELSE next]
  <2>1. /\ blocks + 1 \in Block /\ next \in Block /\ merge \in Block
        /\ merge \in 0..MaxBlocks
    BY <1>11, IfBlocks
  <2>2. frame \in Frame
    <3>1. NewFrame(kind) \in Frame BY NewFrameType DEF FrameKind
    <3>2. (IF next = merge THEN 0 ELSE next) \in 0..MaxBlocks
      BY <2>1, BoundsAssumption DEF Block
    <3>. HIDE DEF next, merge
    <3>. QED BY <2>1, <3>1, <3>2 DEF Frame
  <2>. HIDE DEF frame
  <2>3. /\ source_code_' = Append(source_code_, "if")
        /\ code' = Emitted(Instruction("condbr", {blocks + 1, next}, At(line_no_)))
        /\ loc' = At(line_no_) /\ blocks' = merge
        /\ PlaceAndInsert(blocks + 1)
        /\ dbg_scope_' = LexicalBlock(dbg_scope_, line_no_ + 1)
        /\ stack' = Append(stack, frame)
        /\ UNCHANGED <<function_, exited_block_, current_loop_, entry, aborted>>
    BY <1>11 DEF IfBegin, FalseBlock, add_line, Push, frame
  <2>4. At(line_no_) \in Location /\ dbg_scope_' \in Scope
    BY <2>3, LineFacts, ScopeFacts DEF TypeOK
  <2>5. code' \in [Block -> Seq(Instr)]
    <3>1. {blocks + 1, next} \in SUBSET Block BY <2>1
    <3>. HIDE DEF next
    <3>. QED BY <2>3, <2>4, <3>1, EmittedType DEF Terminators
  <2>6. parent' \in [Block -> 0..MaxFunctions] /\ insert' \in 0..MaxBlocks
    BY <2>1, <2>3, PlaceType
  <2>7. stack' \in Seq(Frame) BY <2>2, <2>3, PushFacts DEF TypeOK
  <2>8. source_code_' \in Seq(LineKind) BY <2>3, LineFacts DEF LineKind
  <2>. HIDE DEF merge, next
  <2>. QED BY <2>1, <2>3, <2>4, <2>5, <2>6, <2>7, <2>8 DEF TypeOK
<1>12. ASSUME NEW kind \in {"then_else", "then"}, NEW pending \in {1, 2},
              IfBegin(kind, pending), exited_block_
       PROVE  TypeOK'
  BY <1>8, <1>12 DEF IfBegin
<1>13. CASE IfElse BY <1>11, <1>12, <1>13 DEF IfElse
<1>14. CASE IfOnly BY <1>11, <1>12, <1>14 DEF IfOnly
<1>15. ASSUME stack # <<>>, FrameShape(Top), Top \in Frame
       PROVE  /\ Top.kind \in {"then_else", "cond2"} => Top.next_block \in Block
              /\ Top.kind \in {"then_else", "cond2", "then", "else", "body"} =>
                   Top.exit_block \in Block
              /\ Top.kind \in {"cond2", "body"} => Top.head_block \in Block
  BY <1>15, BoundsAssumption DEF FrameShape, Frame, Block
<1>16. stack # <<>> => FrameShape(Top) /\ Top \in Frame
  BY TopFacts, TopFrame DEF FramesShaped, TypeOK, Top
<1>17. CASE Else
  <2>1. stack # <<>> /\ Top.kind = "then_else" BY <1>17 DEF Else, Returns
  <2>2. /\ Top \in Frame /\ Top.next_block \in Block /\ Top.exit_block \in Block
    BY <2>1, <1>15, <1>16
  <2>3. Top.parent_scope \in Scope BY <2>2 DEF Frame
  <2>4. [line |-> line_no_, scope |-> Top.parent_scope] \in Location
    BY <2>3, LineFacts, ScopeFacts
  <2>5. /\ code' \in [Block -> Seq(Instr)] /\ loc' \in Location
        /\ exited_block_' \in BOOLEAN
    BY <1>17, <2>2, <2>4, CloseBranchType DEF Else
  <2>6. parent' \in [Block -> 0..MaxFunctions] /\ insert' \in 0..MaxBlocks
    BY <1>17, <2>2, PlaceType DEF Else
  <2>7. dbg_scope_' \in Scope BY <1>17, <2>3, LineFacts, ScopeFacts DEF Else
  <2>8. [Top EXCEPT !.kind = "else", !.next_block = 0] \in Frame
    <3>1. 0 \in 0..MaxBlocks BY BoundsAssumption
    <3>. QED BY <2>2, <3>1 DEF Frame, FrameKind
  <2>9. stack' \in Seq(Frame)
    BY <1>17, <2>1, <2>8, ReplaceFacts DEF Else, Replace, TypeOK
  <2>10. source_code_' \in Seq(LineKind) BY <1>17, LineFacts DEF Else, add_line, LineKind
  <2>. QED BY <1>17, <2>5, <2>6, <2>7, <2>9, <2>10 DEF Else, TypeOK
<1>18. CASE EndIf
  <2>1. stack # <<>> /\ Top.kind \in {"then", "else"} BY <1>18 DEF EndIf, Returns
  <2>2. Top \in Frame /\ Top.exit_block \in Block BY <2>1, <1>15, <1>16
  <2>3. Top.parent_scope \in Scope BY <2>2 DEF Frame
  <2>4. [line |-> line_no_, scope |-> Top.parent_scope] \in Location
    BY <2>3, LineFacts, ScopeFacts
  <2>5. /\ code' \in [Block -> Seq(Instr)] /\ loc' \in Location
        /\ exited_block_' \in BOOLEAN
    BY <1>18, <2>2, <2>4, CloseBranchType DEF EndIf
  <2>6. parent' \in [Block -> 0..MaxFunctions] /\ insert' \in 0..MaxBlocks
    BY <1>18, <2>2, PlaceType DEF EndIf
  <2>7. source_code_' \in Seq(LineKind) BY <1>18, LineFacts DEF EndIf, add_line, LineKind
  <2>. QED BY <1>18, <2>1, <2>3, <2>5, <2>6, <2>7, TopFrame DEF EndIf, TypeOK, Pop
<1>19. CASE WhileBegin
  <2>1. WhileLine \in Nat BY LineFacts DEF WhileLine
  <2>2. loc' \in Location BY <1>19, <2>1, LineFacts DEF WhileBegin
  <2>3. NewFrame("cond1") \in Frame BY NewFrameType DEF FrameKind
  <2>4. stack' \in Seq(Frame) BY <1>19, <2>3, PushFacts DEF WhileBegin, Push, TypeOK
  <2>. QED BY <1>19, <2>2, <2>4 DEF WhileBegin, TypeOK
<1>20. CASE WhileTest
  <2> DEFINE frame == [Top EXCEPT !.kind = "cond2", !.head_block = blocks + 1,
                         !.next_block = blocks + 2, !.exit_block = blocks + 3,
                         !.parent_loop = current_loop_]
  <2>1. stack # <<>> BY <1>20 DEF WhileTest, Returns
  <2>2. /\ blocks + 1 \in Block /\ blocks + 2 \in Block /\ blocks + 3 \in Block
        /\ blocks + 1 \in 0..MaxBlocks /\ blocks + 2 \in 0..MaxBlocks
        /\ blocks + 3 \in 0..MaxBlocks
    BY <1>20, TestBlocks
  <2>3. frame \in Frame
    BY <2>1, <2>2, TopFrame DEF Frame, FrameKind, TypeOK
  <2>4. stack' \in Seq(Frame)
    BY <1>20, <2>1, <2>3, ReplaceFacts DEF WhileTest, Replace, TypeOK
  <2>5. code' \in [Block -> Seq(Instr)]
    BY <1>20, <2>2, EmittedType DEF WhileTest, TypeOK, Terminators
  <2>6. parent' \in [Block -> 0..MaxFunctions] /\ insert' \in 0..MaxBlocks
    BY <1>20, <2>2, PlaceType DEF WhileTest
  <2>7. source_code_' \in Seq(LineKind) BY <1>20, LineFacts DEF WhileTest, add_line, LineKind
  <2>8. current_loop_' \in Loop BY <1>20, <2>2 DEF WhileTest, Loop
  <2>. QED BY <1>20, <2>2, <2>4, <2>5, <2>6, <2>7, <2>8 DEF WhileTest, TypeOK
<1>21. CASE WhileBody /\ ~exited_block_
  <2>1. stack # <<>> /\ Top.kind = "cond2" BY <1>21 DEF WhileBody, Returns
  <2>2. Top \in Frame /\ Top.next_block \in Block /\ Top.exit_block \in Block
    BY <2>1, <1>15, <1>16
  <2>3. code' \in [Block -> Seq(Instr)]
    <3>1. {Top.next_block, Top.exit_block} \in SUBSET Block BY <2>2
    <3>2. loc \in Location BY DEF TypeOK
    <3>3. code' = Emitted(Instruction("condbr", {Top.next_block, Top.exit_block}, loc))
      BY <1>21 DEF WhileBody
    <3>. QED BY <3>1, <3>2, <3>3, EmittedType DEF Terminators
  <2>4. parent' \in [Block -> 0..MaxFunctions] /\ insert' \in 0..MaxBlocks
    BY <1>21, <2>2, PlaceType DEF WhileBody
  <2>5. dbg_scope_' \in Scope
    BY <1>21, LineFacts, ScopeFacts DEF WhileBody, TypeOK
  <2>6. [Top EXCEPT !.kind = "body", !.next_block = 0, !.parent_scope = dbg_scope_] \in Frame
    <3>1. 0 \in 0..MaxBlocks BY BoundsAssumption
    <3>. QED BY <2>2, <3>1 DEF Frame, FrameKind, TypeOK
  <2>7. stack' \in Seq(Frame)
    <3>1. Replace([Top EXCEPT !.kind = "body", !.next_block = 0,
                              !.parent_scope = dbg_scope_])
      BY <1>21 DEF WhileBody
    <3>. QED BY <2>1, <2>6, <3>1, ReplaceFacts DEF Replace, TypeOK
  <2>. QED BY <1>21, <2>3, <2>4, <2>5, <2>7 DEF WhileBody, TypeOK
<1>22. CASE WhileBody /\ exited_block_
  BY <1>8, <1>22 DEF WhileBody
<1>23. CASE EndWhile
  <2>1. stack # <<>> /\ Top.kind = "body" BY <1>23 DEF EndWhile, Returns
  <2>2. Top \in Frame /\ Top.exit_block \in Block /\ Top.head_block \in Block
    BY <2>1, <1>15, <1>16
  <2>3. Top.parent_scope \in Scope /\ Top.parent_loop \in Loop BY <2>2 DEF Frame
  <2>4. [line |-> line_no_, scope |-> Top.parent_scope] \in Location
    BY <2>3, LineFacts, ScopeFacts
  <2>5. /\ code' \in [Block -> Seq(Instr)] /\ loc' \in Location
        /\ exited_block_' \in BOOLEAN
    BY <1>23, <2>2, <2>4, CloseBranchType DEF EndWhile
  <2>6. parent' \in [Block -> 0..MaxFunctions] /\ insert' \in 0..MaxBlocks
    BY <1>23, <2>2, PlaceType DEF EndWhile
  <2>7. source_code_' \in Seq(LineKind) BY <1>23, LineFacts DEF EndWhile, add_line, LineKind
  <2>. QED BY <1>23, <2>1, <2>3, <2>5, <2>6, <2>7, TopFrame
       DEF EndWhile, TypeOK, Pop, ParentLoop
<1>24. CASE UNCHANGED vars BY <1>24 DEF vars, TypeOK
<1>. QED
  BY <1>1, <1>2, <1>3, <1>4, <1>5, <1>7, <1>9, <1>10, <1>13, <1>14, <1>17, <1>18,
     <1>19, <1>20, <1>21, <1>22, <1>23, <1>24 DEF Next

-----------------------------------------------------------------------------
(* Owed blocks: what a push, a pop or a replacement of the innermost       *)
(* lambda does to the blocks the running lambdas owe.                      *)

OwedInv == FramesShaped /\ OwedUnplaced /\ OwedOnce

LEMMA OwedBlocks ==
  ASSUME NEW f \in Frame
  PROVE  Owed(f) \subseteq Block
  BY BoundsAssumption DEF Owed, Frame, Block

LEMMA PushOwed ==
  ASSUME TypeOK, OwedInv, NEW f \in Frame, FrameShape(f),
         stack' = Append(stack, f), blocks' \in Nat, blocks <= blocks',
         \A b \in Owed(f) : b > blocks /\ b <= blocks' /\ parent'[b] = 0,
         \A b \in Block : b <= blocks /\ parent[b] = 0 => parent'[b] = 0
  PROVE  OwedInv'
<1>1. stack \in Seq(Frame) /\ blocks \in Nat BY BoundsAssumption DEF TypeOK
<1> DEFINE n == Len(stack)
<1>2. /\ n \in Nat /\ DOMAIN stack' = 1..(n + 1) /\ DOMAIN stack = 1..n
      /\ \A i \in 1..n : stack'[i] = stack[i]
      /\ stack'[n + 1] = f
  BY <1>1, PushFacts
<1>3. \A i \in 1..n : stack[i] \in Frame BY <1>1, ElementOfSeq
<1>. HIDE DEF n
<1>4. \A i \in DOMAIN stack' : i = n + 1 \/ i \in 1..n BY <1>2
<1>5. FramesShaped' BY <1>2, <1>4 DEF FramesShaped, OwedInv
<1>6. \A i \in 1..n : \A b \in Owed(stack[i]) : b \in Block /\ b <= blocks /\ parent[b] = 0
  BY <1>2, <1>3, OwedBlocks DEF OwedInv, OwedUnplaced
<1>7. \A b \in Block : b \in Nat BY DEF Block
<1>8. OwedUnplaced'
  <2>1. ASSUME NEW i \in 1..n, NEW b \in Owed(stack[i])
        PROVE  b <= blocks' /\ parent'[b] = 0
    <3>1. b \in Nat /\ b \in Block /\ b <= blocks /\ parent[b] = 0 BY <1>6, <1>7
    <3>. QED BY <1>1, <3>1
  <2>. QED BY <1>2, <1>4, <2>1 DEF OwedUnplaced
<1>9. OwedOnce'
  <2>1. \A i \in 1..n : Owed(stack[i]) \cap Owed(f) = {}
    <3>1. ASSUME NEW i \in 1..n, NEW b \in Owed(stack[i]) \cap Owed(f) PROVE FALSE
      <4>1. b \in Nat /\ b <= blocks BY <1>6, <1>7, <3>1
      <4>2. b > blocks BY <3>1
      <4>. QED BY <1>1, <4>1, <4>2
    <3>. QED BY <3>1
  <2>. QED BY <1>2, <1>4, <2>1 DEF OwedOnce, OwedInv
<1>. QED BY <1>5, <1>8, <1>9 DEF OwedInv

LEMMA PopOwed ==
  ASSUME TypeOK, OwedInv, stack # <<>>, stack' = Outer, blocks' = blocks,
         \A b \in Block : parent[b] = 0 /\ b \notin Owed(Top) => parent'[b] = 0
  PROVE  OwedInv'
<1>1. stack \in Seq(Frame) BY DEF TypeOK
<1> DEFINE n == Len(stack)
<1>2. /\ n \in Nat \ {0} /\ DOMAIN stack = 1..n /\ DOMAIN stack' = 1..(n - 1)
      /\ \A i \in 1..(n - 1) : stack'[i] = stack[i]
  BY <1>1, PopFacts, TopFacts DEF Outer
<1>3. \A i \in 1..n : stack[i] \in Frame BY <1>1, ElementOfSeq
<1>4. Top = stack[n] BY DEF Top
<1>. HIDE DEF n
<1>5. \A i \in 1..(n - 1) : i \in 1..n /\ i # n /\ n \in 1..n BY <1>2
<1>6. FramesShaped' BY <1>2, <1>5 DEF FramesShaped, OwedInv
<1>7. OwedUnplaced'
  <2>1. ASSUME NEW i \in 1..(n - 1), NEW b \in Owed(stack[i])
        PROVE  b <= blocks /\ parent'[b] = 0
    <3>1. b \in Block /\ b <= blocks /\ parent[b] = 0
      BY <1>2, <1>3, <1>5, OwedBlocks DEF OwedInv, OwedUnplaced
    <3>2. b \notin Owed(Top) BY <1>2, <1>4, <1>5 DEF OwedInv, OwedOnce
    <3>. QED BY <3>1, <3>2
  <2>. QED BY <1>2, <2>1 DEF OwedUnplaced
<1>8. OwedOnce' BY <1>2, <1>5 DEF OwedOnce, OwedInv
<1>. QED BY <1>6, <1>7, <1>8 DEF OwedInv

LEMMA ReplaceOwed ==
  ASSUME TypeOK, OwedInv, stack # <<>>, NEW f \in Frame, FrameShape(f),
         stack' = [stack EXCEPT ![Len(stack)] = f], blocks' \in Nat, blocks <= blocks',
         \A b \in Owed(f) : /\ b \in Owed(Top) \/ b > blocks
                            /\ b <= blocks' /\ parent'[b] = 0,
         \A b \in Block : b <= blocks /\ parent[b] = 0 /\ b \notin Owed(Top)
                            => parent'[b] = 0
  PROVE  OwedInv'
<1>1. stack \in Seq(Frame) /\ blocks \in Nat BY BoundsAssumption DEF TypeOK
<1> DEFINE n == Len(stack)
<1>2. /\ n \in Nat \ {0} /\ DOMAIN stack = 1..n /\ DOMAIN stack' = 1..n
      /\ \A i \in 1..(n - 1) : stack'[i] = stack[i]
      /\ stack'[n] = f
  BY <1>1, ReplaceFacts, TopFacts
<1>3. \A i \in 1..n : stack[i] \in Frame BY <1>1, ElementOfSeq
<1>4. Top = stack[n] BY DEF Top
<1>. HIDE DEF n
<1>5. /\ \A i \in 1..n : i = n \/ i \in 1..(n - 1)
      /\ \A i \in 1..(n - 1) : i \in 1..n /\ i # n
      /\ n \in 1..n
  BY <1>2
<1>6. FramesShaped' BY <1>2, <1>5 DEF FramesShaped, OwedInv
<1>7. ASSUME NEW i \in 1..(n - 1), NEW b \in Owed(stack[i])
      PROVE  /\ b \in Block /\ b \in Nat /\ b <= blocks /\ parent[b] = 0
             /\ b \notin Owed(Top)
  <2>1. b \in Block /\ b <= blocks /\ parent[b] = 0
    BY <1>2, <1>3, <1>5, OwedBlocks DEF OwedInv, OwedUnplaced
  <2>2. b \notin Owed(Top) BY <1>2, <1>4, <1>5 DEF OwedInv, OwedOnce
  <2>. QED BY <2>1, <2>2 DEF Block
<1>8. OwedUnplaced'
  <2>1. ASSUME NEW i \in 1..(n - 1), NEW b \in Owed(stack[i])
        PROVE  b <= blocks' /\ parent'[b] = 0
    <3>1. b \in Block /\ b \in Nat /\ b <= blocks /\ parent[b] = 0 /\ b \notin Owed(Top)
      BY <1>7
    <3>2. parent'[b] = 0 BY <3>1
    <3>3. b <= blocks' BY <1>1, <3>1
    <3>. QED BY <3>2, <3>3
  <2>. QED BY <1>2, <1>5, <2>1 DEF OwedUnplaced
<1>9. OwedOnce'
  <2>1. \A i \in 1..(n - 1) : Owed(stack[i]) \cap Owed(f) = {}
    <3>1. ASSUME NEW i \in 1..(n - 1), NEW b \in Owed(stack[i]) \cap Owed(f) PROVE FALSE
      <4>1. b \in Nat /\ b <= blocks /\ b \notin Owed(Top) BY <1>7
      <4>2. b > blocks BY <4>1
      <4>. QED BY <1>1, <4>1, <4>2
    <3>. QED BY <3>1
  <2>. QED BY <1>2, <1>5, <2>1 DEF OwedOnce, OwedInv
<1>. QED BY <1>6, <1>8, <1>9 DEF OwedInv

LEMMA SameOwed ==
  ASSUME OwedInv, UNCHANGED <<stack, parent, blocks>>
  PROVE  OwedInv'
  BY DEF OwedInv, FramesShaped, OwedUnplaced, OwedOnce

-----------------------------------------------------------------------------
(* Which lambdas may be outermost.                                         *)

LEMMA PushOutermost ==
  ASSUME TypeOK, FunctionOutermost, stack # <<>>, NEW f \in Frame, f.kind # "function",
         stack' = Append(stack, f)
  PROVE  FunctionOutermost'
<1>1. stack \in Seq(Frame) BY DEF TypeOK
<1> DEFINE n == Len(stack)
<1>2. /\ n \in Nat \ {0} /\ DOMAIN stack' = 1..(n + 1) /\ DOMAIN stack = 1..n
      /\ \A i \in 1..n : stack'[i] = stack[i]
      /\ stack'[n + 1] = f
  BY <1>1, PushFacts, TopFacts
<1>. HIDE DEF n
<1>3. n + 1 # 1 /\ \A i \in 1..(n + 1) : i = n + 1 \/ i \in 1..n BY <1>2
<1>. QED BY <1>2, <1>3 DEF FunctionOutermost

LEMMA PopOutermost ==
  ASSUME TypeOK, FunctionOutermost, stack # <<>>, stack' = Outer
  PROVE  FunctionOutermost'
<1>1. stack \in Seq(Frame) BY DEF TypeOK
<1> DEFINE n == Len(stack)
<1>2. /\ n \in Nat \ {0} /\ DOMAIN stack = 1..n /\ DOMAIN stack' = 1..(n - 1)
      /\ \A i \in 1..(n - 1) : stack'[i] = stack[i]
  BY <1>1, PopFacts, TopFacts DEF Outer
<1>. HIDE DEF n
<1>3. \A i \in 1..(n - 1) : i \in 1..n BY <1>2
<1>. QED BY <1>2, <1>3 DEF FunctionOutermost

LEMMA ReplaceOutermost ==
  ASSUME TypeOK, FunctionOutermost, stack # <<>>, NEW f \in Frame,
         f.kind # "function", Top.kind # "function",
         stack' = [stack EXCEPT ![Len(stack)] = f]
  PROVE  FunctionOutermost'
<1>1. stack \in Seq(Frame) BY DEF TypeOK
<1> DEFINE n == Len(stack)
<1>2. /\ n \in Nat \ {0} /\ DOMAIN stack = 1..n /\ DOMAIN stack' = 1..n
      /\ \A i \in 1..(n - 1) : stack'[i] = stack[i]
      /\ stack'[n] = f
  BY <1>1, ReplaceFacts, TopFacts
<1>3. Top = stack[n] BY DEF Top
<1>. HIDE DEF n
<1>4. n \in 1..n /\ \A i \in 1..n : i = n \/ i \in 1..(n - 1) BY <1>2
<1>. QED BY <1>2, <1>3, <1>4 DEF FunctionOutermost

LEMMA OutermostAlone ==
  ASSUME TypeOK, FunctionOutermost, stack # <<>>, Top.kind = "function",
         "nested_function" \notin Liberties
  PROVE  Len(stack) = 1 /\ Outer = <<>>
<1>1. Len(stack) \in DOMAIN stack BY TopFacts DEF TypeOK
<1>2. Len(stack) = 1 BY <1>1 DEF FunctionOutermost, Top
<1>3. Len(Outer) = 0 /\ Outer \in Seq(Frame)
  BY <1>2, PopFacts DEF TypeOK, Outer
<1>. QED BY <1>2, <1>3, EmptySeq

-----------------------------------------------------------------------------
(* Blocks and their terminators.                                           *)

Ends(c) == \E i \in DOMAIN c : c[i].op \in Terminators

LEMMA EndsAppend ==
  ASSUME NEW c \in Seq(Instr), NEW i \in Instr
  PROVE  Ends(Append(c, i)) <=> Ends(c) \/ i.op \in Terminators
<1>1. /\ DOMAIN Append(c, i) = 1..(Len(c) + 1) /\ DOMAIN c = 1..Len(c) /\ Len(c) \in Nat
      /\ \A j \in 1..Len(c) : Append(c, i)[j] = c[j]
      /\ Append(c, i)[Len(c) + 1] = i
  BY PushFacts
<1>2. \A n \in Nat : n + 1 \in 1..(n + 1) /\ \A j \in 1..(n + 1) : j \in 1..n \/ j = n + 1
  OBVIOUS
<1>3. \A n \in Nat : \A j \in 1..n : j \in 1..(n + 1) OBVIOUS
<1>. QED BY <1>1, <1>2, <1>3 DEF Ends

LEMMA EndsPrepend ==
  ASSUME NEW c \in Seq(Instr), NEW a \in Instr, a.op \notin Terminators
  PROVE  Ends(<<a>> \o c) <=> Ends(c)
<1> DEFINE d == <<a>> \o c
<1>1. <<a>> \in Seq(Instr) /\ Len(<<a>>) = 1 /\ <<a>>[1] = a OBVIOUS
<1>2. /\ d \in Seq(Instr) /\ Len(d) = 1 + Len(c)
      /\ \A j \in 1..(1 + Len(c)) : d[j] = IF j <= 1 THEN <<a>>[j] ELSE c[j - 1]
  BY <1>1, ConcatProperties
<1>3. DOMAIN d = 1..(1 + Len(c)) /\ DOMAIN c = 1..Len(c) /\ Len(c) \in Nat
  BY <1>2, LenProperties
<1>. HIDE DEF d
<1>4. \A n \in Nat : \A j \in 1..(1 + n) :
        (j = 1 /\ j <= 1) \/ (~(j <= 1) /\ j - 1 \in 1..n)
  OBVIOUS
<1>5. \A n \in Nat : \A j \in 1..n :
        j + 1 \in 1..(1 + n) /\ ~(j + 1 <= 1) /\ (j + 1) - 1 = j
  OBVIOUS
<1>6. \A j \in DOMAIN d : d[j] = a \/ (j - 1 \in DOMAIN c /\ d[j] = c[j - 1])
  BY <1>1, <1>2, <1>3, <1>4
<1>7. \A j \in DOMAIN c : j + 1 \in DOMAIN d /\ d[j + 1] = c[j]
  BY <1>2, <1>3, <1>5
<1>8. Ends(d) => Ends(c) BY <1>6 DEF Ends
<1>9. Ends(c) => Ends(d) BY <1>7 DEF Ends
<1>. QED BY <1>8, <1>9 DEF d

LEMMA EmittedEnds ==
  ASSUME TypeOK, insert \in Block, NEW i \in Instr, code' = Emitted(i)
  PROVE  /\ Ends(code'[insert]) <=> Ends(code[insert]) \/ i.op \in Terminators
         /\ \A c \in Block : c # insert => code'[c] = code[c]
<1>1. code \in [Block -> Seq(Instr)] BY DEF TypeOK
<1>2. code'[insert] = Append(code[insert], i) BY <1>1 DEF Emitted
<1>3. \A c \in Block : c # insert => code'[c] = code[c] BY <1>1 DEF Emitted
<1>. QED BY <1>1, <1>2, <1>3, EndsAppend

LEMMA CloseBranchEnds ==
  ASSUME TypeOK, insert \in Block, exited_block_ => Ends(code[insert]),
         NEW target \in Block, NEW at \in Location, CloseBranch(target, at)
  PROVE  /\ Ends(code'[insert]) /\ ~exited_block_'
         /\ \A c \in Block : c # insert => code'[c] = code[c]
<1>1. CASE exited_block_ BY <1>1 DEF CloseBranch
<1>2. CASE ~exited_block_
  <2>1. /\ Instruction("br", {target}, at) \in Instr
        /\ Instruction("br", {target}, at).op \in Terminators
    BY EmittedType DEF Terminators, Instruction
  <2>. QED BY <1>2, <2>1, EmittedEnds DEF CloseBranch
<1>. QED BY <1>1, <1>2

BlockInv == UnplacedEmpty /\ UncreatedUnplaced /\ InsertionPlaced /\ FunctionsEntered

(* A pending block is put in place after the block before it was closed.   *)
LEMMA PlaceBlock ==
  ASSUME TypeOK, BlockInv, OnlyInsertionBlockOpen, stack # <<>>,
         NEW b \in Block, parent[b] = 0, b <= blocks',
         blocks' \in Nat, blocks <= blocks', PlaceAndInsert(b),
         UNCHANGED <<function_, entry>>,
         Ends(code'[insert]), \A c \in Block : c # insert => code'[c] = code[c]
  PROVE  BlockInv' /\ OnlyInsertionBlockOpen' /\ ~Ends(code'[b]) /\ insert' = b
<1>1. /\ parent \in [Block -> 0..MaxFunctions] /\ entry \in [Function -> 0..MaxBlocks]
      /\ blocks \in Nat
  BY BoundsAssumption DEF TypeOK
<1>2. parent' = [parent EXCEPT ![b] = function_] /\ insert' = b BY DEF PlaceAndInsert
<1>3. /\ function_ \in Function /\ insert \in Block /\ parent[insert] # 0
      /\ entry[function_] \in Block /\ parent[entry[function_]] # 0
  BY DEF BlockInv, InsertionPlaced
<1>4. function_ # 0 /\ 0 \notin Block BY <1>3 DEF Function, Block
<1>5. b # insert /\ code'[b] = <<>> BY <1>3 DEF BlockInv, UnplacedEmpty
<1>6. ~Ends(code'[b]) BY <1>5 DEF Ends
<1>7. UnplacedEmpty' BY <1>1, <1>2, <1>3, <1>4 DEF BlockInv, UnplacedEmpty
<1>8. UncreatedUnplaced'
  <2>1. ASSUME NEW c \in Block, c > blocks' PROVE parent'[c] = 0
    <3>1. c > blocks /\ c # b BY <1>1, <2>1 DEF Block
    <3>. QED BY <1>1, <1>2, <3>1 DEF BlockInv, UncreatedUnplaced
  <2>. QED BY <2>1 DEF UncreatedUnplaced
<1>9. InsertionPlaced' BY <1>1, <1>2, <1>3, <1>4 DEF InsertionPlaced
<1>10. FunctionsEntered' BY <1>1, <1>2, <1>3, <1>4 DEF BlockInv, FunctionsEntered
<1>11. OnlyInsertionBlockOpen'
  <2>1. ASSUME NEW c \in Block, parent'[c] # 0, parent'[c] = function_', c # insert'
        PROVE  Ends(code'[c])
    <3>1. c # b /\ parent[c] # 0 /\ parent[c] = function_ BY <1>1, <1>2, <2>1
    <3>2. CASE c = insert BY <3>2
    <3>3. CASE c # insert
      BY <3>1, <3>3 DEF OnlyInsertionBlockOpen, HasTerminator, Ends
    <3>. QED BY <3>2, <3>3
  <2>. QED BY <2>1 DEF OnlyInsertionBlockOpen, HasTerminator, Ends
<1>. QED BY <1>2, <1>6, <1>7, <1>8, <1>9, <1>10, <1>11 DEF BlockInv

(* Instructions are added to blocks in place, or none at all.              *)
LEMMA WriteBlock ==
  ASSUME BlockInv, OnlyInsertionBlockOpen,
         UNCHANGED <<function_, entry, parent, insert, blocks>>,
         stack' # <<>> => stack # <<>>,
         \A c \in Block : parent[c] = 0 => code'[c] = code[c],
         \A c \in Block : Ends(code[c]) => Ends(code'[c])
  PROVE  BlockInv' /\ OnlyInsertionBlockOpen'
<1>1. BlockInv'
  BY DEF BlockInv, UnplacedEmpty, UncreatedUnplaced, InsertionPlaced, FunctionsEntered
<1>2. OnlyInsertionBlockOpen' BY DEF OnlyInsertionBlockOpen, HasTerminator, Ends
<1>. QED BY <1>1, <1>2

-----------------------------------------------------------------------------
(* The invariant of every step.                                            *)

LEMMA Initially == Init => IInv
<1>. SUFFICES ASSUME Init PROVE IInv OBVIOUS
<1>1. NoLoop \in Loop /\ FileScope \in Scope /\ NoLoc \in Location
  BY BoundsAssumption DEF NoLoop, Loop, FileScope, Scope, NoLoc, Location
<1>2. <<>> \in Seq(LineKind) /\ <<>> \in Seq(Frame) /\ <<>> \in Seq(Instr)
  BY EmptySeq
<1>3. DOMAIN <<>> = {} OBVIOUS
<1>4. TypeOK
  <2>1. 0 \in 0..MaxBlocks /\ 0 \in 0..MaxFunctions BY BoundsAssumption
  <2>2. /\ entry \in [Function -> 0..MaxBlocks] /\ parent \in [Block -> 0..MaxFunctions]
        /\ code \in [Block -> Seq(Instr)]
    BY <1>2, <2>1 DEF Init
  <2>. QED BY <1>1, <1>2, <2>1, <2>2 DEF Init, TypeOK
<1>5. FramesShaped /\ OwedUnplaced /\ OwedOnce /\ FunctionOutermost
  BY <1>3 DEF Init, FramesShaped, OwedUnplaced, OwedOnce, FunctionOutermost
<1>6. /\ UnplacedEmpty /\ UncreatedUnplaced /\ InsertionPlaced /\ ConditionLive
      /\ ExitFlagTracksTerminator /\ OnlyInsertionBlockOpen
  BY DEF Init, UnplacedEmpty, UncreatedUnplaced, InsertionPlaced, ConditionLive,
         ExitFlagTracksTerminator, OnlyInsertionBlockOpen
<1>7. FunctionsEntered BY DEF Init, FunctionsEntered, Function
<1>. QED BY <1>4, <1>5, <1>6, <1>7 DEF IInv

(* What the lambda on top tells about the blocks it owes.                  *)
LEMMA TopOwed ==
  ASSUME IInv, stack # <<>>
  PROVE  /\ Top \in Frame /\ FrameShape(Top)
         /\ \A b \in Owed(Top) : b \in Block /\ b <= blocks /\ parent[b] = 0
         /\ Top.kind \in {"then_else", "cond2"} =>
              /\ Top.next_block \in Owed(Top) /\ Top.exit_block \in Owed(Top)
              /\ Top.next_block # Top.exit_block
         /\ Top.kind \in {"then", "else", "body"} => Owed(Top) = {Top.exit_block}
         /\ Top.kind \in {"function", "cond1"} => Owed(Top) = {}
         /\ Top.kind \in {"cond2", "body"} => Top.head_block \in Block
<1>1. Top \in Frame BY TopFrame DEF IInv
<1>2. Len(stack) \in DOMAIN stack BY TopFacts DEF IInv, TypeOK
<1>3. FrameShape(Top) BY <1>2 DEF IInv, FramesShaped, Top
<1>4. \A b \in Owed(Top) : b \in Block /\ b <= blocks /\ parent[b] = 0
  BY <1>1, <1>2, OwedBlocks DEF IInv, OwedUnplaced, Top
<1>5. Top.kind \in {"cond2", "body"} => Top.head_block \in Block
  BY <1>1, <1>3, BoundsAssumption DEF FrameShape, Frame, Block
<1>. QED BY <1>1, <1>3, <1>4, <1>5 DEF FrameShape, Owed

LEMMA TopPushed ==
  ASSUME TypeOK, NEW f \in Frame, stack' = Append(stack, f)
  PROVE  Top' = f /\ stack' # <<>>
<1>1. stack \in Seq(Frame) BY DEF TypeOK
<1>. QED BY <1>1, PushFacts DEF Top

LEMMA TopReplaced ==
  ASSUME TypeOK, stack # <<>>, NEW f \in Frame, stack' = [stack EXCEPT ![Len(stack)] = f]
  PROVE  Top' = f /\ stack' # <<>>
<1>1. stack \in Seq(Frame) BY DEF TypeOK
<1>. QED BY <1>1, ReplaceFacts DEF Top

(* The flag can be trusted where a lambda of a branch or body returns.     *)
LEMMA FlagTrusted ==
  ASSUME IInv, stack # <<>>, Top.kind \notin Conditions
  PROVE  exited_block_ <=> Ends(code[insert])
  BY DEF IInv, ExitFlagTracksTerminator, HasTerminator, Ends, TypeOK

(* The part of the invariant a straight-line statement has to keep: it     *)
(* writes to blocks in place and no lambda starts or returns.              *)
LEMMA StraightLine ==
  ASSUME IInv, TypeOK', stack # <<>>,
         UNCHANGED <<function_, entry, parent, insert, blocks, stack>>,
         \A c \in Block : parent[c] = 0 => code'[c] = code[c],
         \A c \in Block : Ends(code[c]) => Ends(code'[c]),
         \/ UNCHANGED exited_block_ /\ (Ends(code'[insert]) <=> Ends(code[insert]))
         \/ /\ exited_block_' /\ Ends(code'[insert])
            /\ Disciplined => Top.kind \notin Conditions
  PROVE  IInv'
<1>1. BlockInv' /\ OnlyInsertionBlockOpen' BY WriteBlock DEF IInv, BlockInv
<1>2. OwedInv' BY SameOwed DEF IInv, OwedInv
<1>3. FunctionOutermost' BY DEF IInv, FunctionOutermost
<1>4. Top' = Top BY DEF Top
<1>5. ConditionLive' BY <1>4 DEF IInv, ConditionLive, Disciplined
<1>6. ExitFlagTracksTerminator'
  BY <1>4 DEF IInv, ExitFlagTracksTerminator, HasTerminator, Ends, Disciplined
<1>. QED BY <1>1, <1>2, <1>3, <1>5, <1>6 DEF IInv, BlockInv, OwedInv

-----------------------------------------------------------------------------
(* One lemma per action, or per group of actions of the same effect.       *)

LEMMA AbortStep == ASSUME IInv, Abort PROVE IInv'
<1>1. TypeOK' BY DEF Abort, IInv, TypeOK
<1>2. UNCHANGED <<function_, exited_block_, insert, entry, parent, code, blocks, stack>>
  BY DEF Abort
<1>3. CASE stack # <<>> BY <1>1, <1>2, <1>3, StraightLine
<1>4. CASE stack = <<>>
  <2>1. BlockInv' /\ OnlyInsertionBlockOpen' BY <1>2, WriteBlock DEF IInv, BlockInv
  <2>2. OwedInv' BY <1>2, SameOwed DEF IInv, OwedInv
  <2>. QED BY <1>1, <1>2, <1>4, <2>1, <2>2
       DEF IInv, BlockInv, OwedInv, FunctionOutermost, ConditionLive, ExitFlagTracksTerminator
<1>. QED BY <1>3, <1>4

LEMMA StatementStep == ASSUME IInv, TypeOK', Statement PROVE IInv'
<1>1. stack # <<>> BY DEF Statement, MayAdd, MayCall
<1>2. insert \in Block /\ parent[insert] # 0 BY <1>1 DEF IInv, InsertionPlaced
<1>3. At(line_no_) \in Location BY LineFacts DEF IInv
<1>4. Instruction("op", {}, At(line_no_)) \in Instr BY <1>3, EmittedType DEF IInv
<1>5. Instruction("op", {}, At(line_no_)).op \notin Terminators
  BY DEF Instruction, Terminators
<1>. QED BY <1>1, <1>2, <1>4, <1>5, EmittedEnds, StraightLine DEF Statement, IInv

LEMMA VariableGetStep == ASSUME IInv, TypeOK', VariableGet PROVE IInv'
<1>1. stack # <<>> BY DEF VariableGet, MayAdd, MayCall
<1>2. insert \in Block /\ parent[insert] # 0 BY <1>1 DEF IInv, InsertionPlaced
<1>3. Instruction("get", {}, loc) \in Instr BY EmittedType DEF IInv, TypeOK
<1>4. Instruction("get", {}, loc).op \notin Terminators BY DEF Instruction, Terminators
<1>. QED BY <1>1, <1>2, <1>3, <1>4, EmittedEnds, StraightLine DEF VariableGet, IInv

LEMMA VariableDeclStep == ASSUME IInv, TypeOK', VariableDecl PROVE IInv'
<1> DEFINE top == entry[function_]
           a == Alloca
<1>1. stack # <<>> BY DEF VariableDecl, MayCall
<1>2. top \in Block /\ parent[top] # 0 BY <1>1 DEF IInv, InsertionPlaced
<1>4. a \in Instr /\ a.op \notin Terminators BY <1>2, AllocaFacts DEF IInv
<1>5. code \in [Block -> Seq(Instr)] BY DEF IInv, TypeOK
<1>6. code' = [code EXCEPT ![top] = <<a>> \o @] BY DEF VariableDecl
<1>. HIDE DEF top, a
<1>7. \A c \in Block : c # top => code'[c] = code[c] BY <1>5, <1>6
<1>8. code'[top] = <<a>> \o code[top] BY <1>2, <1>5, <1>6
<1>9. Ends(code'[top]) <=> Ends(code[top]) BY <1>2, <1>4, <1>5, <1>8, EndsPrepend
<1>10. \A c \in Block : Ends(code'[c]) <=> Ends(code[c]) BY <1>7, <1>9
<1>11. insert \in Block BY <1>1 DEF IInv, InsertionPlaced
<1>. QED BY <1>1, <1>2, <1>7, <1>10, <1>11, StraightLine DEF VariableDecl

LEMMA ExitStep ==
  ASSUME IInv, TypeOK', MayExit, NEW kind, NEW op \in Terminators,
         NEW to \in SUBSET Block, Exit(kind, op, to)
  PROVE  IInv'
<1>1. stack # <<>> /\ (Disciplined => Top.kind \notin Conditions)
  BY DEF MayExit, MayCall, Disciplined
<1>2. insert \in Block /\ parent[insert] # 0 BY <1>1 DEF IInv, InsertionPlaced
<1>3. At(line_no_) \in Location BY LineFacts DEF IInv
<1>4. Instruction(op, to, At(line_no_)) \in Instr BY <1>3, EmittedType DEF IInv
<1>5. Instruction(op, to, At(line_no_)).op \in Terminators BY DEF Instruction
<1>. QED BY <1>1, <1>2, <1>4, <1>5, EmittedEnds, StraightLine DEF Exit, IInv

LEMMA EndFunctionStep == ASSUME IInv, TypeOK', EndFunction PROVE IInv'
<1>1. stack # <<>> /\ Top.kind = "function" BY DEF EndFunction, Returns
<1>2. /\ UNCHANGED <<function_, exited_block_, insert, entry, parent, code, blocks>>
      /\ stack' = Outer
  BY DEF EndFunction, Pop
<1>3. BlockInv' /\ OnlyInsertionBlockOpen' BY <1>1, <1>2, WriteBlock DEF IInv, BlockInv
<1>4. OwedInv' BY <1>1, <1>2, PopOwed DEF IInv, OwedInv
<1>5. FunctionOutermost' BY <1>1, <1>2, PopOutermost DEF IInv
<1>6. Disciplined => stack' = <<>>
  BY <1>1, <1>2, OutermostAlone DEF Disciplined, IInv
<1>7. ConditionLive' BY <1>6 DEF ConditionLive, Disciplined
<1>8. exited_block_ <=> Ends(code[insert]) BY <1>1, FlagTrusted DEF Conditions
<1>9. ExitFlagTracksTerminator'
  BY <1>2, <1>8 DEF ExitFlagTracksTerminator, HasTerminator, Ends
<1>. QED BY <1>3, <1>4, <1>5, <1>7, <1>9 DEF IInv, BlockInv, OwedInv

(* Else, EndIf, EndWhile and the successful half of IfBegin and WhileBody: *)
(* the block before is closed, a pending or fresh one takes its place, and *)
(* the flag is clear.                                                      *)
LEMMA NextBlock ==
  ASSUME IInv, TypeOK', stack # <<>>, OwedInv', FunctionOutermost',
         NEW b \in Block, parent[b] = 0, b <= blocks', blocks' \in Nat, blocks <= blocks',
         PlaceAndInsert(b), UNCHANGED <<function_, entry>>, ~exited_block_',
         Ends(code'[insert]), \A c \in Block : c # insert => code'[c] = code[c]
  PROVE  IInv'
<1>1. BlockInv' /\ OnlyInsertionBlockOpen' /\ ~Ends(code'[b]) /\ insert' = b
  BY PlaceBlock DEF IInv, BlockInv
<1>2. ExitFlagTracksTerminator' BY <1>1 DEF ExitFlagTracksTerminator, HasTerminator, Ends
<1>3. ConditionLive' BY DEF ConditionLive
<1>. QED BY <1>1, <1>2, <1>3 DEF IInv, BlockInv, OwedInv

(* A block comes into place and only it: what is owed elsewhere waits on.  *)
LEMMA OthersWait ==
  ASSUME TypeOK, NEW b \in Block, PlaceAndInsert(b)
  PROVE  \A c \in Block : c # b => parent'[c] = parent[c]
  BY DEF PlaceAndInsert, TypeOK

LEMMA ElseStep == ASSUME IInv, TypeOK', Else PROVE IInv'
<1> DEFINE f == [Top EXCEPT !.kind = "else", !.next_block = 0]
<1>1. stack # <<>> /\ Top.kind = "then_else" BY DEF Else, Returns
<1>2. TypeOK BY DEF IInv
<1>3. /\ Top \in Frame
      /\ Top.next_block \in Owed(Top) /\ Top.exit_block \in Owed(Top)
      /\ Top.next_block # Top.exit_block
      /\ \A b \in Owed(Top) : b \in Block /\ b <= blocks /\ parent[b] = 0
  BY <1>1, TopOwed
<1>4. insert \in Block BY <1>1 DEF IInv, InsertionPlaced
<1>5. [line |-> line_no_, scope |-> Top.parent_scope] \in Location
  BY <1>2, <1>3, LineFacts, ScopeFacts DEF Frame
<1>6. /\ Ends(code'[insert]) /\ ~exited_block_'
      /\ \A c \in Block : c # insert => code'[c] = code[c]
  BY <1>1, <1>2, <1>3, <1>4, <1>5, FlagTrusted, CloseBranchEnds DEF Else, Conditions
<1>7. f \in Frame /\ f.kind = "else" /\ f.next_block = 0 /\ f.exit_block = Top.exit_block
  <2>1. 0 \in 0..MaxBlocks BY BoundsAssumption
  <2>. QED BY <1>3, <2>1 DEF Frame, FrameKind
<1>. HIDE DEF f
<1>8. FrameShape(f) /\ Owed(f) = {Top.exit_block}
  BY <1>3, <1>7 DEF FrameShape, Owed
<1>9. /\ stack' = [stack EXCEPT ![Len(stack)] = f] /\ blocks' = blocks
      /\ PlaceAndInsert(Top.next_block) /\ UNCHANGED <<function_, entry>>
  BY DEF Else, Replace, f
<1>10. blocks \in Nat /\ blocks <= blocks' BY <1>2, <1>9, BoundsAssumption DEF TypeOK
<1>11. \A c \in Block : c # Top.next_block => parent'[c] = parent[c]
  BY <1>2, <1>3, <1>9, OthersWait
<1>12. OwedInv'
  BY <1>1, <1>2, <1>3, <1>7, <1>8, <1>9, <1>10, <1>11, ReplaceOwed DEF IInv, OwedInv
<1>13. FunctionOutermost'
  BY <1>1, <1>2, <1>7, <1>9, ReplaceOutermost DEF IInv
<1>. QED BY <1>1, <1>3, <1>6, <1>9, <1>10, <1>12, <1>13, NextBlock

(* EndIf and EndWhile: the innermost lambda returns and the block it owes  *)
(* comes into place.                                                       *)
LEMMA ReturnStep ==
  ASSUME IInv, TypeOK', stack # <<>>, Top.kind \in {"then", "else", "body"},
         NEW target \in Block,
         CloseBranch(target, [line |-> line_no_, scope |-> Top.parent_scope]),
         PlaceAndInsert(Top.exit_block), Pop, UNCHANGED <<function_, entry, blocks>>
  PROVE  IInv'
<1>1. TypeOK BY DEF IInv
<1>2. /\ Top \in Frame /\ Owed(Top) = {Top.exit_block}
      /\ Top.exit_block \in Block /\ Top.exit_block <= blocks
      /\ parent[Top.exit_block] = 0
  BY TopOwed
<1>3. insert \in Block BY DEF IInv, InsertionPlaced
<1>4. [line |-> line_no_, scope |-> Top.parent_scope] \in Location
  BY <1>1, <1>2, LineFacts, ScopeFacts DEF Frame
<1>5. exited_block_ => Ends(code[insert]) BY FlagTrusted DEF Conditions
<1>6. /\ Ends(code'[insert]) /\ ~exited_block_'
      /\ \A c \in Block : c # insert => code'[c] = code[c]
  BY <1>1, <1>3, <1>4, <1>5, CloseBranchEnds
<1>7. \A c \in Block : c # Top.exit_block => parent'[c] = parent[c]
  BY <1>1, <1>2, OthersWait
<1>8. OwedInv' BY <1>1, <1>2, <1>7, PopOwed DEF IInv, OwedInv, Pop
<1>9. FunctionOutermost' BY <1>1, PopOutermost DEF IInv, Pop
<1>10. blocks' \in Nat /\ blocks <= blocks' BY <1>1, BoundsAssumption DEF TypeOK
<1>. QED BY <1>2, <1>6, <1>8, <1>9, <1>10, NextBlock

LEMMA EndIfStep == ASSUME IInv, TypeOK', EndIf PROVE IInv'
<1>1. stack # <<>> /\ Top.kind \in {"then", "else"} BY DEF EndIf, Returns
<1>2. Top.exit_block \in Block BY <1>1, TopOwed
<1>. QED BY <1>1, <1>2, ReturnStep DEF EndIf

LEMMA EndWhileStep == ASSUME IInv, TypeOK', EndWhile PROVE IInv'
<1>1. stack # <<>> /\ Top.kind = "body" BY DEF EndWhile, Returns
<1>2. Top.head_block \in Block BY <1>1, TopOwed
<1>. QED BY <1>1, <1>2, ReturnStep DEF EndWhile

LEMMA IfBeginStep ==
  ASSUME IInv, TypeOK', ~exited_block_, NEW kind, NEW pending,
         \/ kind = "then_else" /\ pending = 2
         \/ kind = "then" /\ pending = 1,
         IfBegin(kind, pending)
  PROVE  IInv'
<1> DEFINE next  == blocks + 2
           merge == blocks + 1 + pending
           f == [NewFrame(kind) EXCEPT
                   !.exit_block = merge,
                   !.next_block = IF next = merge THEN 0 ELSE next]
           i == Instruction("condbr", {blocks + 1, next}, At(line_no_))
<1>1. stack # <<>> BY DEF IfBegin, MayNest, MayCall
<1>2. TypeOK /\ blocks \in Nat BY BoundsAssumption DEF IInv, TypeOK
<1>3. /\ blocks + 1 \in Block /\ next \in Block /\ merge \in Block
      /\ blocks + 1 <= merge /\ blocks + 1 > blocks /\ blocks <= merge /\ merge \in Nat
      /\ next > blocks /\ next <= merge /\ merge > blocks /\ next # 0 /\ merge # 0
      /\ (kind = "then" <=> next = merge) /\ merge <= merge
      /\ next # blocks + 1 /\ merge # blocks + 1
  BY <1>2, IfBlocks DEF Block
<1>. HIDE DEF next, merge
<1>4. /\ f \in Frame /\ f.kind = kind /\ f.exit_block = merge
      /\ f.next_block = IF kind = "then" THEN 0 ELSE next
  <2>1. NewFrame(kind) \in Frame /\ NewFrame(kind).kind = kind
    BY <1>2, NewFrameType DEF FrameKind, NewFrame
  <2>2. next \in 0..MaxBlocks /\ merge \in 0..MaxBlocks /\ 0 \in 0..MaxBlocks
    BY <1>3, BoundsAssumption DEF Block
  <2>. QED BY <1>3, <2>1, <2>2 DEF Frame
<1>. HIDE DEF f
<1>5. /\ FrameShape(f) /\ f.kind # "function"
      /\ \A b \in Owed(f) : b = next \/ b = merge
  BY <1>3, <1>4 DEF FrameShape, Owed
<1>6. /\ code' = Emitted(i) /\ blocks' = merge /\ PlaceAndInsert(blocks + 1)
      /\ stack' = Append(stack, f) /\ UNCHANGED <<function_, exited_block_, entry>>
  BY DEF IfBegin, FalseBlock, Push, f, next, merge
<1>7. \A c \in Block : c # blocks + 1 => parent'[c] = parent[c]
  BY <1>2, <1>3, <1>6, OthersWait
<1>8. \A c \in Block : c > blocks => parent[c] = 0 BY DEF IInv, UncreatedUnplaced
<1>9. OwedInv'
  <2>1. \A b \in Owed(f) : b > blocks /\ b <= blocks' /\ parent'[b] = 0
    BY <1>3, <1>5, <1>6, <1>7, <1>8
  <2>2. \A b \in Block : b <= blocks /\ parent[b] = 0 => parent'[b] = 0
    <3>1. \A b \in Block : b <= blocks => b # blocks + 1 BY <1>2 DEF Block
    <3>. QED BY <1>7, <3>1
  <2>. QED BY <1>2, <1>3, <1>4, <1>5, <1>6, <2>1, <2>2, PushOwed DEF IInv, OwedInv
<1>10. FunctionOutermost' BY <1>1, <1>2, <1>4, <1>5, <1>6, PushOutermost DEF IInv
<1>11. insert \in Block BY <1>1 DEF IInv, InsertionPlaced
<1>12. i \in Instr /\ i.op \in Terminators
  <2>1. At(line_no_) \in Location /\ {blocks + 1, next} \in SUBSET Block
    BY <1>2, <1>3, LineFacts
  <2>. QED BY <1>2, <2>1, EmittedType DEF Instruction, Terminators
<1>13. Ends(code'[insert]) /\ \A c \in Block : c # insert => code'[c] = code[c]
  BY <1>2, <1>6, <1>11, <1>12, EmittedEnds
<1>14. parent[blocks + 1] = 0 BY <1>3, <1>8
<1>. QED BY <1>1, <1>3, <1>6, <1>9, <1>10, <1>13, <1>14, NextBlock

LEMMA WhileBodyStep == ASSUME IInv, TypeOK', ~exited_block_, WhileBody PROVE IInv'
<1> DEFINE f == [Top EXCEPT !.kind = "body", !.next_block = 0, !.parent_scope = dbg_scope_]
           i == Instruction("condbr", {Top.next_block, Top.exit_block}, loc)
<1>1. stack # <<>> /\ Top.kind = "cond2" BY DEF WhileBody, Returns
<1>2. TypeOK /\ blocks \in Nat BY BoundsAssumption DEF IInv, TypeOK
<1>3. /\ Top \in Frame /\ FrameShape(Top)
      /\ Top.next_block \in Owed(Top) /\ Top.exit_block \in Owed(Top)
      /\ Top.next_block # Top.exit_block
      /\ \A b \in Owed(Top) : b \in Block /\ b <= blocks /\ parent[b] = 0
  BY <1>1, TopOwed
<1>4. insert \in Block BY <1>1 DEF IInv, InsertionPlaced
<1>5. i \in Instr /\ i.op \in Terminators
  <2>1. {Top.next_block, Top.exit_block} \in SUBSET Block /\ loc \in Location
    BY <1>2, <1>3 DEF TypeOK
  <2>. QED BY <1>2, <2>1, EmittedType DEF Instruction, Terminators
<1>6. /\ code' = Emitted(i) /\ blocks' = blocks /\ PlaceAndInsert(Top.next_block)
      /\ stack' = [stack EXCEPT ![Len(stack)] = f]
      /\ UNCHANGED <<function_, exited_block_, entry>>
  BY DEF WhileBody, Replace
<1>7. /\ f \in Frame /\ f.kind = "body" /\ f.next_block = 0
      /\ f.exit_block = Top.exit_block /\ f.head_block = Top.head_block
  <2>1. 0 \in 0..MaxBlocks BY BoundsAssumption
  <2>. QED BY <1>2, <1>3, <2>1 DEF Frame, FrameKind, TypeOK
<1>. HIDE DEF f, i
<1>8. FrameShape(f) /\ Owed(f) = {Top.exit_block}
  BY <1>1, <1>3, <1>7 DEF FrameShape, Owed
<1>9. Ends(code'[insert]) /\ \A c \in Block : c # insert => code'[c] = code[c]
  BY <1>2, <1>4, <1>5, <1>6, EmittedEnds
<1>10. blocks' \in Nat /\ blocks <= blocks' BY <1>2, <1>6
<1>11. \A c \in Block : c # Top.next_block => parent'[c] = parent[c]
  BY <1>2, <1>3, <1>6, OthersWait
<1>12. OwedInv'
  BY <1>1, <1>2, <1>3, <1>6, <1>7, <1>8, <1>10, <1>11, ReplaceOwed DEF IInv, OwedInv
<1>13. FunctionOutermost'
  BY <1>1, <1>2, <1>6, <1>7, ReplaceOutermost DEF IInv
<1>. QED BY <1>1, <1>3, <1>6, <1>9, <1>10, <1>12, <1>13, NextBlock

LEMMA WhileBeginStep == ASSUME IInv, TypeOK', WhileBegin PROVE IInv'
<1> DEFINE f == NewFrame("cond1")
<1>1. stack # <<>> /\ (Disciplined => ~exited_block_)
  BY DEF WhileBegin, MayNest, MayCall, Disciplined
<1>2. TypeOK /\ blocks \in Nat BY BoundsAssumption DEF IInv, TypeOK
<1>3. /\ f \in Frame /\ f.kind = "cond1" /\ f.next_block = 0 /\ f.exit_block = 0
  BY <1>2, NewFrameType DEF FrameKind, NewFrame
<1>4. /\ stack' = Append(stack, f)
      /\ UNCHANGED <<function_, exited_block_, insert, entry, parent, code, blocks>>
  BY DEF WhileBegin, Push
<1>. HIDE DEF f
<1>5. FrameShape(f) /\ Owed(f) = {} BY <1>3 DEF FrameShape, Owed
<1>6. Top' = f /\ stack' # <<>> BY <1>2, <1>3, <1>4, TopPushed
<1>7. BlockInv' /\ OnlyInsertionBlockOpen'
  BY <1>1, <1>4, WriteBlock DEF IInv, BlockInv
<1>8. OwedInv'
  <2>1. blocks' \in Nat /\ blocks <= blocks' BY <1>2, <1>4
  <2>. QED BY <1>2, <1>3, <1>4, <1>5, <2>1, PushOwed DEF IInv, OwedInv
<1>9. FunctionOutermost' BY <1>1, <1>2, <1>3, <1>4, PushOutermost DEF IInv
<1>10. ConditionLive' BY <1>1, <1>4 DEF ConditionLive, Disciplined
<1>11. ExitFlagTracksTerminator'
  BY <1>1, <1>3, <1>4, <1>6
  DEF IInv, ExitFlagTracksTerminator, HasTerminator, Disciplined, Conditions
<1>. QED BY <1>7, <1>8, <1>9, <1>10, <1>11 DEF IInv, BlockInv, OwedInv

LEMMA WhileTestStep == ASSUME IInv, TypeOK', WhileTest PROVE IInv'
<1> DEFINE f == [Top EXCEPT !.kind = "cond2", !.head_block = blocks + 1,
                            !.next_block = blocks + 2, !.exit_block = blocks + 3,
                            !.parent_loop = current_loop_]
           i == Instruction("br", {blocks + 1}, loc)
<1>1. stack # <<>> /\ Top.kind = "cond1" BY DEF WhileTest, Returns
<1>2. TypeOK /\ blocks \in Nat BY BoundsAssumption DEF IInv, TypeOK
<1>3. /\ blocks + 1 \in Block /\ blocks + 2 \in Block /\ blocks + 3 \in Block
      /\ blocks + 1 \in 0..MaxBlocks /\ blocks + 2 \in 0..MaxBlocks
      /\ blocks + 3 \in 0..MaxBlocks
      /\ blocks + 1 > blocks /\ blocks + 2 > blocks /\ blocks + 3 > blocks
      /\ blocks + 1 <= blocks + 3 /\ blocks + 2 <= blocks + 3 /\ blocks + 3 <= blocks + 3
      /\ blocks <= blocks + 3 /\ blocks + 3 \in Nat
      /\ blocks + 2 # blocks + 1 /\ blocks + 3 # blocks + 1 /\ blocks + 2 # blocks + 3
      /\ blocks + 1 # 0 /\ blocks + 2 # 0 /\ blocks + 3 # 0
  BY <1>2, TestBlocks DEF Block
<1>4. /\ Top \in Frame /\ Owed(Top) = {} BY <1>1, TopOwed
<1>5. /\ f \in Frame /\ f.kind = "cond2" /\ f.next_block = blocks + 2
      /\ f.exit_block = blocks + 3 /\ f.head_block = blocks + 1
  BY <1>2, <1>3, <1>4 DEF Frame, FrameKind, TypeOK
<1>6. /\ stack' = [stack EXCEPT ![Len(stack)] = f] /\ code' = Emitted(i)
      /\ blocks' = blocks + 3 /\ PlaceAndInsert(blocks + 1)
      /\ UNCHANGED <<function_, exited_block_, entry>>
  BY DEF WhileTest, Replace
<1>7. i \in Instr /\ i.op \in Terminators
  <2>1. {blocks + 1} \in SUBSET Block /\ loc \in Location BY <1>2, <1>3 DEF TypeOK
  <2>. QED BY <1>2, <2>1, EmittedType DEF Instruction, Terminators
<1>. HIDE DEF f, i
<1>8. FrameShape(f) /\ \A b \in Owed(f) : b = blocks + 2 \/ b = blocks + 3
  BY <1>3, <1>5 DEF FrameShape, Owed
<1>9. insert \in Block BY <1>1 DEF IInv, InsertionPlaced
<1>10. Ends(code'[insert]) /\ \A c \in Block : c # insert => code'[c] = code[c]
  BY <1>2, <1>6, <1>7, <1>9, EmittedEnds
<1>11. \A c \in Block : c > blocks => parent[c] = 0 BY DEF IInv, UncreatedUnplaced
<1>12. \A c \in Block : c # blocks + 1 => parent'[c] = parent[c]
  BY <1>2, <1>3, <1>6, OthersWait
<1>13. OwedInv'
  <2>1. \A b \in Owed(f) : b > blocks /\ b <= blocks' /\ parent'[b] = 0
    BY <1>3, <1>6, <1>8, <1>11, <1>12
  <2>2. \A b \in Block : b <= blocks /\ parent[b] = 0 => parent'[b] = 0
    <3>1. \A b \in Block : b <= blocks => b # blocks + 1 BY <1>2 DEF Block
    <3>. QED BY <1>12, <3>1
  <2>. QED BY <1>1, <1>2, <1>3, <1>5, <1>6, <1>8, <2>1, <2>2, ReplaceOwed DEF IInv, OwedInv
<1>14. FunctionOutermost'
  BY <1>1, <1>2, <1>5, <1>6, ReplaceOutermost DEF IInv
<1>15. parent[blocks + 1] = 0 BY <1>3, <1>11
<1>16. BlockInv' /\ OnlyInsertionBlockOpen' /\ ~Ends(code'[blocks + 1]) /\ insert' = blocks + 1
  BY <1>1, <1>2, <1>3, <1>6, <1>10, <1>15, PlaceBlock DEF IInv, BlockInv
<1>17. Disciplined => ~exited_block_' BY <1>1, <1>6 DEF IInv, ConditionLive, Conditions
<1>18. Top' = f BY <1>1, <1>2, <1>5, <1>6, TopReplaced
<1>19. ConditionLive' BY <1>17 DEF ConditionLive, Disciplined
<1>20. ExitFlagTracksTerminator'
  BY <1>5, <1>16, <1>17, <1>18
  DEF ExitFlagTracksTerminator, HasTerminator, Ends, Disciplined, Conditions
<1>. QED BY <1>13, <1>14, <1>16, <1>19, <1>20 DEF IInv, BlockInv, OwedInv

LEMMA CreateFunctionStep == ASSUME IInv, TypeOK', CreateFunction PROVE IInv'
<1>1. TypeOK /\ blocks \in Nat BY BoundsAssumption DEF IInv, TypeOK
<1>2. PICK fn \in Function :
        /\ entry[fn] = 0 /\ function_' = fn
        /\ entry' = [entry EXCEPT ![fn] = blocks + 1]
        /\ parent' = [parent EXCEPT ![blocks + 1] = fn]
        /\ Push([NewFrame("function") EXCEPT !.fn = fn])
  BY DEF CreateFunction, FunctionToFill
<1> DEFINE f == [NewFrame("function") EXCEPT !.fn = fn]
<1>3. f \in Frame /\ f.kind = "function" /\ f.next_block = 0 /\ f.exit_block = 0
  <2>1. NewFrame("function") \in Frame BY <1>1, NewFrameType DEF FrameKind
  <2>2. fn \in 0..MaxFunctions BY BoundsAssumption DEF Function
  <2>. QED BY <2>1, <2>2 DEF Frame, NewFrame
<1>4. /\ blocks + 1 \in Block /\ blocks + 1 > blocks /\ blocks <= blocks + 1
      /\ blocks + 1 \in Nat /\ fn # 0 /\ blocks + 1 # 0
  BY <1>1, CreateBlocks DEF Block, Function
<1>5. /\ insert' = blocks + 1 /\ blocks' = blocks + 1 /\ ~exited_block_'
      /\ code' = code /\ stack' = Append(stack, f)
  BY <1>2 DEF CreateFunction, Push
<1>. HIDE DEF f
<1>6. /\ parent \in [Block -> 0..MaxFunctions] /\ entry \in [Function -> 0..MaxBlocks]
  BY <1>1 DEF TypeOK
<1>7. FrameShape(f) /\ Owed(f) = {} BY <1>3 DEF FrameShape, Owed
<1>8. \A b \in Block : b <= blocks => b # blocks + 1 BY <1>1 DEF Block
<1>9. OwedInv'
  <2>1. \A b \in Block : b <= blocks /\ parent[b] = 0 => parent'[b] = 0
    BY <1>2, <1>6, <1>8
  <2>. QED BY <1>1, <1>3, <1>4, <1>5, <1>7, <2>1, PushOwed DEF IInv, OwedInv
<1>10. parent[blocks + 1] = 0 BY <1>4 DEF IInv, UncreatedUnplaced
<1>11. code[blocks + 1] = <<>> BY <1>4, <1>10 DEF IInv, UnplacedEmpty
<1>12. UnplacedEmpty' BY <1>2, <1>4, <1>5, <1>6 DEF IInv, UnplacedEmpty
<1>13. UncreatedUnplaced'
  <2>1. ASSUME NEW c \in Block, c > blocks' PROVE parent'[c] = 0
    <3>1. c > blocks /\ c # blocks + 1 BY <1>1, <1>5, <2>1 DEF Block
    <3>. QED BY <1>2, <1>6, <3>1 DEF IInv, UncreatedUnplaced
  <2>. QED BY <2>1 DEF UncreatedUnplaced
<1>14. InsertionPlaced' BY <1>2, <1>4, <1>5, <1>6 DEF InsertionPlaced
<1>15. FunctionsEntered' BY <1>2, <1>4, <1>6 DEF IInv, FunctionsEntered
<1>16. FunctionOutermost'
  <2>1. stack = <<>> \/ "nested_function" \in Liberties BY DEF CreateFunction
  <2>2. ASSUME stack = <<>> PROVE FunctionOutermost'
    <3>1. stack \in Seq(Frame) BY <1>1 DEF TypeOK
    <3>2. Len(stack) = 0 BY <2>2
    <3>3. DOMAIN stack' = 1..(0 + 1) /\ stack'[0 + 1] = f
      BY <1>3, <1>5, <3>1, <3>2, PushFacts
    <3>4. \A i \in 1..(0 + 1) : i = 1 /\ i = 0 + 1 OBVIOUS
    <3>. QED BY <1>3, <3>3, <3>4 DEF FunctionOutermost
  <2>. QED BY <2>1, <2>2 DEF FunctionOutermost
<1>17. ConditionLive' BY <1>5 DEF ConditionLive
<1>18. ~Ends(code'[insert']) BY <1>5, <1>11 DEF Ends
<1>19. ExitFlagTracksTerminator'
  BY <1>5, <1>18 DEF ExitFlagTracksTerminator, HasTerminator, Ends
<1>20. OnlyInsertionBlockOpen'
  <2>1. ASSUME NEW c \in Block, parent'[c] # 0, parent'[c] = function_', c # insert'
        PROVE  FALSE
    <3>1. parent[c] = fn BY <1>2, <1>5, <1>6, <2>1
    <3>. QED BY <1>2, <3>1 DEF IInv, FunctionsEntered
  <2>. QED BY <2>1 DEF OnlyInsertionBlockOpen
<1>. QED BY <1>9, <1>12, <1>13, <1>14, <1>15, <1>16, <1>17, <1>19, <1>20 DEF IInv, OwedInv

LEMMA StutterStep == ASSUME IInv, UNCHANGED vars PROVE IInv'
<1>1. Top' = Top BY DEF Top, vars
<1>2. TypeOK' BY DEF vars, IInv, TypeOK
<1>3. CASE stack # <<>> BY <1>2, <1>3, StraightLine DEF vars
<1>4. CASE stack = <<>>
  <2>1. BlockInv' /\ OnlyInsertionBlockOpen' BY WriteBlock DEF IInv, BlockInv, vars
  <2>2. OwedInv' BY SameOwed DEF IInv, OwedInv, vars
  <2>. QED BY <1>2, <1>4, <2>1, <2>2
       DEF IInv, BlockInv, OwedInv, FunctionOutermost, ConditionLive,
           ExitFlagTracksTerminator, vars
<1>. QED BY <1>3, <1>4

LEMMA Inductive == IInv /\ [Next]_vars => IInv'
<1>. SUFFICES ASSUME IInv, [Next]_vars PROVE IInv' OBVIOUS
<1>1. TypeOK' BY TypeStep DEF IInv
<1>2. CASE CreateFunction BY <1>1, <1>2, CreateFunctionStep
<1>3. CASE EndFunction BY <1>1, <1>3, EndFunctionStep
<1>4. CASE Statement BY <1>1, <1>4, StatementStep
<1>5. CASE VariableGet BY <1>1, <1>5, VariableGetStep
<1>6. CASE VariableDecl BY <1>1, <1>6, VariableDeclStep
<1>7. CASE Return BY <1>1, <1>7, ExitStep DEF Return, Terminators
<1>8. CASE Break
  <2>1. current_loop_.break_block_ # 0 => {current_loop_.break_block_} \in SUBSET Block
    BY BoundsAssumption DEF IInv, TypeOK, Loop, Block
  <2>. QED BY <1>1, <1>8, <2>1, AbortStep, ExitStep DEF Break, Terminators
<1>9. CASE Continue
  <2>1. current_loop_.continue_block_ # 0 => {current_loop_.continue_block_} \in SUBSET Block
    BY BoundsAssumption DEF IInv, TypeOK, Loop, Block
  <2>. QED BY <1>1, <1>9, <2>1, AbortStep, ExitStep DEF Continue, Terminators
<1>10. CASE IfElse
  <2>1. CASE exited_block_ BY <1>10, <2>1, AbortStep DEF IfElse, IfBegin
  <2>2. CASE ~exited_block_ BY <1>1, <1>10, <2>2, IfBeginStep DEF IfElse
  <2>. QED BY <2>1, <2>2
<1>11. CASE IfOnly
  <2>1. CASE exited_block_ BY <1>11, <2>1, AbortStep DEF IfOnly, IfBegin
  <2>2. CASE ~exited_block_ BY <1>1, <1>11, <2>2, IfBeginStep DEF IfOnly
  <2>. QED BY <2>1, <2>2
<1>12. CASE Else BY <1>1, <1>12, ElseStep
<1>13. CASE EndIf BY <1>1, <1>13, EndIfStep
<1>14. CASE WhileBegin BY <1>1, <1>14, WhileBeginStep
<1>15. CASE WhileTest BY <1>1, <1>15, WhileTestStep
<1>16. CASE WhileBody
  <2>1. CASE exited_block_ BY <1>16, <2>1, AbortStep DEF WhileBody
  <2>2. CASE ~exited_block_ BY <1>1, <1>16, <2>2, WhileBodyStep
  <2>. QED BY <2>1, <2>2
<1>17. CASE EndWhile BY <1>1, <1>17, EndWhileStep
<1>18. CASE UNCHANGED vars BY <1>18, StutterStep
<1>. QED
  BY <1>2, <1>3, <1>4, <1>5, <1>6, <1>7, <1>8, <1>9, <1>10, <1>11, <1>12, <1>13,
     <1>14, <1>15, <1>16, <1>17, <1>18 DEF Next

(* IInv holds at every moment of every build of a module.                  *)
THEOREM Invariance == Spec => []IInv
<1>1. Init => IInv BY Initially
<1>2. IInv /\ [Next]_vars => IInv' BY Inductive
<1>. QED BY <1>1, <1>2, PTL DEF Spec

(* The builder's fields keep their types: in particular every block a      *)
(* branch names was created, so CreateBr never sees a null block.          *)
THEOREM TypeCorrect == Spec => []TypeOK
<1>1. IInv => TypeOK BY DEF IInv
<1>. QED BY <1>1, Invariance, PTL

(* exited_block_ is right about the insertion block through any nesting of *)
(* if_ and while_, for any client, nested create_function included.        *)
THEOREM ExitFlagCorrect == Spec => []ExitFlagTracksTerminator
<1>1. IInv => ExitFlagTracksTerminator BY DEF IInv
<1>. QED BY <1>1, Invariance, PTL

(* if_ and while_ leave no block of the function open behind them.         *)
THEOREM BlocksClosed == Spec => []OnlyInsertionBlockOpen
<1>1. IInv => OnlyInsertionBlockOpen BY DEF IInv
<1>. QED BY <1>1, Invariance, PTL

-----------------------------------------------------------------------------
(* Finished functions stay finished.                                       *)

(* What any step but the start of a function leaves alone: it writes to    *)
(* the insertion or the entry block, and places blocks in one function.    *)
LocalEffect ==
  /\ stack # <<>>
  /\ UNCHANGED <<function_, entry>>
  /\ \A b \in Block : parent'[b] # parent[b] => parent[b] = 0 /\ parent'[b] = function_
  /\ \A b \in Block : code'[b] # code[b] => b = insert \/ b = entry[function_]
  /\ insert' = insert \/ parent'[insert'] = function_
  /\ stack' # <<>> => stack'[1].fn = stack[1].fn

LEMMA FirstFrame ==
  ASSUME TypeOK, stack # <<>>
  PROVE  /\ \A f \in Frame : stack' = Append(stack, f) => stack'[1].fn = stack[1].fn
         /\ stack' = Outer /\ stack' # <<>> => stack'[1].fn = stack[1].fn
         /\ \A f \in Frame : stack' = [stack EXCEPT ![Len(stack)] = f] /\ f.fn = Top.fn
                             => stack'[1].fn = stack[1].fn
<1>1. stack \in Seq(Frame) BY DEF TypeOK
<1> DEFINE n == Len(stack)
<1>2. n \in Nat \ {0} /\ Top = stack[n] BY <1>1, TopFacts DEF Top
<1>3. 1 \in 1..n BY <1>2
<1>4. ASSUME NEW f \in Frame, stack' = Append(stack, f) PROVE stack'[1].fn = stack[1].fn
  BY <1>1, <1>3, <1>4, PushFacts
<1>5. ASSUME stack' = Outer, stack' # <<>> PROVE stack'[1].fn = stack[1].fn
  <2>1. /\ Len(stack') = n - 1 /\ stack' \in Seq(Frame)
        /\ \A i \in 1..(n - 1) : stack'[i] = stack[i]
    BY <1>1, <1>5, PopFacts DEF Outer
  <2>2. n - 1 \in Nat \ {0} BY <1>5, <2>1, TopFacts
  <2>. HIDE DEF n
  <2>3. 1 \in 1..(n - 1) BY <1>2, <2>2
  <2>. QED BY <2>1, <2>3
<1>6. ASSUME NEW f \in Frame, stack' = [stack EXCEPT ![Len(stack)] = f], f.fn = Top.fn
      PROVE  stack'[1].fn = stack[1].fn
  <2>1. /\ stack'[n] = f /\ \A i \in 1..(n - 1) : stack'[i] = stack[i]
    BY <1>1, <1>6, ReplaceFacts
  <2>. HIDE DEF n
  <2>2. n = 1 \/ 1 \in 1..(n - 1) BY <1>2
  <2>. QED BY <1>2, <1>6, <2>1, <2>2
<1>. QED BY <1>4, <1>5, <1>6

(* The step that writes and places nothing, or changes the innermost       *)
(* lambda in one of the three ways a step can.                             *)
LEMMA CodeEffect ==
  ASSUME TypeOK
  PROVE  /\ \A i : code' = Emitted(i) => \A b \in Block : code'[b] # code[b] => b = insert
         /\ \A t, at : CloseBranch(t, at) =>
              \A b \in Block : code'[b] # code[b] => b = insert
<1>1. \A i : \A b \in Block : Emitted(i)[b] # code[b] => b = insert BY DEF TypeOK, Emitted
<1>. QED BY <1>1 DEF CloseBranch

LEMMA PlaceEffect ==
  ASSUME IInv, NEW b \in Block, parent[b] = 0, PlaceAndInsert(b)
  PROVE  /\ \A c \in Block : parent'[c] # parent[c] => parent[c] = 0 /\ parent'[c] = function_
         /\ parent'[insert'] = function_
  BY DEF IInv, TypeOK, PlaceAndInsert

LEMMA StepEffect ==
  ASSUME IInv, Next
  PROVE  CreateFunction \/ LocalEffect \/ UNCHANGED <<function_, entry, insert, parent, code, stack>>
<1>1. TypeOK BY DEF IInv
<1>2. CASE Abort BY <1>2 DEF Abort
<1>3. CASE EndFunction
  <2>1. stack # <<>> /\ stack' = Outer BY <1>3 DEF EndFunction, Returns, Pop
  <2>. QED BY <1>1, <1>3, <2>1, FirstFrame DEF EndFunction, LocalEffect
<1>4. CASE Statement \/ VariableGet
  <2>1. stack # <<>> BY <1>4 DEF Statement, VariableGet, MayAdd, MayCall
  <2>2. \A b \in Block : code'[b] # code[b] => b = insert
    BY <1>1, <1>4, CodeEffect DEF Statement, VariableGet
  <2>. QED BY <1>4, <2>1, <2>2 DEF Statement, VariableGet, LocalEffect
<1>5. CASE VariableDecl
  <2>1. stack # <<>> BY <1>5 DEF VariableDecl, MayCall
  <2>2. \A b \in Block : code'[b] # code[b] => b = entry[function_]
    BY <1>1, <1>5 DEF VariableDecl, TypeOK
  <2>. QED BY <1>5, <2>1, <2>2 DEF VariableDecl, LocalEffect
<1>6. ASSUME MayExit, NEW kind, NEW op, NEW to, Exit(kind, op, to) PROVE LocalEffect
  <2>1. stack # <<>> BY <1>6 DEF MayExit, MayCall
  <2>2. \A b \in Block : code'[b] # code[b] => b = insert BY <1>1, <1>6, CodeEffect DEF Exit
  <2>. QED BY <1>6, <2>1, <2>2 DEF Exit, LocalEffect
<1>7. CASE Return \/ Break \/ Continue
  BY <1>2, <1>6, <1>7 DEF Return, Break, Continue
<1>8. ASSUME NEW kind \in {"then_else", "then"}, NEW pending \in {1, 2},
             IfBegin(kind, pending), ~exited_block_
      PROVE  LocalEffect
  <2> DEFINE f == [NewFrame(kind) EXCEPT
                     !.exit_block = blocks + 1 + pending,
                     !.next_block = IF blocks + 2 = blocks + 1 + pending THEN 0 ELSE blocks + 2]
  <2>1. stack # <<>> BY <1>8 DEF IfBegin, MayNest, MayCall
  <2>2. /\ blocks + 1 \in Block /\ blocks + 1 > blocks
        /\ blocks + 1 + pending \in 0..MaxBlocks
        /\ (IF blocks + 2 = blocks + 1 + pending THEN 0 ELSE blocks + 2) \in 0..MaxBlocks
    BY <1>1, <1>8, IfBlocks
  <2>3. f \in Frame
    <3>1. NewFrame(kind) \in Frame BY <1>1, NewFrameType DEF FrameKind
    <3>. QED BY <2>2, <3>1 DEF Frame
  <2>4. parent[blocks + 1] = 0 BY <2>2 DEF IInv, UncreatedUnplaced
  <2>5. /\ PlaceAndInsert(blocks + 1) /\ stack' = Append(stack, f)
        /\ code' = Emitted(Instruction("condbr", {blocks + 1, blocks + 2}, At(line_no_)))
        /\ UNCHANGED <<function_, entry>>
    BY <1>8 DEF IfBegin, FalseBlock, Push
  <2>. HIDE DEF f
  <2>6. \A b \in Block : code'[b] # code[b] => b = insert BY <1>1, <2>5, CodeEffect
  <2>. QED BY <1>1, <2>1, <2>2, <2>3, <2>4, <2>5, <2>6, FirstFrame, PlaceEffect DEF LocalEffect
<1>9. CASE IfElse \/ IfOnly
  <2>1. CASE exited_block_ BY <1>2, <1>9, <2>1 DEF IfElse, IfOnly, IfBegin
  <2>2. CASE ~exited_block_ BY <1>8, <1>9, <2>2 DEF IfElse, IfOnly
  <2>. QED BY <2>1, <2>2
<1>10. CASE Else
  <2> DEFINE f == [Top EXCEPT !.kind = "else", !.next_block = 0]
  <2>1. stack # <<>> /\ Top.kind = "then_else" BY <1>10 DEF Else, Returns
  <2>2. /\ Top \in Frame /\ Top.next_block \in Block /\ parent[Top.next_block] = 0
    BY <2>1, TopOwed
  <2>3. f \in Frame /\ f.fn = Top.fn
    <3>1. 0 \in 0..MaxBlocks BY BoundsAssumption
    <3>. QED BY <2>2, <3>1 DEF Frame, FrameKind
  <2>4. /\ PlaceAndInsert(Top.next_block) /\ stack' = [stack EXCEPT ![Len(stack)] = f]
        /\ UNCHANGED <<function_, entry>>
    BY <1>10 DEF Else, Replace
  <2>. HIDE DEF f
  <2>5. \A b \in Block : code'[b] # code[b] => b = insert
    BY <1>1, <1>10, CodeEffect DEF Else
  <2>. QED BY <1>1, <2>1, <2>2, <2>3, <2>4, <2>5, FirstFrame, PlaceEffect DEF LocalEffect
<1>11. CASE EndIf \/ EndWhile
  <2>1. stack # <<>> /\ Top.kind \in {"then", "else", "body"}
    BY <1>11 DEF EndIf, EndWhile, Returns
  <2>2. Top.exit_block \in Block /\ parent[Top.exit_block] = 0 BY <2>1, TopOwed
  <2>3. PlaceAndInsert(Top.exit_block) /\ stack' = Outer /\ UNCHANGED <<function_, entry>>
    BY <1>11 DEF EndIf, EndWhile, Pop
  <2>4. \A b \in Block : code'[b] # code[b] => b = insert
    BY <1>1, <1>11, CodeEffect DEF EndIf, EndWhile
  <2>. QED BY <1>1, <2>1, <2>2, <2>3, <2>4, FirstFrame, PlaceEffect DEF LocalEffect
<1>12. CASE WhileBegin
  <2>1. stack # <<>> BY <1>12 DEF WhileBegin, MayNest, MayCall
  <2>2. NewFrame("cond1") \in Frame BY <1>1, NewFrameType DEF FrameKind
  <2>3. stack' = Append(stack, NewFrame("cond1")) BY <1>12 DEF WhileBegin, Push
  <2>. QED BY <1>1, <1>12, <2>1, <2>2, <2>3, FirstFrame DEF WhileBegin, LocalEffect
<1>13. CASE WhileTest
  <2> DEFINE f == [Top EXCEPT !.kind = "cond2", !.head_block = blocks + 1,
                     !.next_block = blocks + 2, !.exit_block = blocks + 3,
                     !.parent_loop = current_loop_]
  <2>1. stack # <<>> BY <1>13 DEF WhileTest, Returns
  <2>2. /\ blocks + 1 \in Block /\ blocks + 1 > blocks
        /\ blocks + 1 \in 0..MaxBlocks /\ blocks + 2 \in 0..MaxBlocks
        /\ blocks + 3 \in 0..MaxBlocks
    BY <1>1, <1>13, TestBlocks
  <2>3. f \in Frame /\ f.fn = Top.fn
    BY <1>1, <2>1, <2>2, TopFrame DEF Frame, FrameKind, TypeOK
  <2>4. /\ PlaceAndInsert(blocks + 1) /\ stack' = [stack EXCEPT ![Len(stack)] = f]
        /\ UNCHANGED <<function_, entry>>
    BY <1>13 DEF WhileTest, Replace
  <2>. HIDE DEF f
  <2>5. \A b \in Block : code'[b] # code[b] => b = insert
    BY <1>1, <1>13, CodeEffect DEF WhileTest
  <2>6. parent[blocks + 1] = 0 BY <2>2 DEF IInv, UncreatedUnplaced
  <2>. QED BY <1>1, <2>1, <2>2, <2>3, <2>4, <2>5, <2>6, FirstFrame, PlaceEffect DEF LocalEffect
<1>14. CASE WhileBody /\ ~exited_block_
  <2> DEFINE f == [Top EXCEPT !.kind = "body", !.next_block = 0, !.parent_scope = dbg_scope_]
  <2>1. stack # <<>> /\ Top.kind = "cond2" BY <1>14 DEF WhileBody, Returns
  <2>2. /\ Top \in Frame /\ Top.next_block \in Block /\ parent[Top.next_block] = 0
    BY <2>1, TopOwed
  <2>3. f \in Frame /\ f.fn = Top.fn
    <3>1. 0 \in 0..MaxBlocks BY BoundsAssumption
    <3>. QED BY <1>1, <2>2, <3>1 DEF Frame, FrameKind, TypeOK
  <2>4. /\ PlaceAndInsert(Top.next_block) /\ stack' = [stack EXCEPT ![Len(stack)] = f]
        /\ UNCHANGED <<function_, entry>>
    BY <1>14 DEF WhileBody, Replace
  <2>. HIDE DEF f
  <2>5. \A b \in Block : code'[b] # code[b] => b = insert
    BY <1>1, <1>14, CodeEffect DEF WhileBody
  <2>. QED BY <1>1, <2>1, <2>2, <2>3, <2>4, <2>5, FirstFrame, PlaceEffect DEF LocalEffect
<1>15. CASE WhileBody /\ exited_block_ BY <1>2, <1>15 DEF WhileBody
<1>. QED
  BY <1>3, <1>4, <1>5, <1>7, <1>9, <1>10, <1>11, <1>12, <1>13, <1>14, <1>15 DEF Next

LEMMA OneFunctionStep ==
  ASSUME "nested_function" \notin Liberties, IInv, OneFunctionAtATime, [Next]_vars
  PROVE  OneFunctionAtATime'
<1>1. TypeOK /\ TypeOK' BY TypeStep DEF IInv
<1>2. CASE CreateFunction
  <2>1. stack = <<>> BY <1>2 DEF CreateFunction
  <2>2. PICK fn \in Function :
          /\ function_' = fn /\ entry' = [entry EXCEPT ![fn] = blocks + 1]
          /\ parent' = [parent EXCEPT ![blocks + 1] = fn]
          /\ stack' = Append(stack, [NewFrame("function") EXCEPT !.fn = fn])
    BY <1>2 DEF CreateFunction, FunctionToFill, Push
  <2>3. blocks + 1 \in Block /\ insert' = blocks + 1
    BY <1>1, <1>2, CreateBlocks DEF CreateFunction
  <2>4. stack'[1].fn = fn
    <3>1. [NewFrame("function") EXCEPT !.fn = fn].fn = fn BY DEF NewFrame
    <3>2. \A e : Append(<<>>, e)[1] = e OBVIOUS
    <3>. QED BY <2>1, <2>2, <3>1, <3>2
  <2>. QED BY <1>1, <2>2, <2>3, <2>4 DEF OneFunctionAtATime, TypeOK
<1>3. CASE LocalEffect
  <2>1. insert \in Block /\ parent[insert] # 0 /\ entry[function_] \in Block
        /\ parent[entry[function_]] # 0
    BY <1>3 DEF LocalEffect, IInv, InsertionPlaced
  <2>2. /\ parent[insert] = function_ /\ parent[entry[function_]] = function_
        /\ stack[1].fn = function_
    BY <1>3 DEF LocalEffect, OneFunctionAtATime
  <2>3. \A b \in Block : parent[b] # 0 => parent'[b] = parent[b] BY <1>3 DEF LocalEffect
  <2>4. /\ function_' = function_ /\ entry' = entry
        /\ insert' = insert \/ parent'[insert'] = function_
        /\ stack' # <<>> => stack'[1].fn = stack[1].fn
    BY <1>3 DEF LocalEffect
  <2>5. parent'[insert] = function_ /\ parent'[entry[function_]] = function_
    BY <2>1, <2>2, <2>3
  <2>. QED BY <2>2, <2>4, <2>5 DEF OneFunctionAtATime
<1>4. CASE UNCHANGED <<function_, entry, insert, parent, code, stack>>
  BY <1>4 DEF OneFunctionAtATime
<1>. QED BY <1>2, <1>3, <1>4, StepEffect DEF vars

LEMMA FrozenStep ==
  ASSUME "nested_function" \notin Liberties, IInv, OneFunctionAtATime, [Next]_vars,
         NEW f \in Function, Completed(f)
  PROVE  FunctionUnchanged(f)
<1>1. TypeOK /\ f # 0 BY DEF IInv, Function
<1>2. CASE CreateFunction
  <2>1. PICK fn \in Function :
          /\ entry[fn] = 0
          /\ parent' = [parent EXCEPT ![blocks + 1] = fn]
    BY <1>2 DEF CreateFunction, FunctionToFill
  <2>2. blocks + 1 \in Block /\ blocks + 1 > blocks
    BY <1>1, <1>2, CreateBlocks
  <2>3. parent[blocks + 1] = 0 BY <2>2 DEF IInv, UncreatedUnplaced
  <2>4. f # fn /\ code' = code BY <1>2, <2>1 DEF Completed, CreateFunction
  <2>. QED BY <1>1, <2>1, <2>2, <2>3, <2>4 DEF FunctionUnchanged, TypeOK
<1>3. CASE LocalEffect
  <2>1. stack # <<>> BY <1>3 DEF LocalEffect
  <2>2. 1 \in DOMAIN stack
    <3>1. Len(stack) \in Nat \ {0} /\ DOMAIN stack = 1..Len(stack)
      BY <1>1, <2>1, TopFacts DEF TypeOK
    <3>2. \A n \in Nat \ {0} : 1 \in 1..n OBVIOUS
    <3>. QED BY <3>1, <3>2
  <2>3. Open(function_)
    BY <2>1, <2>2 DEF IInv, FunctionOutermost, OneFunctionAtATime, Open
  <2>4. f # function_ BY <2>3 DEF Completed
  <2>5. parent[insert] = function_ /\ parent[entry[function_]] = function_
    BY <2>1 DEF OneFunctionAtATime
  <2>. QED BY <1>1, <1>3, <2>4, <2>5 DEF LocalEffect, FunctionUnchanged
<1>4. CASE UNCHANGED <<function_, entry, insert, parent, code, stack>>
  BY <1>4 DEF FunctionUnchanged
<1>. QED BY <1>2, <1>3, <1>4, StepEffect DEF vars

(* Unless a client creates a function inside another's lambda, function_,  *)
(* the insertion block and the entry block are of one and the same         *)
(* function whichever lambda is running.                                   *)
THEOREM OneFunction == Spec => []OneFunctionAtATime
<1>1. CASE "nested_function" \in Liberties
  <2>1. OneFunctionAtATime BY <1>1 DEF OneFunctionAtATime
  <2>. QED BY <2>1, PTL
<1>2. CASE "nested_function" \notin Liberties
  <2>1. Init => OneFunctionAtATime BY DEF Init, OneFunctionAtATime
  <2>2. IInv /\ OneFunctionAtATime /\ [Next]_vars => OneFunctionAtATime'
    BY <1>2, OneFunctionStep
  <2>. QED BY <2>1, <2>2, Invariance, PTL DEF Spec
<1>. QED BY <1>1, <1>2

(* A client that creates no function inside another's lambda: a finished   *)
(* function is never written to again.                                     *)
THEOREM FinishedFunctionsStay ==
  ASSUME "nested_function" \notin Liberties
  PROVE  Spec => CompletedFunctionsFrozen
<1>1. IInv /\ OneFunctionAtATime /\ [Next]_vars =>
        [\A f \in Function : Completed(f) => FunctionUnchanged(f)]_vars
  BY FrozenStep
<1>. QED BY <1>1, Invariance, OneFunction, PTL DEF Spec, CompletedFunctionsFrozen

-----------------------------------------------------------------------------
(* break_ and continue_ go to the innermost loop.  Not inductive by        *)
(* itself: what a while_ restores must be what the loops around it say.    *)

IsLoop(f)   == f.kind \in {"cond2", "body"}
BlocksOf(f) == [continue_block_ |-> f.head_block, break_block_ |-> f.exit_block]

(* Of the lambdas 1 to n of s, the innermost loop is L.                    *)
InnermostLoop(s, n, L) ==
  \/ L = NoLoop /\ \A i \in 1..n : ~IsLoop(s[i])
  \/ \E i \in 1..n : /\ IsLoop(s[i]) /\ L = BlocksOf(s[i])
                     /\ \A j \in 1..n : j > i => ~IsLoop(s[j])

LoopsSaved ==
  /\ InnermostLoop(stack, Len(stack), current_loop_)
  /\ \A i \in 1..Len(stack) :
       IsLoop(stack[i]) => InnermostLoop(stack, i - 1, stack[i].parent_loop)

LEMMA SamePrefix ==
  ASSUME NEW n \in Nat, NEW s, NEW t, NEW L, \A i \in 1..n : s[i] = t[i],
         InnermostLoop(s, n, L)
  PROVE  InnermostLoop(t, n, L)
  BY DEF InnermostLoop

LEMMA NoLoopOnTop ==
  ASSUME NEW n \in Nat, NEW s, NEW L, ~IsLoop(s[n + 1])
  PROVE  InnermostLoop(s, n + 1, L) <=> InnermostLoop(s, n, L)
<1>1. \A i \in 1..(n + 1) : i \in 1..n \/ i = n + 1 OBVIOUS
<1>2. \A i \in 1..n : i \in 1..(n + 1) /\ n + 1 > i OBVIOUS
<1>. QED BY <1>1, <1>2 DEF InnermostLoop

(* No loop starts or ends above the k-th lambda.                           *)
LEMMA LoopsCut ==
  ASSUME TypeOK, LoopsSaved, NEW k \in 0..Len(stack),
         stack' = SubSeq(stack, 1, k), UNCHANGED current_loop_,
         \A i \in DOMAIN stack : IsLoop(stack[i]) => i <= k
  PROVE  LoopsSaved'
<1>1. stack \in Seq(Frame) /\ Len(stack) \in Nat /\ DOMAIN stack = 1..Len(stack)
  BY LenProperties DEF TypeOK
<1>2. k \in Nat /\ k <= Len(stack) BY <1>1
<1>3. \A i \in 1..k : i \in 1..Len(stack) /\ i - 1 \in Nat /\ i - 1 <= k BY <1>1, <1>2
<1>4. Len(stack') = k /\ \A i \in 1..k : stack'[i] = stack[i]
  <2>1. \A i \in 1..k : stack[i] \in Frame BY <1>1, <1>3, ElementOfSeq
  <2>2. /\ Len(SubSeq(stack, 1, k)) = IF 1 <= k THEN k - 1 + 1 ELSE 0
        /\ \A i \in 1..(k - 1 + 1) : SubSeq(stack, 1, k)[i] = stack[1 + i - 1]
    BY <1>2, <2>1, SubSeqProperties
  <2>3. (IF 1 <= k THEN k - 1 + 1 ELSE 0) = k /\ k - 1 + 1 = k /\ \A i \in 1..k : 1 + i - 1 = i
    BY <1>2
  <2>. QED BY <2>2, <2>3
<1>5. InnermostLoop(stack, k, current_loop_)
  <2>1. \A i \in 1..Len(stack) : IsLoop(stack[i]) => i \in 1..k BY <1>1, <1>2
  <2>. QED BY <1>3, <2>1 DEF LoopsSaved, InnermostLoop
<1>6. InnermostLoop(stack', k, current_loop_') BY <1>2, <1>4, <1>5, SamePrefix
<1>7. ASSUME NEW i \in 1..k, IsLoop(stack'[i])
      PROVE  InnermostLoop(stack', i - 1, stack'[i].parent_loop)
  <2>1. InnermostLoop(stack, i - 1, stack[i].parent_loop) BY <1>3, <1>4, <1>7 DEF LoopsSaved
  <2>2. \A j \in 1..(i - 1) : j \in 1..k BY <1>2, <1>3
  <2>. QED BY <1>3, <1>4, <2>1, <2>2, SamePrefix
<1>. QED BY <1>4, <1>6, <1>7 DEF LoopsSaved

(* A lambda starts that is no loop, or not yet.                            *)
LEMMA LoopsPush ==
  ASSUME TypeOK, LoopsSaved, NEW f \in Frame, stack' = Append(stack, f), ~IsLoop(f),
         UNCHANGED current_loop_
  PROVE  LoopsSaved'
<1> DEFINE n == Len(stack)
<1>1. stack \in Seq(Frame) BY DEF TypeOK
<1>2. /\ n \in Nat /\ Len(stack') = n + 1 /\ stack'[n + 1] = f
      /\ \A i \in 1..n : stack'[i] = stack[i]
  BY <1>1, PushFacts
<1>. HIDE DEF n
<1>3. InnermostLoop(stack, n, current_loop_) BY DEF LoopsSaved, n
<1>4. InnermostLoop(stack', n + 1, current_loop_')
  <2>1. InnermostLoop(stack', n, current_loop_') BY <1>2, <1>3, SamePrefix
  <2>2. ~IsLoop(stack'[n + 1]) BY <1>2
  <2>. QED BY <1>2, <2>1, <2>2, NoLoopOnTop
<1>5. ASSUME NEW i \in 1..(n + 1), IsLoop(stack'[i])
      PROVE  InnermostLoop(stack', i - 1, stack'[i].parent_loop)
  <2>1. i \in 1..n /\ i - 1 \in Nat /\ \A j \in 1..(i - 1) : j \in 1..n
    <3>1. i # n + 1 BY <1>2, <1>5
    <3>. QED BY <1>2, <3>1
  <2>2. InnermostLoop(stack, i - 1, stack[i].parent_loop)
    BY <1>2, <1>5, <2>1 DEF LoopsSaved, n
  <2>. QED BY <1>2, <2>1, <2>2, SamePrefix
<1>. QED BY <1>2, <1>4, <1>5 DEF LoopsSaved

(* The innermost lambda returns: if it was a loop, the loop around it is   *)
(* the current one again.                                                  *)
LEMMA LoopsPop ==
  ASSUME TypeOK, LoopsSaved, stack # <<>>, stack' = Outer,
         current_loop_' = IF IsLoop(Top) THEN Top.parent_loop ELSE current_loop_
  PROVE  LoopsSaved'
<1> DEFINE n == Len(stack) - 1
<1>1. stack \in Seq(Frame) BY DEF TypeOK
<1>2. n \in Nat /\ Len(stack) = n + 1 /\ Top = stack[n + 1] BY <1>1, TopFacts DEF Top
<1>3. Len(stack') = n /\ \A i \in 1..n : stack'[i] = stack[i] BY <1>1, PopFacts DEF Outer
<1>. HIDE DEF n
<1>4. n + 1 \in 1..(n + 1) /\ (n + 1) - 1 = n BY <1>2
<1>5. InnermostLoop(stack, n, current_loop_')
  <2>1. CASE IsLoop(Top) BY <1>2, <1>4, <2>1 DEF LoopsSaved
  <2>2. CASE ~IsLoop(Top) BY <1>2, <2>2, NoLoopOnTop DEF LoopsSaved
  <2>. QED BY <2>1, <2>2
<1>6. InnermostLoop(stack', n, current_loop_') BY <1>2, <1>3, <1>5, SamePrefix
<1>7. ASSUME NEW i \in 1..n, IsLoop(stack'[i])
      PROVE  InnermostLoop(stack', i - 1, stack'[i].parent_loop)
  <2>1. i \in 1..(n + 1) /\ i - 1 \in Nat /\ \A j \in 1..(i - 1) : j \in 1..n BY <1>2
  <2>2. InnermostLoop(stack, i - 1, stack[i].parent_loop)
    BY <1>2, <1>3, <1>7, <2>1 DEF LoopsSaved
  <2>. QED BY <1>3, <2>1, <2>2, SamePrefix
<1>. QED BY <1>3, <1>6, <1>7 DEF LoopsSaved

(* if_ or while_ goes on to its next lambda: the loop is still what it     *)
(* was, or it begins and saves the one around it.                          *)
LEMMA LoopsReplace ==
  ASSUME TypeOK, LoopsSaved, stack # <<>>, NEW f \in Frame,
         stack' = [stack EXCEPT ![Len(stack)] = f],
         \/ /\ UNCHANGED current_loop_
            /\ IsLoop(f) <=> IsLoop(Top)
            /\ BlocksOf(f) = BlocksOf(Top) /\ f.parent_loop = Top.parent_loop
         \/ /\ ~IsLoop(Top) /\ IsLoop(f)
            /\ current_loop_' = BlocksOf(f) /\ f.parent_loop = current_loop_
  PROVE  LoopsSaved'
<1> DEFINE n == Len(stack) - 1
<1>1. stack \in Seq(Frame) BY DEF TypeOK
<1>2. n \in Nat /\ Len(stack) = n + 1 /\ Top = stack[n + 1] BY <1>1, TopFacts DEF Top
<1>3. /\ Len(stack') = n + 1 /\ stack'[n + 1] = f
      /\ \A i \in 1..n : stack'[i] = stack[i]
  <2>1. /\ Len(stack') = Len(stack) /\ stack'[Len(stack)] = f
        /\ \A i \in 1..(Len(stack) - 1) : stack'[i] = stack[i]
    BY <1>1, ReplaceFacts
  <2>. QED BY <1>2, <2>1
<1>. HIDE DEF n
<1>4. /\ n + 1 \in 1..(n + 1) /\ (n + 1) - 1 = n
      /\ \A i \in 1..(n + 1) : i \in 1..n \/ i = n + 1
      /\ \A j \in 1..(n + 1) : ~(j > n + 1)
      /\ \A i \in 1..n : n + 1 > i /\ i \in 1..(n + 1)
  BY <1>2
<1>5. InnermostLoop(stack, n + 1, current_loop_) BY <1>2 DEF LoopsSaved
<1>6. /\ InnermostLoop(stack', n + 1, current_loop_')
      /\ IsLoop(f) => InnermostLoop(stack', n, f.parent_loop)
  <2>1. CASE /\ UNCHANGED current_loop_
             /\ IsLoop(f) <=> IsLoop(Top)
             /\ BlocksOf(f) = BlocksOf(Top) /\ f.parent_loop = Top.parent_loop
    <3>1. InnermostLoop(stack', n + 1, current_loop_')
      BY <1>2, <1>3, <1>4, <1>5, <2>1 DEF InnermostLoop
    <3>2. IsLoop(f) => InnermostLoop(stack, n, f.parent_loop)
      BY <1>2, <1>4, <2>1 DEF LoopsSaved
    <3>. QED BY <1>2, <1>3, <3>1, <3>2, SamePrefix
  <2>2. CASE /\ ~IsLoop(Top) /\ IsLoop(f)
             /\ current_loop_' = BlocksOf(f) /\ f.parent_loop = current_loop_
    <3>1. InnermostLoop(stack', n + 1, current_loop_')
      BY <1>3, <1>4, <2>2 DEF InnermostLoop
    <3>2. InnermostLoop(stack, n, current_loop_) BY <1>2, <1>5, <2>2, NoLoopOnTop
    <3>. QED BY <1>2, <1>3, <2>2, <3>1, <3>2, SamePrefix
  <2>. QED BY <2>1, <2>2
<1>7. ASSUME NEW i \in 1..(n + 1), IsLoop(stack'[i])
      PROVE  InnermostLoop(stack', i - 1, stack'[i].parent_loop)
  <2>1. CASE i = n + 1 BY <1>3, <1>4, <1>6, <1>7, <2>1
  <2>2. CASE i \in 1..n
    <3>1. i - 1 \in Nat /\ \A j \in 1..(i - 1) : j \in 1..n BY <1>2, <2>2
    <3>2. InnermostLoop(stack, i - 1, stack[i].parent_loop)
      BY <1>2, <1>3, <1>4, <1>7, <2>2 DEF LoopsSaved
    <3>3. \A j \in 1..(i - 1) : stack[j] = stack'[j] BY <1>3, <3>1
    <3>4. InnermostLoop(stack', i - 1, stack[i].parent_loop)
      BY <3>1, <3>2, <3>3, SamePrefix
    <3>. QED BY <1>3, <2>2, <3>4
  <2>. QED BY <1>4, <2>1, <2>2
<1>. QED BY <1>3, <1>6, <1>7 DEF LoopsSaved

(* What one step does to the running lambdas and the loop.                 *)
Stays == UNCHANGED <<stack, current_loop_>>
Pushes(f) ==
  /\ FrameShape(f) /\ ~IsLoop(f)
  /\ stack' = Append(stack, f) /\ UNCHANGED current_loop_
Pops ==
  /\ stack # <<>> /\ stack' = Outer
  /\ current_loop_' = IF IsLoop(Top) THEN Top.parent_loop ELSE current_loop_
GoesOn(f) ==
  /\ stack # <<>> /\ FrameShape(f)
  /\ stack' = [stack EXCEPT ![Len(stack)] = f]
  /\ \/ /\ UNCHANGED current_loop_
        /\ IsLoop(f) <=> IsLoop(Top)
        /\ BlocksOf(f) = BlocksOf(Top) /\ f.parent_loop = Top.parent_loop
     \/ /\ ~IsLoop(Top) /\ IsLoop(f)
        /\ current_loop_' = BlocksOf(f) /\ f.parent_loop = current_loop_
StackEffect == Stays \/ Pops \/ \E f \in Frame : Pushes(f) \/ GoesOn(f)

LEMMA StackStep ==
  ASSUME TypeOK, FramesShaped, Next
  PROVE  StackEffect
<1>0. /\ blocks \in Nat /\ 0 \in 0..MaxBlocks /\ current_loop_ \in Loop
      /\ dbg_scope_ \in Scope
  BY BoundsAssumption DEF TypeOK
<1>1. stack # <<>> => Top \in Frame /\ FrameShape(Top)
  <2>1. stack # <<>> => Len(stack) \in DOMAIN stack BY TopFacts DEF TypeOK
  <2>. QED BY <2>1, TopFrame DEF FramesShaped, Top
<1>2. CASE Abort BY <1>2 DEF Abort, StackEffect, Stays
<1>3. CASE CreateFunction
  <2>1. PICK fn \in Function : stack' = Append(stack, [NewFrame("function") EXCEPT !.fn = fn])
    BY <1>3 DEF CreateFunction, Push
  <2> DEFINE f == [NewFrame("function") EXCEPT !.fn = fn]
  <2>2. NewFrame("function") \in Frame BY NewFrameType DEF FrameKind
  <2>3. fn \in 0..MaxFunctions BY BoundsAssumption DEF Function
  <2>4. f \in Frame BY <2>2, <2>3 DEF Frame
  <2>5. FrameShape(f) /\ ~IsLoop(f) BY DEF NewFrame, FrameShape, IsLoop
  <2>6. UNCHANGED current_loop_ BY <1>3 DEF CreateFunction
  <2>. QED BY <2>1, <2>4, <2>5, <2>6 DEF StackEffect, Pushes
<1>4. CASE EndFunction \/ EndIf
  <2>1. stack # <<>> /\ Top.kind \in {"function", "then", "else"}
    BY <1>4 DEF EndFunction, EndIf, Returns
  <2>2. stack' = Outer /\ UNCHANGED current_loop_ BY <1>4 DEF EndFunction, EndIf, Pop
  <2>. QED BY <2>1, <2>2 DEF StackEffect, Pops, IsLoop
<1>5. CASE Statement \/ VariableGet \/ VariableDecl \/ Return
  BY <1>5 DEF Statement, VariableGet, VariableDecl, Return, Exit, StackEffect, Stays
<1>6. CASE Break \/ Continue
  BY <1>2, <1>6 DEF Break, Continue, Exit, StackEffect, Stays
<1>7. ASSUME NEW kind \in {"then_else", "then"}, NEW pending \in {1, 2},
             kind = "then_else" <=> pending = 2, IfBegin(kind, pending), ~exited_block_
      PROVE  StackEffect
  <2> DEFINE f == [NewFrame(kind) EXCEPT
                     !.exit_block = blocks + 1 + pending,
                     !.next_block = IF blocks + 2 = blocks + 1 + pending THEN 0 ELSE blocks + 2]
  <2>1. /\ blocks + 1 + pending \in 0..MaxBlocks /\ blocks + 1 + pending # 0
        /\ (IF blocks + 2 = blocks + 1 + pending THEN 0 ELSE blocks + 2) \in 0..MaxBlocks
        /\ pending = 2 => blocks + 2 # blocks + 1 + pending /\ blocks + 2 # 0
        /\ pending = 1 => blocks + 2 = blocks + 1 + pending
    BY <1>0, <1>7, BoundsAssumption DEF IfBegin
  <2>2. NewFrame(kind) \in Frame BY NewFrameType DEF FrameKind
  <2>3. f \in Frame BY <2>1, <2>2 DEF Frame
  <2>4. /\ f.kind = kind /\ f.exit_block = blocks + 1 + pending
        /\ f.next_block = IF blocks + 2 = blocks + 1 + pending THEN 0 ELSE blocks + 2
    BY DEF NewFrame
  <2>5. stack' = Append(stack, f) /\ UNCHANGED current_loop_ BY <1>7 DEF IfBegin, Push
  <2>. HIDE DEF f
  <2>6. FrameShape(f) /\ ~IsLoop(f) BY <1>7, <2>1, <2>4 DEF FrameShape, IsLoop
  <2>. QED BY <2>3, <2>5, <2>6 DEF StackEffect, Pushes
<1>8. CASE IfElse \/ IfOnly
  <2>1. CASE exited_block_ BY <1>2, <1>8, <2>1 DEF IfElse, IfOnly, IfBegin
  <2>2. CASE ~exited_block_ BY <1>7, <1>8, <2>2 DEF IfElse, IfOnly
  <2>. QED BY <2>1, <2>2
<1>9. CASE Else
  <2> DEFINE f == [Top EXCEPT !.kind = "else", !.next_block = 0]
  <2>1. stack # <<>> /\ Top.kind = "then_else" BY <1>9 DEF Else, Returns
  <2>2. f \in Frame BY <1>0, <1>1, <2>1 DEF Frame, FrameKind
  <2>3. /\ f.kind = "else" /\ f.next_block = 0 /\ f.exit_block = Top.exit_block
        /\ f.head_block = Top.head_block /\ f.parent_loop = Top.parent_loop
    BY <1>1, <2>1 DEF Frame
  <2>4. stack' = [stack EXCEPT ![Len(stack)] = f] /\ UNCHANGED current_loop_
    BY <1>9 DEF Else, Replace
  <2>. HIDE DEF f
  <2>5. FrameShape(f) BY <1>1, <2>1, <2>3 DEF FrameShape
  <2>. QED BY <2>1, <2>2, <2>3, <2>4, <2>5 DEF StackEffect, GoesOn, IsLoop, BlocksOf
<1>10. CASE WhileBegin
  <2>1. NewFrame("cond1") \in Frame BY NewFrameType DEF FrameKind
  <2>2. FrameShape(NewFrame("cond1")) /\ ~IsLoop(NewFrame("cond1"))
    BY DEF NewFrame, FrameShape, IsLoop
  <2>3. stack' = Append(stack, NewFrame("cond1")) /\ UNCHANGED current_loop_
    BY <1>10 DEF WhileBegin, Push
  <2>. QED BY <2>1, <2>2, <2>3 DEF StackEffect, Pushes
<1>11. CASE WhileTest
  <2> DEFINE f == [Top EXCEPT !.kind = "cond2", !.head_block = blocks + 1,
                     !.next_block = blocks + 2, !.exit_block = blocks + 3,
                     !.parent_loop = current_loop_]
  <2>1. stack # <<>> /\ Top.kind = "cond1" BY <1>11 DEF WhileTest, Returns
  <2>2. /\ blocks + 1 \in 0..MaxBlocks /\ blocks + 2 \in 0..MaxBlocks
        /\ blocks + 3 \in 0..MaxBlocks
        /\ 0 \notin {blocks + 1, blocks + 2, blocks + 3} /\ blocks + 2 # blocks + 3
    BY <1>0, <1>11, BoundsAssumption DEF WhileTest
  <2>3. f \in Frame BY <1>0, <1>1, <2>1, <2>2 DEF Frame, FrameKind
  <2>4. /\ f.kind = "cond2" /\ f.head_block = blocks + 1 /\ f.next_block = blocks + 2
        /\ f.exit_block = blocks + 3 /\ f.parent_loop = current_loop_
    BY <1>1, <2>1 DEF Frame
  <2>5. /\ stack' = [stack EXCEPT ![Len(stack)] = f]
        /\ current_loop_' = [continue_block_ |-> blocks + 1, break_block_ |-> blocks + 3]
    BY <1>11 DEF WhileTest, Replace
  <2>. HIDE DEF f
  <2>6. FrameShape(f) BY <2>2, <2>4 DEF FrameShape
  <2>7. ~IsLoop(Top) /\ IsLoop(f) /\ current_loop_' = BlocksOf(f)
    BY <2>1, <2>4, <2>5 DEF IsLoop, BlocksOf
  <2>. QED BY <2>1, <2>3, <2>4, <2>5, <2>6, <2>7 DEF StackEffect, GoesOn
<1>12. CASE WhileBody /\ ~exited_block_
  <2> DEFINE f == [Top EXCEPT !.kind = "body", !.next_block = 0, !.parent_scope = dbg_scope_]
  <2>1. stack # <<>> /\ Top.kind = "cond2" BY <1>12 DEF WhileBody, Returns
  <2>2. f \in Frame BY <1>0, <1>1, <2>1 DEF Frame, FrameKind
  <2>3. /\ f.kind = "body" /\ f.next_block = 0 /\ f.exit_block = Top.exit_block
        /\ f.head_block = Top.head_block /\ f.parent_loop = Top.parent_loop
    BY <1>1, <2>1 DEF Frame
  <2>4. stack' = [stack EXCEPT ![Len(stack)] = f] /\ UNCHANGED current_loop_
    BY <1>12 DEF WhileBody, Replace
  <2>. HIDE DEF f
  <2>5. FrameShape(f) BY <1>1, <2>1, <2>3 DEF FrameShape
  <2>. QED BY <2>1, <2>2, <2>3, <2>4, <2>5 DEF StackEffect, GoesOn, IsLoop, BlocksOf
<1>13. CASE WhileBody /\ exited_block_ BY <1>2, <1>13 DEF WhileBody
<1>14. CASE EndWhile
  <2>1. stack # <<>> /\ Top.kind = "body" BY <1>14 DEF EndWhile, Returns
  <2>2. stack' = Outer /\ current_loop_' = Top.parent_loop
    BY <1>14 DEF EndWhile, Pop, ParentLoop
  <2>. QED BY <2>1, <2>2 DEF StackEffect, Pops, IsLoop
<1>. QED
  BY <1>3, <1>4, <1>5, <1>6, <1>8, <1>9, <1>10, <1>11, <1>12, <1>13, <1>14 DEF Next

LEMMA ShapesKept ==
  ASSUME TypeOK, FramesShaped, StackEffect
  PROVE  FramesShaped'
<1>1. stack \in Seq(Frame) /\ DOMAIN stack = 1..Len(stack) /\ Len(stack) \in Nat
  BY LenProperties DEF TypeOK
<1>2. CASE Stays BY <1>2 DEF Stays, FramesShaped
<1>3. CASE Pops
  <2>1. /\ DOMAIN stack' = 1..(Len(stack) - 1)
        /\ \A i \in 1..(Len(stack) - 1) : stack'[i] = stack[i]
    BY <1>1, <1>3, PopFacts DEF Pops, Outer
  <2>2. \A i \in 1..(Len(stack) - 1) : i \in 1..Len(stack) BY <1>1
  <2>. QED BY <1>1, <2>1, <2>2 DEF FramesShaped
<1>4. ASSUME NEW f \in Frame, Pushes(f) PROVE FramesShaped'
  <2>1. /\ DOMAIN stack' = 1..(Len(stack) + 1) /\ stack'[Len(stack) + 1] = f
        /\ \A i \in 1..Len(stack) : stack'[i] = stack[i]
    BY <1>1, <1>4, PushFacts DEF Pushes
  <2>2. \A i \in 1..(Len(stack) + 1) : i \in 1..Len(stack) \/ i = Len(stack) + 1 BY <1>1
  <2>. QED BY <1>1, <1>4, <2>1, <2>2 DEF FramesShaped, Pushes
<1>5. ASSUME NEW f \in Frame, GoesOn(f) PROVE FramesShaped'
  <2>1. stack # <<>> /\ FrameShape(f) /\ stack' = [stack EXCEPT ![Len(stack)] = f]
    BY <1>5 DEF GoesOn
  <2> DEFINE t == [stack EXCEPT ![Len(stack)] = f]
  <2>2. /\ t \in Seq(Frame) /\ Len(t) = Len(stack) /\ t[Len(stack)] = f
        /\ \A i \in 1..(Len(stack) - 1) : t[i] = stack[i]
    <3>1. stack \in Seq(Frame) /\ stack # <<>> BY <1>1, <2>1
    <3>. QED BY <1>5, <3>1, ReplaceFacts
  <2>. HIDE DEF t
  <2>3. \A n \in Nat : \A i \in 1..n : i \in 1..(n - 1) \/ i = n OBVIOUS
  <2>4. DOMAIN t = 1..Len(stack) BY <2>2, LenProperties
  <2>5. stack' = t BY <2>1 DEF t
  <2>. QED BY <1>1, <2>1, <2>2, <2>3, <2>4, <2>5 DEF FramesShaped
<1>. QED BY <1>2, <1>3, <1>4, <1>5 DEF StackEffect

LEMMA LoopsKept ==
  ASSUME TypeOK, LoopsSaved, StackEffect
  PROVE  LoopsSaved'
<1>1. CASE Stays BY <1>1 DEF Stays, LoopsSaved, InnermostLoop
<1>2. CASE Pops BY <1>2, LoopsPop DEF Pops
<1>3. ASSUME NEW f \in Frame, Pushes(f) PROVE LoopsSaved' BY <1>3, LoopsPush DEF Pushes
<1>4. ASSUME NEW f \in Frame, GoesOn(f) PROVE LoopsSaved' BY <1>4, LoopsReplace DEF GoesOn
<1>. QED BY <1>1, <1>2, <1>3, <1>4 DEF StackEffect

(* With or without an exception, as long as it leaves no while_ running.   *)
LEMMA LoopsStep ==
  ASSUME TypeOK, FramesShaped, LoopsSaved, [NextOrThrow]_vars, "loop" \notin Escapes
  PROVE  TypeOK' /\ FramesShaped' /\ LoopsSaved'
<1>1. CASE Next
  <2>1. StackEffect BY <1>1, StackStep
  <2>. QED BY <1>1, <2>1, TypeStep, ShapesKept, LoopsKept
<1>2. CASE Throw
  <2>1. PICK k \in 0..(Len(stack) - 1) :
          /\ stack' = SubSeq(stack, 1, k)
          /\ ~(\E i \in LoopFrames : i > k)
    BY <1>2 DEF Throw
  <2>2. stack \in Seq(Frame) /\ Len(stack) \in Nat /\ DOMAIN stack = 1..Len(stack)
    BY LenProperties DEF TypeOK
  <2>3. k \in 0..Len(stack) /\ k \in Nat /\ \A i \in 1..k : i \in 1..Len(stack) BY <2>1, <2>2
  <2>4. /\ SubSeq(stack, 1, k) \in Seq(Frame) /\ DOMAIN SubSeq(stack, 1, k) = 1..k
        /\ \A i \in 1..k : SubSeq(stack, 1, k)[i] = stack[i]
    <3>1. \A i \in 1..k : stack[i] \in Frame BY <2>2, <2>3, ElementOfSeq
    <3>2. /\ SubSeq(stack, 1, k) \in Seq(Frame)
          /\ Len(SubSeq(stack, 1, k)) = IF 1 <= k THEN k - 1 + 1 ELSE 0
          /\ \A i \in 1..(k - 1 + 1) : SubSeq(stack, 1, k)[i] = stack[1 + i - 1]
      BY <2>3, <3>1, SubSeqProperties
    <3>3. (IF 1 <= k THEN k - 1 + 1 ELSE 0) = k /\ k - 1 + 1 = k /\ \A i \in 1..k : 1 + i - 1 = i
      BY <2>3
    <3>. QED BY <3>2, <3>3, LenProperties
  <2>5. TypeOK' BY <1>2, <2>1, <2>4 DEF Throw, TypeOK
  <2>6. FramesShaped' BY <2>1, <2>2, <2>3, <2>4 DEF FramesShaped
  <2>7. \A i \in DOMAIN stack : IsLoop(stack[i]) => i <= k
    BY <2>1, <2>2, <2>3 DEF LoopFrames, IsLoop
  <2>8. LoopsSaved' BY <1>2, <2>1, <2>3, <2>7, LoopsCut DEF Throw
  <2>. QED BY <2>5, <2>6, <2>8
<1>3. CASE UNCHANGED vars
  BY <1>3 DEF vars, TypeOK, FramesShaped, LoopsSaved, InnermostLoop
<1>. QED BY <1>1, <1>2, <1>3 DEF NextOrThrow

LEMMA SavedIsInnermost ==
  ASSUME TypeOK, LoopsSaved
  PROVE  LoopIsInnermost
<1>1. DOMAIN stack = 1..Len(stack) /\ Len(stack) \in Nat BY LenProperties DEF TypeOK
<1>2. LoopFrames = {i \in 1..Len(stack) : IsLoop(stack[i])} BY <1>1 DEF LoopFrames, IsLoop
<1>3. CASE current_loop_ = NoLoop /\ \A i \in 1..Len(stack) : ~IsLoop(stack[i])
  BY <1>2, <1>3 DEF LoopIsInnermost
<1>4. ASSUME NEW i \in 1..Len(stack), IsLoop(stack[i]), current_loop_ = BlocksOf(stack[i]),
             \A j \in 1..Len(stack) : j > i => ~IsLoop(stack[j])
      PROVE  LoopIsInnermost
  <2>1. i \in LoopFrames /\ \A j \in LoopFrames : j <= i BY <1>1, <1>2, <1>4
  <2>2. \A k \in LoopFrames : (\A j \in LoopFrames : j <= k) => k = i
    <3>1. \A k \in 1..Len(stack) : k <= i /\ i <= k => k = i BY <1>1
    <3>. QED BY <1>2, <2>1, <3>1
  <2>3. (CHOOSE k \in LoopFrames : \A j \in LoopFrames : j <= k) = i BY <2>1, <2>2
  <2>. QED BY <1>4, <2>1, <2>3 DEF LoopIsInnermost, BlocksOf
<1>. QED BY <1>3, <1>4 DEF LoopsSaved, InnermostLoop

LEMMA LoopsInitially == Init => TypeOK /\ FramesShaped /\ LoopsSaved
<1>. SUFFICES ASSUME Init PROVE TypeOK /\ FramesShaped /\ LoopsSaved OBVIOUS
<1>1. TypeOK /\ FramesShaped BY Initially DEF IInv
<1>2. stack = <<>> /\ Len(stack) = 0 /\ current_loop_ = NoLoop BY DEF Init
<1>. QED BY <1>1, <1>2 DEF LoopsSaved, InnermostLoop

(* However deeply loops, branches and conditions are nested, and however   *)
(* they are left - by break_, continue_, return_ or an exception that is   *)
(* caught inside the innermost while_ - break_ and continue_ go to the     *)
(* innermost loop whose lambda is running.                                 *)
THEOREM LoopStaysInnermost ==
  ASSUME "loop" \notin Escapes
  PROVE  ThrowingSpec => []LoopIsInnermost
<1> DEFINE LoopInv == TypeOK /\ FramesShaped /\ LoopsSaved
<1>1. Init => LoopInv BY LoopsInitially
<1>2. LoopInv /\ [NextOrThrow]_vars => LoopInv' BY LoopsStep
<1>3. LoopInv => LoopIsInnermost BY SavedIsInnermost
<1>. HIDE DEF LoopInv
<1>. QED BY <1>1, <1>2, <1>3, PTL DEF ThrowingSpec

-----------------------------------------------------------------------------
(* What one step of a running lambda adds to the code.                     *)

Adds(i)  == code' = Emitted(i)
Declares ==
  code' = [code EXCEPT ![entry[function_]] = <<Alloca>> \o @]

(* A scope, or location, of the function the innermost lambda belongs to.  *)
Near(scope)  == \/ scope.fn = dbg_scope_.fn
                \/ Top.kind # "function" /\ scope.fn = Top.parent_scope.fn
NearBy(at)   == at = loc \/ Near(at.scope)

AddsNear ==
  \/ UNCHANGED code
  \/ \E i \in Instr : Adds(i) /\ NearBy(i.loc) /\ (Disciplined => ~exited_block_)
CodeGrows == stack # <<>> /\ (Declares \/ AddsNear)

(* Every call but the one that declares a variable.                        *)
Calling ==
  \/ CreateFunction \/ EndFunction \/ Statement \/ VariableGet
  \/ Return \/ Break \/ Continue
  \/ IfElse \/ IfOnly \/ Else \/ EndIf
  \/ WhileBegin \/ WhileTest \/ WhileBody \/ EndWhile

LEMMA AddStep ==
  ASSUME IInv, Calling
  PROVE  UNCHANGED code \/ (stack # <<>> /\ AddsNear)
<1>0. TypeOK /\ loc \in Location BY DEF IInv, TypeOK
<1>1. \A n : At(n).scope = dbg_scope_ BY DEF At
<1>2. \A op, to, at : Instruction(op, to, at).loc = at BY DEF Instruction
<1>3. CASE CreateFunction \/ EndFunction \/ WhileBegin \/ Abort
  BY <1>3 DEF CreateFunction, EndFunction, WhileBegin, Abort
<1>4. CASE Statement
  <2>1. Instruction("op", {}, At(line_no_)) \in Instr BY <1>0, LineFacts, EmittedType
  <2>2. stack # <<>> /\ (Disciplined => ~exited_block_)
    BY <1>4 DEF Statement, MayAdd, MayCall, Disciplined
  <2>. QED BY <1>1, <1>2, <1>4, <2>1, <2>2 DEF Statement, AddsNear, Adds, NearBy, Near
<1>5. CASE VariableGet
  <2>1. Instruction("get", {}, loc) \in Instr BY <1>0, EmittedType
  <2>2. stack # <<>> /\ (Disciplined => ~exited_block_)
    BY <1>5 DEF VariableGet, MayAdd, MayCall, Disciplined
  <2>. QED BY <1>2, <1>5, <2>1, <2>2 DEF VariableGet, AddsNear, Adds, NearBy
<1>6. ASSUME MayExit, NEW kind, NEW op \in Terminators, NEW to \in SUBSET Block,
             Exit(kind, op, to)
      PROVE  stack # <<>> /\ AddsNear
  <2>1. Instruction(op, to, At(line_no_)) \in Instr BY <1>0, LineFacts, EmittedType
  <2>2. stack # <<>> /\ (Disciplined => ~exited_block_)
    BY <1>6 DEF MayExit, MayCall, Disciplined
  <2>. QED BY <1>1, <1>2, <1>6, <2>1, <2>2 DEF Exit, AddsNear, Adds, NearBy, Near
<1>7. CASE Return \/ Break \/ Continue
  <2>1. \A b \in 0..MaxBlocks : b # 0 => {b} \in SUBSET Block BY BoundsAssumption DEF Block
  <2>2. current_loop_.break_block_ \in 0..MaxBlocks /\ current_loop_.continue_block_ \in 0..MaxBlocks
    BY <1>0 DEF TypeOK, Loop
  <2>3. CASE Return BY <1>6, <2>3 DEF Return, Terminators
  <2>4. ASSUME NEW kind, NEW x \in 0..MaxBlocks, MayExit, x # 0, Exit(kind, "br", {x})
        PROVE  stack # <<>> /\ AddsNear
    <3>1. "br" \in Terminators /\ {x} \in SUBSET Block BY <2>1, <2>4 DEF Terminators
    <3>. QED BY <1>6, <2>4, <3>1
  <2>5. CASE Break BY <1>3, <2>2, <2>4, <2>5 DEF Break
  <2>6. CASE Continue BY <1>3, <2>2, <2>4, <2>6 DEF Continue
  <2>. QED BY <1>7, <2>3, <2>5, <2>6
<1>8. ASSUME NEW kind, NEW pending \in {1, 2}, IfBegin(kind, pending), ~exited_block_
      PROVE  stack # <<>> /\ AddsNear
  <2>1. {blocks + 1, blocks + 2} \in SUBSET Block
    BY <1>0, <1>8, IfBlocks
  <2> DEFINE i == Instruction("condbr", {blocks + 1, blocks + 2}, At(line_no_))
  <2>2. i \in Instr BY <1>0, <2>1, LineFacts, EmittedType DEF Terminators
  <2>3. stack # <<>> BY <1>8 DEF IfBegin, MayNest, MayCall
  <2>4. code' = Emitted(i) BY <1>8 DEF IfBegin, FalseBlock
  <2>5. i.loc = At(line_no_) BY <1>2
  <2>. HIDE DEF i
  <2>6. NearBy(i.loc) BY <1>1, <2>5 DEF NearBy, Near
  <2>. QED BY <1>8, <2>2, <2>3, <2>4, <2>6 DEF AddsNear, Adds
<1>9. CASE IfElse \/ IfOnly
  <2>1. CASE exited_block_ BY <1>3, <1>9, <2>1 DEF IfElse, IfOnly, IfBegin
  <2>2. CASE ~exited_block_ BY <1>8, <1>9, <2>2 DEF IfElse, IfOnly
  <2>. QED BY <2>1, <2>2
<1>10. ASSUME stack # <<>>, Top.kind # "function", NEW target \in Block,
              NEW line \in Nat, CloseBranch(target, [line |-> line, scope |-> Top.parent_scope])
       PROVE  stack # <<>> /\ AddsNear
  <2> DEFINE at == [line |-> line, scope |-> Top.parent_scope]
  <2>1. Top.parent_scope \in Scope BY <1>0, <1>10, TopFrame DEF Frame
  <2>2. at \in Location BY <1>10, <2>1, ScopeFacts
  <2>3. Instruction("br", {target}, at) \in Instr
    BY <1>0, <1>10, <2>2, EmittedType DEF Terminators
  <2>4. at.scope = Top.parent_scope OBVIOUS
  <2>5. CASE exited_block_ BY <1>10, <2>5 DEF CloseBranch, AddsNear
  <2>6. CASE ~exited_block_
    <3>1. code' = Emitted(Instruction("br", {target}, at)) BY <1>10, <2>6 DEF CloseBranch
    <3>2. NearBy(at) BY <1>10, <2>4 DEF NearBy, Near
    <3>. HIDE DEF at
    <3>. QED BY <1>2, <1>10, <2>3, <2>6, <3>1, <3>2 DEF AddsNear, Adds
  <2>. QED BY <2>5, <2>6
<1>11. CASE Else \/ EndIf
  <2>1. stack # <<>> /\ Top.kind \in {"then_else", "then", "else"}
    BY <1>11 DEF Else, EndIf, Returns
  <2>2. Top.exit_block \in Block BY <2>1, TopOwed
  <2>3. line_no_ \in Nat BY <1>0, LineFacts
  <2>. QED BY <1>10, <1>11, <2>1, <2>2, <2>3 DEF Else, EndIf
<1>12. CASE EndWhile
  <2>1. stack # <<>> /\ Top.kind = "body" BY <1>12 DEF EndWhile, Returns
  <2>2. Top.head_block \in Block BY <2>1, TopOwed
  <2>3. line_no_ \in Nat BY <1>0, LineFacts
  <2>. QED BY <1>10, <1>12, <2>1, <2>2, <2>3 DEF EndWhile
<1>13. CASE WhileTest
  <2>1. blocks + 1 \in Block BY <1>0, <1>13, TestBlocks
  <2>2. Instruction("br", {blocks + 1}, loc) \in Instr
    BY <1>0, <2>1, EmittedType DEF Terminators
  <2>3. stack # <<>> /\ (Disciplined => ~exited_block_)
    BY <1>13 DEF WhileTest, Returns, IInv, ConditionLive, Conditions
  <2>. QED BY <1>2, <1>13, <2>2, <2>3 DEF WhileTest, AddsNear, Adds, NearBy
<1>14. CASE WhileBody /\ ~exited_block_
  <2>1. stack # <<>> /\ Top.kind = "cond2" BY <1>14 DEF WhileBody, Returns
  <2>2. Top.next_block \in Block /\ Top.exit_block \in Block BY <2>1, TopOwed
  <2>3. Instruction("condbr", {Top.next_block, Top.exit_block}, loc) \in Instr
    BY <1>0, <2>2, EmittedType DEF Terminators
  <2>. QED BY <1>2, <1>14, <2>1, <2>3 DEF WhileBody, AddsNear, Adds, NearBy
<1>15. CASE WhileBody /\ exited_block_ BY <1>3, <1>15 DEF WhileBody
<1>. QED
  BY <1>3, <1>4, <1>5, <1>7, <1>9, <1>11, <1>12, <1>13, <1>14, <1>15 DEF Calling

LEMMA CodeStep ==
  ASSUME IInv, Next
  PROVE  UNCHANGED code \/ CodeGrows
<1>1. CASE Calling BY <1>1, AddStep DEF CodeGrows
<1>2. CASE VariableDecl BY <1>2 DEF VariableDecl, MayCall, CodeGrows, Declares
<1>. QED BY <1>1, <1>2 DEF Next, Calling

-----------------------------------------------------------------------------
(* No instruction follows a terminator.                                    *)

LastOnly(c) == \A i \in DOMAIN c : c[i].op \in Terminators => i = Len(c)

LEMMA AppendLast ==
  ASSUME NEW c \in Seq(Instr), NEW i \in Instr, LastOnly(c), ~Ends(c)
  PROVE  LastOnly(Append(c, i))
<1>1. /\ DOMAIN Append(c, i) = 1..(Len(c) + 1) /\ DOMAIN c = 1..Len(c) /\ Len(c) \in Nat
      /\ Len(Append(c, i)) = Len(c) + 1
      /\ \A j \in 1..Len(c) : Append(c, i)[j] = c[j]
  BY PushFacts
<1>2. \A n \in Nat : \A j \in 1..(n + 1) : j \in 1..n \/ j = n + 1 OBVIOUS
<1>. QED BY <1>1, <1>2 DEF LastOnly, Ends

LEMMA PrependLast ==
  ASSUME NEW c \in Seq(Instr), NEW a \in Instr, LastOnly(c), a.op \notin Terminators
  PROVE  LastOnly(<<a>> \o c)
<1> DEFINE d == <<a>> \o c
<1>1. <<a>> \in Seq(Instr) /\ Len(<<a>>) = 1 /\ <<a>>[1] = a OBVIOUS
<1>2. /\ d \in Seq(Instr) /\ Len(d) = 1 + Len(c)
      /\ \A j \in 1..(1 + Len(c)) : d[j] = IF j <= 1 THEN <<a>>[j] ELSE c[j - 1]
  BY <1>1, ConcatProperties
<1>3. DOMAIN d = 1..(1 + Len(c)) /\ DOMAIN c = 1..Len(c) /\ Len(c) \in Nat
  BY <1>2, LenProperties
<1>. HIDE DEF d
<1>4. \A n \in Nat : \A j \in 1..(1 + n) :
        (j = 1 /\ j <= 1) \/ (~(j <= 1) /\ j - 1 \in 1..n /\ (j - 1 = n => j = 1 + n))
  OBVIOUS
<1>5. ASSUME NEW j \in DOMAIN d, d[j].op \in Terminators PROVE j = Len(d)
  <2>1. ~(j = 1 /\ j <= 1) BY <1>1, <1>2, <1>3, <1>5
  <2>2. j - 1 \in DOMAIN c /\ d[j] = c[j - 1] /\ (j - 1 = Len(c) => j = 1 + Len(c))
    BY <1>2, <1>3, <1>4, <2>1
  <2>. QED BY <1>2, <1>5, <2>2 DEF LastOnly
<1>. QED BY <1>5 DEF LastOnly, d

LEMMA LastStep ==
  ASSUME Disciplined, IInv, NoCodeAfterTerminator, [Next]_vars
  PROVE  NoCodeAfterTerminator'
<1>1. TypeOK /\ code \in [Block -> Seq(Instr)] BY DEF IInv, TypeOK
<1>2. \A b \in Block : LastOnly(code[b]) BY DEF NoCodeAfterTerminator, LastOnly
<1>3. (\A b \in Block : LastOnly(code'[b])) => NoCodeAfterTerminator'
  BY DEF NoCodeAfterTerminator, LastOnly
<1>4. CASE UNCHANGED code BY <1>4 DEF NoCodeAfterTerminator
<1>5. CASE stack # <<>> /\ Declares
  <2>1. entry[function_] \in Block BY <1>5 DEF IInv, InsertionPlaced
  <2>2. Alloca \in Instr /\ Alloca.op \notin Terminators BY <1>1, <2>1, AllocaFacts
  <2>3. LastOnly(<<Alloca>> \o code[entry[function_]])
    BY <1>1, <1>2, <2>1, <2>2, PrependLast
  <2>. QED BY <1>1, <1>2, <1>3, <1>5, <2>1, <2>3 DEF Declares
<1>6. ASSUME stack # <<>>, NEW i \in Instr, Adds(i), ~exited_block_
      PROVE  NoCodeAfterTerminator'
  <2>1. insert \in Block BY <1>6 DEF IInv, InsertionPlaced
  <2>2. ~Ends(code[insert])
    BY <1>6 DEF IInv, ExitFlagTracksTerminator, HasTerminator, Ends
  <2>3. LastOnly(Append(code[insert], i)) BY <1>1, <1>2, <2>1, <2>2, AppendLast
  <2>. QED BY <1>1, <1>2, <1>3, <1>6, <2>1, <2>3 DEF Adds, Emitted
<1>. QED BY <1>4, <1>5, <1>6, CodeStep DEF CodeGrows, AddsNear, vars

(* For a client that makes no call after an exit and nests no functions,   *)
(* conditions that leave their block included: if_, while_ and the exits   *)
(* never add to a block that is closed, nor close one twice.               *)
THEOREM TerminatorsAreLast ==
  ASSUME Disciplined
  PROVE  Spec => []NoCodeAfterTerminator
<1>1. Init => NoCodeAfterTerminator BY DEF Init, NoCodeAfterTerminator
<1>2. IInv /\ NoCodeAfterTerminator /\ [Next]_vars => NoCodeAfterTerminator' BY LastStep
<1>. QED BY <1>1, <1>2, Invariance, PTL DEF Spec

-----------------------------------------------------------------------------
(* Debug locations.                                                        *)

(* What one step of a running lambda does to scopes and locations.         *)
ScopesMove ==
  /\ stack # <<>> /\ NearBy(loc')
  /\ Near(dbg_scope_') \/ (Top.kind = "function" /\ stack' = Outer)
  /\ \/ stack' = stack
     \/ stack' = Outer
     \/ \E f \in Frame : stack' = Append(stack, f) /\ f.parent_scope = dbg_scope_
     \/ \E f \in Frame : /\ stack' = [stack EXCEPT ![Len(stack)] = f]
                         /\ Top.kind # "function"
                         /\ f.parent_scope \in {Top.parent_scope, dbg_scope_}

LEMMA ScopeStep ==
  ASSUME IInv, Next
  PROVE  CreateFunction \/ UNCHANGED <<loc, dbg_scope_, stack>> \/ ScopesMove
<1>0. /\ TypeOK /\ blocks \in Nat /\ 0 \in 0..MaxBlocks /\ current_loop_ \in Loop
      /\ dbg_scope_ \in Scope
  BY BoundsAssumption DEF IInv, TypeOK
<1>1. /\ \A n : At(n).scope = dbg_scope_
      /\ \A s, n : LexicalBlock(s, n).fn = s.fn
  BY DEF At, LexicalBlock
<1>2. CASE Abort BY <1>2 DEF Abort
<1>3. CASE EndFunction
  <2>1. stack # <<>> /\ Top.kind = "function" /\ stack' = Outer /\ loc' = loc
    BY <1>3 DEF EndFunction, Returns, Pop
  <2>. QED BY <2>1 DEF ScopesMove, NearBy
<1>4. CASE Statement \/ VariableGet \/ VariableDecl
  BY <1>1, <1>4 DEF Statement, VariableGet, VariableDecl, MayAdd, MayCall, ScopesMove, NearBy, Near
<1>5. CASE Return \/ Break \/ Continue
  BY <1>1, <1>2, <1>5
  DEF Return, Break, Continue, Exit, MayExit, MayCall, ScopesMove, NearBy, Near
<1>6. ASSUME NEW kind \in {"then_else", "then"}, NEW pending \in {1, 2},
             IfBegin(kind, pending), ~exited_block_
      PROVE  ScopesMove
  <2> DEFINE f == [NewFrame(kind) EXCEPT
                     !.exit_block = blocks + 1 + pending,
                     !.next_block = IF blocks + 2 = blocks + 1 + pending THEN 0 ELSE blocks + 2]
  <2>1. /\ blocks + 1 + pending \in 0..MaxBlocks
        /\ (IF blocks + 2 = blocks + 1 + pending THEN 0 ELSE blocks + 2) \in 0..MaxBlocks
    BY <1>0, <1>6, BoundsAssumption DEF IfBegin
  <2>2. NewFrame(kind) \in Frame BY <1>0, NewFrameType DEF FrameKind
  <2>3. f \in Frame BY <2>1, <2>2 DEF Frame
  <2>4. f.parent_scope = dbg_scope_ BY DEF NewFrame
  <2>5. /\ stack # <<>> /\ stack' = Append(stack, f) /\ loc' = At(line_no_)
        /\ dbg_scope_' = LexicalBlock(dbg_scope_, line_no_ + 1)
    BY <1>6 DEF IfBegin, MayNest, MayCall, Push
  <2>. HIDE DEF f
  <2>6. NearBy(loc') /\ Near(dbg_scope_') BY <1>1, <2>5 DEF NearBy, Near
  <2>. QED BY <2>3, <2>4, <2>5, <2>6 DEF ScopesMove
<1>7. CASE IfElse \/ IfOnly
  <2>1. CASE exited_block_ BY <1>2, <1>7, <2>1 DEF IfElse, IfOnly, IfBegin
  <2>2. CASE ~exited_block_ BY <1>6, <1>7, <2>2 DEF IfElse, IfOnly
  <2>. QED BY <2>1, <2>2
<1>8. ASSUME NEW target, NEW line, Top.kind # "function",
             CloseBranch(target, [line |-> line, scope |-> Top.parent_scope])
      PROVE  NearBy(loc')
  BY <1>8 DEF CloseBranch, NearBy, Near
<1>9. CASE Else
  <2> DEFINE f == [Top EXCEPT !.kind = "else", !.next_block = 0]
  <2>1. stack # <<>> /\ Top.kind = "then_else" BY <1>9 DEF Else, Returns
  <2>2. Top \in Frame BY <1>0, <2>1, TopFrame
  <2>3. f \in Frame /\ f.parent_scope = Top.parent_scope
    BY <1>0, <2>2 DEF Frame, FrameKind
  <2>4. /\ stack' = [stack EXCEPT ![Len(stack)] = f]
        /\ dbg_scope_' = LexicalBlock(Top.parent_scope, line_no_ + 1)
    BY <1>9 DEF Else, Replace
  <2>. HIDE DEF f
  <2>5. NearBy(loc') BY <1>8, <1>9, <2>1 DEF Else
  <2>6. Near(dbg_scope_') BY <1>1, <2>1, <2>4 DEF Near
  <2>. QED BY <2>1, <2>3, <2>4, <2>5, <2>6 DEF ScopesMove
<1>10. CASE EndIf \/ EndWhile
  <2>1. stack # <<>> /\ Top.kind \in {"then", "else", "body"}
    BY <1>10 DEF EndIf, EndWhile, Returns
  <2>2. stack' = Outer /\ dbg_scope_' = Top.parent_scope
    BY <1>10 DEF EndIf, EndWhile, Pop
  <2>3. NearBy(loc') BY <1>8, <1>10, <2>1 DEF EndIf, EndWhile
  <2>4. Near(dbg_scope_') BY <2>1, <2>2 DEF Near
  <2>. QED BY <2>1, <2>2, <2>3, <2>4 DEF ScopesMove
<1>11. CASE WhileBegin
  <2>1. NewFrame("cond1") \in Frame BY <1>0, NewFrameType DEF FrameKind
  <2>2. NewFrame("cond1").parent_scope = dbg_scope_ BY DEF NewFrame
  <2>3. /\ stack # <<>> /\ stack' = Append(stack, NewFrame("cond1"))
        /\ loc' = At(WhileLine) /\ dbg_scope_' = dbg_scope_
    BY <1>11 DEF WhileBegin, MayNest, MayCall, Push
  <2>4. NearBy(loc') /\ Near(dbg_scope_') BY <1>1, <2>3 DEF NearBy, Near
  <2>. QED BY <2>1, <2>2, <2>3, <2>4 DEF ScopesMove
<1>12. CASE WhileTest
  <2> DEFINE f == [Top EXCEPT !.kind = "cond2", !.head_block = blocks + 1,
                     !.next_block = blocks + 2, !.exit_block = blocks + 3,
                     !.parent_loop = current_loop_]
  <2>1. stack # <<>> /\ Top.kind = "cond1" BY <1>12 DEF WhileTest, Returns
  <2>2. /\ blocks + 1 \in 0..MaxBlocks /\ blocks + 2 \in 0..MaxBlocks
        /\ blocks + 3 \in 0..MaxBlocks
    BY <1>0, <1>12, BoundsAssumption DEF WhileTest
  <2>3. Top \in Frame BY <1>0, <2>1, TopFrame
  <2>4. f \in Frame /\ f.parent_scope = Top.parent_scope
    BY <1>0, <2>2, <2>3 DEF Frame, FrameKind
  <2>5. /\ stack' = [stack EXCEPT ![Len(stack)] = f]
        /\ loc' = loc /\ dbg_scope_' = dbg_scope_
    BY <1>12 DEF WhileTest, Replace
  <2>. HIDE DEF f
  <2>6. NearBy(loc') /\ Near(dbg_scope_') BY <2>5 DEF NearBy, Near
  <2>. QED BY <2>1, <2>4, <2>5, <2>6 DEF ScopesMove
<1>13. CASE WhileBody /\ ~exited_block_
  <2> DEFINE f == [Top EXCEPT !.kind = "body", !.next_block = 0, !.parent_scope = dbg_scope_]
  <2>1. stack # <<>> /\ Top.kind = "cond2" BY <1>13 DEF WhileBody, Returns
  <2>2. Top \in Frame BY <1>0, <2>1, TopFrame
  <2>3. f \in Frame /\ f.parent_scope = dbg_scope_
    BY <1>0, <2>2 DEF Frame, FrameKind
  <2>4. /\ stack' = [stack EXCEPT ![Len(stack)] = f]
        /\ loc' = loc /\ dbg_scope_' = LexicalBlock(dbg_scope_, line_no_)
    BY <1>13 DEF WhileBody, Replace
  <2>. HIDE DEF f
  <2>5. NearBy(loc') /\ Near(dbg_scope_') BY <1>1, <2>4 DEF NearBy, Near
  <2>. QED BY <2>1, <2>3, <2>4, <2>5 DEF ScopesMove
<1>14. CASE WhileBody /\ exited_block_ BY <1>2, <1>14 DEF WhileBody
<1>. QED
  BY <1>3, <1>4, <1>5, <1>7, <1>9, <1>10, <1>11, <1>12, <1>13, <1>14 DEF Next

(* The strengthening of LocationInOwnFunction: every scope that a later    *)
(* step can take up is of the function that is being filled.               *)
OwnScopes ==
  /\ loc # NoLoc => loc.scope.fn = function_
  /\ stack # <<>> => dbg_scope_.fn = function_
  /\ \A i \in DOMAIN stack :
       stack[i].kind # "function" => stack[i].parent_scope.fn = function_

LEMMA ScopesKept ==
  ASSUME "nested_function" \notin Liberties, IInv, OneFunctionAtATime, OwnScopes, [Next]_vars
  PROVE  OwnScopes'
<1>1. /\ TypeOK /\ stack \in Seq(Frame)
      /\ DOMAIN stack = 1..Len(stack) /\ Len(stack) \in Nat
  BY LenProperties DEF IInv, TypeOK
<1>2. CASE CreateFunction
  <2>1. PICK fn \in Function :
          /\ function_' = fn /\ dbg_scope_' = [fn |-> fn, line |-> line_no_]
          /\ stack' = Append(stack, [NewFrame("function") EXCEPT !.fn = fn])
    BY <1>2 DEF CreateFunction, FunctionToFill, Push
  <2> DEFINE f == [NewFrame("function") EXCEPT !.fn = fn]
  <2>2. f.kind = "function" BY DEF NewFrame
  <2>. HIDE DEF f
  <2>3. stack = <<>> /\ loc' = NoLoc BY <1>2 DEF CreateFunction, FreshLocation
  <2>4. DOMAIN stack' = {1} /\ stack'[1] = f
    <3>1. \A e : DOMAIN Append(<<>>, e) = {1} /\ Append(<<>>, e)[1] = e OBVIOUS
    <3>. QED BY <2>1, <2>3, <3>1 DEF f
  <2>. QED BY <2>1, <2>2, <2>3, <2>4 DEF OwnScopes
<1>3. CASE UNCHANGED <<loc, dbg_scope_, stack>> /\ ~CreateFunction
  <2>1. CASE stack = <<>>
    <3>1. UNCHANGED function_ BY <1>3, <2>1, StepEffect DEF LocalEffect, vars
    <3>. QED BY <1>3, <3>1 DEF OwnScopes
  <2>2. CASE stack # <<>>
    <3>1. UNCHANGED function_ BY <1>3, <2>2, StepEffect DEF LocalEffect, vars
    <3>. QED BY <1>3, <3>1 DEF OwnScopes
  <2>. QED BY <2>1, <2>2
<1>4. CASE ScopesMove /\ ~CreateFunction
  <2>1. UNCHANGED function_ BY <1>4, StepEffect DEF LocalEffect, vars
  <2>2. Len(stack) \in DOMAIN stack BY <1>1, <1>4, TopFacts DEF ScopesMove
  <2>3. Top.kind # "function" => Top.parent_scope.fn = function_
    BY <2>2 DEF OwnScopes, Top
  <2>4. dbg_scope_.fn = function_ BY <1>4 DEF ScopesMove, OwnScopes
  <2>5. \A s : Near(s) => s.fn = function_ BY <2>3, <2>4 DEF Near
  <2>6. loc' # NoLoc => loc'.scope.fn = function_'
    BY <1>4, <2>1, <2>5 DEF ScopesMove, NearBy, OwnScopes
  <2>7. stack' # <<>> => dbg_scope_'.fn = function_'
    <3>1. Top.kind = "function" => Outer = <<>>
      BY <1>1, <1>4, OutermostAlone DEF IInv, ScopesMove
    <3>. QED BY <1>4, <2>1, <2>5, <3>1 DEF ScopesMove
  <2>8. ASSUME NEW i \in DOMAIN stack', stack'[i].kind # "function"
        PROVE  stack'[i].parent_scope.fn = function_'
    <3>1. CASE stack' = stack BY <2>1, <2>8, <3>1 DEF OwnScopes
    <3>2. CASE stack' = Outer
      <4>1. i \in 1..(Len(stack) - 1) /\ stack'[i] = stack[i]
        BY <1>1, <1>4, <2>8, <3>2, PopFacts DEF Outer, ScopesMove
      <4>2. i \in DOMAIN stack BY <1>1, <4>1
      <4>. QED BY <2>1, <2>8, <4>1, <4>2 DEF OwnScopes
    <3>3. ASSUME NEW f \in Frame, stack' = Append(stack, f), f.parent_scope = dbg_scope_
          PROVE  stack'[i].parent_scope.fn = function_'
      <4>1. /\ DOMAIN stack' = 1..(Len(stack) + 1) /\ stack'[Len(stack) + 1] = f
            /\ \A j \in 1..Len(stack) : stack'[j] = stack[j]
        BY <1>1, <3>3, PushFacts
      <4>2. i = Len(stack) + 1 \/ i \in DOMAIN stack BY <1>1, <2>8, <4>1
      <4>. QED BY <1>1, <2>1, <2>4, <2>8, <3>3, <4>1, <4>2 DEF OwnScopes
    <3>4. ASSUME NEW f \in Frame, stack' = [stack EXCEPT ![Len(stack)] = f],
                 Top.kind # "function", f.parent_scope \in {Top.parent_scope, dbg_scope_}
          PROVE  stack'[i].parent_scope.fn = function_'
      <4>1. stack # <<>> BY <1>4 DEF ScopesMove
      <4>2. i \in DOMAIN stack /\ stack'[i] = IF i = Len(stack) THEN f ELSE stack[i]
        BY <1>1, <2>8, <3>4, <4>1
      <4>. QED BY <2>1, <2>3, <2>4, <2>8, <3>4, <4>2 DEF OwnScopes
    <3>. QED BY <1>4, <3>1, <3>2, <3>3, <3>4 DEF ScopesMove
  <2>. QED BY <2>6, <2>7, <2>8 DEF OwnScopes
<1>. QED BY <1>2, <1>3, <1>4, ScopeStep DEF vars

(* A block stays in the function it was placed in.                         *)
LEMMA PlacedStay ==
  ASSUME IInv, [Next]_vars
  PROVE  \A b \in Block : parent[b] # 0 => parent'[b] = parent[b]
<1>1. TypeOK BY DEF IInv
<1>2. CASE CreateFunction
  <2>1. PICK fn \in Function : parent' = [parent EXCEPT ![blocks + 1] = fn]
    BY <1>2 DEF CreateFunction
  <2>2. blocks + 1 \in Block /\ blocks + 1 > blocks
    BY <1>1, <1>2, CreateBlocks
  <2>3. parent[blocks + 1] = 0 BY <2>2 DEF IInv, UncreatedUnplaced
  <2>. QED BY <1>1, <2>1, <2>3 DEF TypeOK
<1>. QED BY <1>2, StepEffect DEF LocalEffect, vars

(* An instruction of the new code is an old one or the one that was added. *)
LEMMA AddsOne ==
  ASSUME TypeOK, insert \in Block, NEW i \in Instr, Adds(i),
         NEW b \in Block, NEW j \in DOMAIN code'[b]
  PROVE  (b = insert /\ code'[b][j] = i) \/ \E k \in DOMAIN code[b] : code'[b][j] = code[b][k]
<1>1. code \in [Block -> Seq(Instr)] BY DEF TypeOK
<1>2. CASE b = insert
  <2>1. code'[insert] = Append(code[insert], i) BY <1>1 DEF Adds, Emitted
  <2>2. /\ DOMAIN code'[insert] = 1..(Len(code[insert]) + 1) /\ Len(code[insert]) \in Nat
        /\ DOMAIN code[insert] = 1..Len(code[insert])
        /\ \A k \in 1..Len(code[insert]) : code'[insert][k] = code[insert][k]
        /\ code'[insert][Len(code[insert]) + 1] = i
    BY <1>1, <2>1, PushFacts
  <2>3. j = Len(code[insert]) + 1 \/ j \in DOMAIN code[insert] BY <1>2, <2>2
  <2>. QED BY <1>2, <2>2, <2>3
<1>3. CASE b # insert
  <2>1. code'[b] = code[b] BY <1>1, <1>3, CodeEffect DEF Adds
  <2>. QED BY <2>1
<1>. QED BY <1>2, <1>3

LEMMA DeclaresOne ==
  ASSUME TypeOK, entry[function_] \in Block, Declares,
         NEW b \in Block, NEW j \in DOMAIN code'[b]
  PROVE  \/ b = entry[function_] /\ code'[b][j] = Alloca
         \/ \E k \in DOMAIN code[b] : code'[b][j] = code[b][k]
<1> DEFINE top == entry[function_]
<1>1. code \in [Block -> Seq(Instr)] /\ top \in Block BY DEF TypeOK
<1>2. Alloca \in Instr BY AllocaFacts
<1>3. code'[top] = <<Alloca>> \o code[top] /\ \A c \in Block : c # top => code'[c] = code[c]
  BY <1>1 DEF Declares
<1>. HIDE DEF top
<1>4. CASE b = top
  <2>1. code[top] \in Seq(Instr) /\ <<Alloca>> \in Seq(Instr) /\ Len(<<Alloca>>) = 1
        /\ <<Alloca>>[1] = Alloca
    BY <1>1, <1>2
  <2>2. /\ code'[top] \in Seq(Instr) /\ Len(code'[top]) = 1 + Len(code[top])
        /\ \A k \in 1..(1 + Len(code[top])) :
             code'[top][k] = IF k <= 1 THEN <<Alloca>>[k] ELSE code[top][k - 1]
    BY <1>3, <2>1, ConcatProperties
  <2>3. /\ DOMAIN code'[top] = 1..(1 + Len(code[top])) /\ Len(code[top]) \in Nat
        /\ DOMAIN code[top] = 1..Len(code[top])
    BY <2>1, <2>2, LenProperties
  <2>4. \A n \in Nat : \A k \in 1..(1 + n) :
          (k = 1 /\ k <= 1) \/ (~(k <= 1) /\ k - 1 \in 1..n)
    OBVIOUS
  <2>5. j \in 1..(1 + Len(code[top])) BY <1>4, <2>3
  <2>6. CASE j = 1
    <3>1. code'[top][j] = Alloca BY <2>1, <2>2, <2>5, <2>6
    <3>. QED BY <1>4, <3>1 DEF top
  <2>7. CASE ~(j <= 1) /\ j - 1 \in 1..Len(code[top])
    <3>1. code'[top][j] = code[top][j - 1] BY <2>2, <2>5, <2>7
    <3>2. j - 1 \in DOMAIN code[b] BY <1>4, <2>3, <2>7
    <3>. QED BY <1>4, <3>1, <3>2
  <2>. QED BY <2>3, <2>4, <2>5, <2>6, <2>7
<1>5. CASE b # top
  <2>1. code'[b] = code[b] BY <1>3, <1>5
  <2>. QED BY <2>1
<1>. QED BY <1>4, <1>5

LEMMA LocationKept ==
  ASSUME "nested_function" \notin Liberties, IInv, OneFunctionAtATime, OwnScopes,
         LocationInOwnFunction, [Next]_vars
  PROVE  LocationInOwnFunction'
<1>1. TypeOK /\ stack \in Seq(Frame) BY DEF IInv, TypeOK
<1>2. \A b \in Block : parent[b] # 0 => parent'[b] = parent[b] BY PlacedStay
<1>3. \A b \in Block : parent[b] = 0 => code[b] = <<>> BY DEF IInv, UnplacedEmpty
<1>4. \A b \in Block : \A k \in DOMAIN code[b] :
        code[b][k].loc # NoLoc => code[b][k].loc.scope.fn = parent'[b]
  BY <1>2, <1>3 DEF LocationInOwnFunction
<1>5. CASE UNCHANGED code BY <1>4, <1>5 DEF LocationInOwnFunction
<1>6. ASSUME stack # <<>>, NEW i \in Instr, Adds(i), NearBy(i.loc)
      PROVE  LocationInOwnFunction'
  <2>1. /\ insert \in Block /\ parent[insert] = function_ /\ function_ # 0
    BY <1>6 DEF IInv, InsertionPlaced, OneFunctionAtATime, Function
  <2>2. i.loc # NoLoc => i.loc.scope.fn = parent'[insert]
    <3>1. Len(stack) \in DOMAIN stack BY <1>1, <1>6, TopFacts
    <3>2. Top.kind # "function" => Top.parent_scope.fn = function_
      BY <3>1 DEF OwnScopes, Top
    <3>. QED BY <1>2, <1>6, <2>1, <3>2 DEF NearBy, Near, OwnScopes
  <2>3. ASSUME NEW b \in Block, NEW j \in DOMAIN code'[b], code'[b][j].loc # NoLoc
        PROVE  code'[b][j].loc.scope.fn = parent'[b]
    <3>1. (b = insert /\ code'[b][j] = i) \/ \E k \in DOMAIN code[b] : code'[b][j] = code[b][k]
      BY <1>1, <1>6, <2>1, AddsOne
    <3>. QED BY <1>4, <2>2, <2>3, <3>1
  <2>. QED BY <2>3 DEF LocationInOwnFunction
<1>7. CASE stack # <<>> /\ Declares
  <2>1. entry[function_] \in Block BY <1>7 DEF IInv, InsertionPlaced
  <2>2. \/ Alloca.loc = NoLoc
        \/ \E k \in DOMAIN code[entry[function_]] : Alloca.loc = code[entry[function_]][k].loc
    BY <1>1, <2>1, AllocaFacts
  <2>3. ASSUME NEW b \in Block, NEW j \in DOMAIN code'[b], code'[b][j].loc # NoLoc
        PROVE  code'[b][j].loc.scope.fn = parent'[b]
    <3>1. \/ b = entry[function_] /\ code'[b][j] = Alloca
          \/ \E k \in DOMAIN code[b] : code'[b][j] = code[b][k]
      BY <1>1, <1>7, <2>1, DeclaresOne
    <3>2. CASE b = entry[function_] /\ code'[b][j] = Alloca BY <1>4, <2>1, <2>2, <2>3, <3>2
    <3>. QED BY <1>4, <2>3, <3>1, <3>2
  <2>. QED BY <2>3 DEF LocationInOwnFunction
<1>. QED BY <1>5, <1>6, <1>7, CodeStep DEF CodeGrows, AddsNear, vars

(* Unless a client creates a function inside another's lambda, no          *)
(* instruction carries the location of another function, whichever         *)
(* statement it inherits its location from.                                *)
THEOREM LocationsStayInside ==
  ASSUME "nested_function" \notin Liberties
  PROVE  Spec => []LocationInOwnFunction
<1>1. Init => OwnScopes /\ LocationInOwnFunction
  BY DEF Init, OwnScopes, LocationInOwnFunction
<1>2. IInv /\ OneFunctionAtATime /\ OwnScopes /\ LocationInOwnFunction /\ [Next]_vars
      => OwnScopes' /\ LocationInOwnFunction'
  BY ScopesKept, LocationKept
<1>. QED BY <1>1, <1>2, Invariance, OneFunction, PTL DEF Spec

-----------------------------------------------------------------------------
(* Branch targets.  While lambdas run, a branch may go to a block that is  *)
(* not placed yet, but then one of them owes that block to the function    *)
(* the branch is in.                                                       *)

Debts == {t \in Block : \E j \in DOMAIN stack : t \in Owed(stack[j])}
TargetsKnown ==
  \A b \in Block : \A i \in DOMAIN code[b] : \A t \in code[b][i].to :
     \/ parent[t] = parent[b]
     \/ t \in Debts /\ parent[b] = function_
HeadsPlaced ==
  \A j \in DOMAIN stack : IsLoop(stack[j]) =>
     stack[j].head_block \in Block /\ parent[stack[j].head_block] = function_

(* Placed blocks stay.                                                     *)
Settled ==
  /\ UNCHANGED function_
  /\ \A b \in Block : parent[b] = function_ => parent'[b] = function_

LEMMA PushDebts ==
  ASSUME TypeOK, HeadsPlaced, Settled, NEW f \in Frame, stack' = Append(stack, f), ~IsLoop(f)
  PROVE  /\ HeadsPlaced' /\ Debts \subseteq Debts'
         /\ \A t \in Block : t \in Owed(f) => t \in Debts'
<1>1. stack \in Seq(Frame) BY DEF TypeOK
<1> DEFINE n == Len(stack)
<1>2. /\ n \in Nat /\ DOMAIN stack' = 1..(n + 1) /\ DOMAIN stack = 1..n
      /\ stack'[n + 1] = f /\ \A j \in 1..n : stack'[j] = stack[j]
  BY <1>1, PushFacts
<1>. HIDE DEF n
<1>3. /\ n + 1 \in 1..(n + 1) /\ \A j \in 1..n : j \in 1..(n + 1)
      /\ \A j \in 1..(n + 1) : j \in 1..n \/ j = n + 1
  BY <1>2
<1>4. HeadsPlaced' BY <1>2, <1>3 DEF HeadsPlaced, Settled
<1>5. ASSUME NEW t \in Debts PROVE t \in Debts'
  <2>1. PICK j \in 1..n : t \in Owed(stack[j]) BY <1>2, <1>5 DEF Debts
  <2>. QED BY <1>2, <1>3, <1>5, <2>1 DEF Debts
<1>6. \A t \in Block : t \in Owed(f) => t \in Debts' BY <1>2, <1>3 DEF Debts
<1>. QED BY <1>4, <1>5, <1>6

LEMMA PopDebts ==
  ASSUME TypeOK, HeadsPlaced, Settled, stack # <<>>, stack' = Outer
  PROVE  HeadsPlaced' /\ \A t \in Debts : t \in Debts' \/ t \in Owed(Top)
<1>1. stack \in Seq(Frame) BY DEF TypeOK
<1> DEFINE n == Len(stack)
<1>2. /\ n \in Nat \ {0} /\ DOMAIN stack' = 1..(n - 1) /\ DOMAIN stack = 1..n
      /\ \A j \in 1..(n - 1) : stack'[j] = stack[j]
  BY <1>1, PopFacts, TopFacts DEF Outer
<1>3. Top = stack[n] BY DEF Top
<1>. HIDE DEF n
<1>4. \A j \in 1..(n - 1) : j \in 1..n BY <1>2
<1>5. \A j \in 1..n : j \in 1..(n - 1) \/ j = n BY <1>2
<1>6. HeadsPlaced' BY <1>2, <1>4 DEF HeadsPlaced, Settled
<1>7. ASSUME NEW t \in Debts PROVE t \in Debts' \/ t \in Owed(Top)
  <2>1. PICK j \in 1..n : t \in Owed(stack[j]) BY <1>2, <1>7 DEF Debts
  <2>. QED BY <1>2, <1>3, <1>5, <1>7, <2>1 DEF Debts
<1>. QED BY <1>6, <1>7

LEMMA ReplaceDebts ==
  ASSUME TypeOK, HeadsPlaced, Settled, stack # <<>>, NEW f \in Frame,
         stack' = [stack EXCEPT ![Len(stack)] = f],
         IsLoop(f) => f.head_block \in Block /\ parent'[f.head_block] = function_
  PROVE  /\ HeadsPlaced' /\ \A t \in Debts : t \in Debts' \/ t \in Owed(Top)
         /\ \A t \in Block : t \in Owed(f) => t \in Debts'
<1>1. stack \in Seq(Frame) BY DEF TypeOK
<1> DEFINE n == Len(stack)
<1>2. /\ n \in Nat \ {0} /\ DOMAIN stack' = 1..n /\ DOMAIN stack = 1..n
      /\ stack'[n] = f /\ \A j \in 1..(n - 1) : stack'[j] = stack[j]
  BY <1>1, ReplaceFacts, TopFacts
<1>3. Top = stack[n] BY DEF Top
<1>. HIDE DEF n
<1>4. n \in 1..n /\ \A j \in 1..(n - 1) : j \in 1..n BY <1>2
<1>5. \A j \in 1..n : j \in 1..(n - 1) \/ j = n BY <1>2
<1>6. HeadsPlaced'
  <2>1. ASSUME NEW j \in 1..n, IsLoop(stack'[j])
        PROVE  stack'[j].head_block \in Block /\ parent'[stack'[j].head_block] = function_'
    <3>1. CASE j = n BY <1>2, <2>1, <3>1 DEF Settled
    <3>2. CASE j \in 1..(n - 1) BY <1>2, <1>4, <2>1, <3>2 DEF HeadsPlaced, Settled
    <3>. QED BY <1>5, <3>1, <3>2
  <2>. QED BY <1>2, <2>1 DEF HeadsPlaced
<1>7. ASSUME NEW t \in Debts PROVE t \in Debts' \/ t \in Owed(Top)
  <2>1. PICK j \in 1..n : t \in Owed(stack[j]) BY <1>2, <1>7 DEF Debts
  <2>. QED BY <1>2, <1>3, <1>4, <1>5, <1>7, <2>1 DEF Debts
<1>8. \A t \in Block : t \in Owed(f) => t \in Debts' BY <1>2, <1>4 DEF Debts
<1>. QED BY <1>6, <1>7, <1>8

(* What is added branches to blocks of the function, placed or owed, and   *)
(* what is no longer owed has been placed.                                 *)
Known(t) == t \in Debts' \/ parent'[t] = function_
TargetsMove ==
  /\ HeadsPlaced' /\ \A t \in Debts : Known(t)
  /\ \/ UNCHANGED code
     \/ Declares
     \/ \E i \in Instr : Adds(i) /\ \A t \in i.to : Known(t)

LEMMA LoopTargets ==
  ASSUME TypeOK, FramesShaped, LoopsSaved, HeadsPlaced
  PROVE  /\ current_loop_.break_block_ # 0 => current_loop_.break_block_ \in Debts
         /\ current_loop_.continue_block_ # 0 =>
              /\ current_loop_.continue_block_ \in Block
              /\ parent[current_loop_.continue_block_] = function_
<1>1. DOMAIN stack = 1..Len(stack) /\ stack \in Seq(Frame)
  BY LenProperties DEF TypeOK
<1>2. CASE current_loop_ = NoLoop BY <1>2 DEF NoLoop
<1>3. ASSUME NEW i \in 1..Len(stack), IsLoop(stack[i]), current_loop_ = BlocksOf(stack[i])
      PROVE  /\ current_loop_.break_block_ \in Debts
             /\ current_loop_.continue_block_ \in Block
             /\ parent[current_loop_.continue_block_] = function_
  <2>1. stack[i] \in Frame BY <1>1, ElementOfSeq
  <2>2. stack[i].exit_block # 0 BY <1>1, <1>3 DEF FramesShaped, FrameShape, IsLoop
  <2>3. stack[i].exit_block \in Block /\ stack[i].exit_block \in Owed(stack[i])
    BY <2>1, <2>2, BoundsAssumption DEF Frame, Block, Owed
  <2>4. current_loop_.break_block_ = stack[i].exit_block
        /\ current_loop_.continue_block_ = stack[i].head_block
    BY <1>3 DEF BlocksOf
  <2>. QED BY <1>1, <1>3, <2>3, <2>4 DEF Debts, HeadsPlaced
<1>. QED BY <1>2, <1>3 DEF LoopsSaved, InnermostLoop

LEMMA TargetStep ==
  ASSUME IInv, LoopsSaved, HeadsPlaced, Next
  PROVE  CreateFunction \/ UNCHANGED <<function_, parent, code, stack>> \/ (Settled /\ TargetsMove)
<1>0. /\ TypeOK /\ blocks \in Nat /\ 0 \in 0..MaxBlocks /\ current_loop_ \in Loop
      /\ dbg_scope_ \in Scope /\ loc \in Location /\ FramesShaped
      /\ line_no_ \in Nat /\ At(line_no_) \in Location
  BY BoundsAssumption, LineFacts DEF IInv, TypeOK
<1>1. \A op, to, at : Instruction(op, to, at).to = to BY DEF Instruction
<1>2. ~CreateFunction /\ ~UNCHANGED <<function_, parent, code, stack>> => Settled
  BY StepEffect DEF LocalEffect, Settled, IInv, InsertionPlaced, Function
<1>3. CASE Abort BY <1>3 DEF Abort
<1>4. ASSUME Settled, stack' = stack PROVE HeadsPlaced' /\ Debts' = Debts
  BY <1>4 DEF Settled, HeadsPlaced, Debts
<1>5. CASE Settled /\ EndFunction
  <2>1. stack # <<>> /\ Top.kind = "function" /\ stack' = Outer /\ code' = code
    BY <1>5 DEF EndFunction, Returns, Pop
  <2>2. Owed(Top) = {} BY <2>1, TopOwed
  <2>. QED BY <1>0, <1>5, <2>1, <2>2, PopDebts DEF TargetsMove, Known
<1>6. CASE Settled /\ Statement
  <2>1. Instruction("op", {}, At(line_no_)) \in Instr BY <1>0, EmittedType
  <2>. QED BY <1>1, <1>4, <1>6, <2>1 DEF Statement, TargetsMove, Known, Adds
<1>7. CASE Settled /\ VariableGet
  <2>1. Instruction("get", {}, loc) \in Instr BY <1>0, EmittedType
  <2>. QED BY <1>1, <1>4, <1>7, <2>1 DEF VariableGet, TargetsMove, Known, Adds
<1>8. CASE Settled /\ VariableDecl
  BY <1>4, <1>8 DEF VariableDecl, Declares, TargetsMove, Known
<1>9. ASSUME Settled, NEW kind, NEW op \in Terminators, NEW to \in SUBSET Block,
             Exit(kind, op, to), \A t \in to : t \in Debts \/ parent[t] = function_
      PROVE  TargetsMove
  <2> DEFINE i == Instruction(op, to, At(line_no_))
  <2>1. i \in Instr BY <1>0, EmittedType
  <2>2. code' = Emitted(i) /\ stack' = stack BY <1>9 DEF Exit
  <2>3. i.to = to BY <1>1
  <2>. HIDE DEF i
  <2>. QED BY <1>4, <1>9, <2>1, <2>2, <2>3 DEF TargetsMove, Known, Adds, Settled
<1>10. CASE Settled /\ (Return \/ Break \/ Continue)
  <2>1. \A b \in Block : {b} \in SUBSET Block OBVIOUS
  <2>2. \A b \in Debts : b \in Block BY DEF Debts
  <2>3. {} \in SUBSET Block OBVIOUS
  <2>4. CASE Return BY <1>9, <1>10, <2>3, <2>4 DEF Return, Terminators
  <2>5. CASE Break
    BY <1>0, <1>3, <1>9, <1>10, <2>1, <2>2, <2>5, LoopTargets DEF Break, Terminators
  <2>6. CASE Continue
    BY <1>0, <1>3, <1>9, <1>10, <2>1, <2>6, LoopTargets DEF Continue, Terminators
  <2>. QED BY <1>10, <2>4, <2>5, <2>6
<1>11. ASSUME Settled, NEW kind \in {"then_else", "then"}, NEW pending \in {1, 2},
              IfBegin(kind, pending), ~exited_block_
       PROVE  TargetsMove
  <2> DEFINE f == [NewFrame(kind) EXCEPT
                     !.exit_block = blocks + 1 + pending,
                     !.next_block = IF blocks + 2 = blocks + 1 + pending THEN 0 ELSE blocks + 2]
             i == Instruction("condbr", {blocks + 1, blocks + 2}, At(line_no_))
  <2>1. /\ blocks + 1 + pending \in 0..MaxBlocks
        /\ (IF blocks + 2 = blocks + 1 + pending THEN 0 ELSE blocks + 2) \in 0..MaxBlocks
        /\ blocks + 1 \in Block /\ blocks + 2 \in Block /\ blocks + 2 # 0
    BY <1>0, <1>11, IfBlocks DEF Block
  <2>2. NewFrame(kind) \in Frame BY <1>0, NewFrameType DEF FrameKind
  <2>3. f \in Frame BY <2>1, <2>2 DEF Frame
  <2>4. f.kind = kind /\ blocks + 2 \in Owed(f) BY <2>1 DEF NewFrame, Owed
  <2>5. i \in Instr
    <3>1. {blocks + 1, blocks + 2} \in SUBSET Block BY <2>1
    <3>. QED BY <1>0, <3>1, EmittedType DEF Terminators
  <2>6. i.to = {blocks + 1, blocks + 2} BY <1>1
  <2>7. /\ stack' = Append(stack, f) /\ code' = Emitted(i)
        /\ parent' = [parent EXCEPT ![blocks + 1] = function_]
    BY <1>11 DEF IfBegin, FalseBlock, Push, PlaceAndInsert
  <2>. HIDE DEF f, i
  <2>8. parent'[blocks + 1] = function_ BY <1>0, <2>1, <2>7 DEF TypeOK
  <2>9. ~IsLoop(f) BY <2>4 DEF IsLoop
  <2>10. HeadsPlaced' /\ Debts \subseteq Debts' /\ blocks + 2 \in Debts'
    BY <1>0, <1>11, <2>1, <2>3, <2>4, <2>7, <2>9, PushDebts
  <2>. QED BY <2>5, <2>6, <2>7, <2>8, <2>10 DEF TargetsMove, Known, Adds
<1>12. CASE Settled /\ (IfElse \/ IfOnly)
  <2>1. CASE exited_block_ BY <1>3, <1>12, <2>1 DEF IfElse, IfOnly, IfBegin
  <2>2. CASE ~exited_block_ BY <1>11, <1>12, <2>2 DEF IfElse, IfOnly
  <2>. QED BY <1>12, <2>1, <2>2
<1>13. ASSUME NEW target \in Block, NEW scope \in Scope, Known(target),
              CloseBranch(target, [line |-> line_no_, scope |-> scope])
       PROVE  UNCHANGED code \/ \E i \in Instr : Adds(i) /\ \A t \in i.to : Known(t)
  <2> DEFINE i == Instruction("br", {target}, [line |-> line_no_, scope |-> scope])
  <2>1. [line |-> line_no_, scope |-> scope] \in Location BY <1>0, <1>13, ScopeFacts
  <2>2. i \in Instr BY <1>0, <1>13, <2>1, EmittedType DEF Terminators
  <2>3. i.to = {target} BY <1>1
  <2>4. code' = code \/ code' = Emitted(i) BY <1>13 DEF CloseBranch
  <2>. HIDE DEF i
  <2>. QED BY <1>13, <2>2, <2>3, <2>4 DEF Adds
<1>14. CASE Settled /\ Else
  <2> DEFINE f == [Top EXCEPT !.kind = "else", !.next_block = 0]
  <2>1. stack # <<>> /\ Top.kind = "then_else" BY <1>14 DEF Else, Returns
  <2>2. /\ Top \in Frame /\ FrameShape(Top)
        /\ \A b \in Owed(Top) : b \in Block
        /\ Top.next_block \in Owed(Top) /\ Top.exit_block \in Owed(Top)
    BY <2>1, TopOwed
  <2>3. f \in Frame /\ f.kind = "else" /\ f.next_block = 0 /\ f.exit_block = Top.exit_block
    BY <1>0, <2>2 DEF Frame, FrameKind
  <2>4. /\ stack' = [stack EXCEPT ![Len(stack)] = f]
        /\ parent' = [parent EXCEPT ![Top.next_block] = function_]
        /\ CloseBranch(Top.exit_block, [line |-> line_no_, scope |-> Top.parent_scope])
    BY <1>14 DEF Else, Replace, PlaceAndInsert
  <2>. HIDE DEF f
  <2>5. Owed(f) = {Top.exit_block} /\ Owed(Top) = {Top.next_block, Top.exit_block}
    BY <2>1, <2>2, <2>3 DEF Owed, FrameShape
  <2>6. parent'[Top.next_block] = function_ BY <1>0, <2>2, <2>4 DEF TypeOK
  <2>7. ~IsLoop(f) BY <2>3 DEF IsLoop
  <2>8. /\ HeadsPlaced' /\ \A t \in Debts : t \in Debts' \/ t \in Owed(Top)
        /\ \A t \in Block : t \in Owed(f) => t \in Debts'
    BY <1>0, <1>14, <2>1, <2>3, <2>4, <2>7, ReplaceDebts
  <2>9. Known(Top.exit_block) /\ \A t \in Debts : Known(t)
    BY <2>2, <2>5, <2>6, <2>8 DEF Known
  <2>10. Top.parent_scope \in Scope BY <2>2 DEF Frame
  <2>. QED BY <1>13, <1>14, <2>2, <2>4, <2>8, <2>9, <2>10 DEF TargetsMove
<1>15. CASE Settled /\ (EndIf \/ EndWhile)
  <2>1. stack # <<>> /\ Top.kind \in {"then", "else", "body"}
    BY <1>15 DEF EndIf, EndWhile, Returns
  <2>2. /\ Top \in Frame /\ \A b \in Owed(Top) : b \in Block
        /\ Owed(Top) = {Top.exit_block}
        /\ Top.kind = "body" => Top.head_block \in Block
    BY <2>1, TopOwed
  <2>3. stack' = Outer /\ parent' = [parent EXCEPT ![Top.exit_block] = function_]
    BY <1>15 DEF EndIf, EndWhile, Pop, PlaceAndInsert
  <2>4. parent'[Top.exit_block] = function_ BY <1>0, <2>2, <2>3 DEF TypeOK
  <2>5. HeadsPlaced' /\ \A t \in Debts : t \in Debts' \/ t \in Owed(Top)
    BY <1>0, <1>15, <2>1, <2>3, PopDebts
  <2>6. Known(Top.exit_block) /\ \A t \in Debts : Known(t) BY <2>2, <2>4, <2>5 DEF Known
  <2>7. Top.parent_scope \in Scope BY <2>2 DEF Frame
  <2>8. CASE EndIf
    <3>1. CloseBranch(Top.exit_block, [line |-> line_no_, scope |-> Top.parent_scope])
      BY <2>8 DEF EndIf
    <3>. QED BY <1>13, <1>15, <2>2, <2>5, <2>6, <2>7, <3>1 DEF TargetsMove
  <2>9. CASE EndWhile
    <3>1. /\ CloseBranch(Top.head_block, [line |-> line_no_, scope |-> Top.parent_scope])
          /\ Top.kind = "body"
      BY <2>9 DEF EndWhile, Returns
    <3>2. Len(stack) \in DOMAIN stack BY <1>0, <2>1, TopFacts DEF TypeOK
    <3>3. parent[Top.head_block] = function_
      BY <3>1, <3>2 DEF HeadsPlaced, IsLoop, Top
    <3>4. Known(Top.head_block) BY <1>15, <2>2, <3>1, <3>3 DEF Known, Settled
    <3>. QED BY <1>13, <1>15, <2>2, <2>5, <2>6, <2>7, <3>1, <3>4 DEF TargetsMove
  <2>. QED BY <1>15, <2>8, <2>9
<1>16. CASE Settled /\ WhileBegin
  <2>1. NewFrame("cond1") \in Frame BY <1>0, NewFrameType DEF FrameKind
  <2>2. ~IsLoop(NewFrame("cond1")) BY DEF NewFrame, IsLoop
  <2>3. stack' = Append(stack, NewFrame("cond1")) /\ code' = code
    BY <1>16 DEF WhileBegin, Push
  <2>4. HeadsPlaced' /\ Debts \subseteq Debts'
    BY <1>0, <1>16, <2>1, <2>2, <2>3, PushDebts
  <2>. QED BY <1>16, <2>3, <2>4 DEF TargetsMove, Known
<1>17. CASE Settled /\ WhileTest
  <2> DEFINE f == [Top EXCEPT !.kind = "cond2", !.head_block = blocks + 1,
                     !.next_block = blocks + 2, !.exit_block = blocks + 3,
                     !.parent_loop = current_loop_]
             i == Instruction("br", {blocks + 1}, loc)
  <2>1. stack # <<>> /\ Top.kind = "cond1" BY <1>17 DEF WhileTest, Returns
  <2>2. /\ blocks + 1 \in 0..MaxBlocks /\ blocks + 2 \in 0..MaxBlocks
        /\ blocks + 3 \in 0..MaxBlocks /\ blocks + 1 \in Block
    BY <1>0, <1>17, TestBlocks
  <2>3. Top \in Frame /\ Owed(Top) = {} BY <2>1, TopOwed
  <2>4. f \in Frame /\ f.head_block = blocks + 1
    BY <1>0, <2>2, <2>3 DEF Frame, FrameKind
  <2>5. i \in Instr BY <1>0, <2>2, EmittedType DEF Terminators
  <2>6. i.to = {blocks + 1} BY <1>1
  <2>7. /\ stack' = [stack EXCEPT ![Len(stack)] = f] /\ code' = Emitted(i)
        /\ parent' = [parent EXCEPT ![blocks + 1] = function_]
    BY <1>17 DEF WhileTest, Replace, PlaceAndInsert
  <2>. HIDE DEF f, i
  <2>8. parent'[blocks + 1] = function_ BY <1>0, <2>2, <2>7 DEF TypeOK
  <2>9. HeadsPlaced' /\ \A t \in Debts : t \in Debts' \/ t \in Owed(Top)
    BY <1>0, <1>17, <2>1, <2>2, <2>4, <2>7, <2>8, ReplaceDebts
  <2>. QED BY <1>17, <2>3, <2>5, <2>6, <2>7, <2>8, <2>9 DEF TargetsMove, Known, Adds
<1>18. CASE Settled /\ WhileBody /\ ~exited_block_
  <2> DEFINE f == [Top EXCEPT !.kind = "body", !.next_block = 0, !.parent_scope = dbg_scope_]
             i == Instruction("condbr", {Top.next_block, Top.exit_block}, loc)
  <2>1. stack # <<>> /\ Top.kind = "cond2" BY <1>18 DEF WhileBody, Returns
  <2>2. /\ Top \in Frame /\ FrameShape(Top)
        /\ \A b \in Owed(Top) : b \in Block
        /\ Top.next_block \in Owed(Top) /\ Top.exit_block \in Owed(Top)
    BY <2>1, TopOwed
  <2>3. /\ f \in Frame /\ f.kind = "body" /\ f.next_block = 0
        /\ f.exit_block = Top.exit_block /\ f.head_block = Top.head_block
    BY <1>0, <2>2 DEF Frame, FrameKind
  <2>4. i \in Instr
    <3>1. {Top.next_block, Top.exit_block} \in SUBSET Block BY <2>2
    <3>. QED BY <1>0, <3>1, EmittedType DEF Terminators
  <2>5. i.to = {Top.next_block, Top.exit_block} BY <1>1
  <2>6. /\ stack' = [stack EXCEPT ![Len(stack)] = f] /\ code' = Emitted(i)
        /\ parent' = [parent EXCEPT ![Top.next_block] = function_]
    BY <1>18 DEF WhileBody, Replace, PlaceAndInsert
  <2>. HIDE DEF f, i
  <2>7. Owed(f) = {Top.exit_block} /\ Owed(Top) = {Top.next_block, Top.exit_block}
    BY <2>1, <2>2, <2>3 DEF Owed, FrameShape
  <2>8. parent'[Top.next_block] = function_ BY <1>0, <2>2, <2>6 DEF TypeOK
  <2>9. f.head_block \in Block /\ parent'[f.head_block] = function_
    <3>1. Len(stack) \in DOMAIN stack BY <1>0, <2>1, TopFacts DEF TypeOK
    <3>2. Top.head_block \in Block /\ parent[Top.head_block] = function_
      BY <2>1, <3>1 DEF HeadsPlaced, IsLoop, Top
    <3>. QED BY <1>18, <2>3, <3>2 DEF Settled
  <2>10. /\ HeadsPlaced' /\ \A t \in Debts : t \in Debts' \/ t \in Owed(Top)
         /\ \A t \in Block : t \in Owed(f) => t \in Debts'
    BY <1>0, <1>18, <2>1, <2>3, <2>6, <2>9, ReplaceDebts
  <2>11. Known(Top.next_block) /\ Known(Top.exit_block) /\ \A t \in Debts : Known(t)
    BY <2>2, <2>7, <2>8, <2>10 DEF Known
  <2>. QED BY <1>18, <2>4, <2>5, <2>6, <2>10, <2>11 DEF TargetsMove, Adds
<1>19. CASE WhileBody /\ exited_block_ BY <1>3, <1>19 DEF WhileBody
<1>. QED
  BY <1>2, <1>5, <1>6, <1>7, <1>8, <1>10, <1>12, <1>14, <1>15, <1>16, <1>17, <1>18, <1>19
  DEF Next

LEMMA TargetsKept ==
  ASSUME "nested_function" \notin Liberties, IInv, OneFunctionAtATime, LoopsSaved,
         HeadsPlaced, TargetsKnown, [Next]_vars
  PROVE  HeadsPlaced' /\ TargetsKnown'
<1>1. TypeOK /\ stack \in Seq(Frame) BY DEF IInv, TypeOK
<1>2. \A b \in Block : parent[b] # 0 => parent'[b] = parent[b] BY PlacedStay
<1>3. \A b \in Block : parent[b] = 0 => code[b] = <<>> BY DEF IInv, UnplacedEmpty
<1>4. CASE UNCHANGED <<function_, parent, code, stack>>
  BY <1>4 DEF HeadsPlaced, TargetsKnown, Debts
<1>5. CASE CreateFunction
  <2>1. PICK fn \in Function : stack' = Append(stack, [NewFrame("function") EXCEPT !.fn = fn])
    BY <1>5 DEF CreateFunction, Push
  <2> DEFINE f == [NewFrame("function") EXCEPT !.fn = fn]
  <2>2. ~IsLoop(f) BY DEF NewFrame, IsLoop
  <2>. HIDE DEF f
  <2>3. stack = <<>> /\ code' = code BY <1>5 DEF CreateFunction
  <2>4. DOMAIN stack' = {1} /\ stack'[1] = f
    <3>1. \A e : DOMAIN Append(<<>>, e) = {1} /\ Append(<<>>, e)[1] = e OBVIOUS
    <3>. QED BY <2>1, <2>3, <3>1 DEF f
  <2>5. HeadsPlaced' BY <2>2, <2>4 DEF HeadsPlaced
  <2>6. Debts = {} BY <2>3 DEF Debts
  <2>7. \A b \in Block : \A i \in DOMAIN code[b] : \A t \in code[b][i].to :
          parent[b] # 0 /\ parent[t] = parent[b] /\ t \in Block
    <3>1. ASSUME NEW b \in Block, NEW i \in DOMAIN code[b], NEW t \in code[b][i].to
          PROVE  t \in Block
      <4>1. code[b] \in Seq(Instr) BY <1>1 DEF TypeOK
      <4>2. code[b][i] \in Instr BY <4>1, ElementOfSeq, LenProperties
      <4>. QED BY <3>1, <4>2 DEF Instr
    <3>. QED BY <1>3, <2>6, <3>1 DEF TargetsKnown
  <2>8. TargetsKnown' BY <1>2, <2>3, <2>7 DEF TargetsKnown
  <2>. QED BY <2>5, <2>8
<1>6. CASE Settled /\ TargetsMove
  <2>1. HeadsPlaced' /\ \A t \in Debts : Known(t) BY <1>6 DEF TargetsMove
  <2> DEFINE Reach(b, t) == parent'[t] = parent'[b] \/ (t \in Debts' /\ parent'[b] = function_')
  <2>2. ASSUME NEW b \in Block, NEW k \in DOMAIN code[b], NEW t \in code[b][k].to
        PROVE  Reach(b, t)
    <3>1. parent[b] # 0 /\ parent'[b] = parent[b] BY <1>2, <1>3
    <3>2. CASE parent[t] = parent[b]
      <4>1. code[b] \in Seq(Instr) BY <1>1 DEF TypeOK
      <4>2. code[b][k] \in Instr BY <4>1, ElementOfSeq, LenProperties
      <4>3. t \in Block BY <2>2, <4>2 DEF Instr
      <4>. QED BY <1>2, <3>1, <3>2, <4>3
    <3>3. CASE t \in Debts /\ parent[b] = function_
      BY <1>6, <2>1, <3>1, <3>3 DEF Known, Settled
    <3>. QED BY <2>2, <3>2, <3>3 DEF TargetsKnown
  <2>3. CASE UNCHANGED code
    <3>1. \A b \in Block : \A k \in DOMAIN code[b] : \A t \in code[b][k].to : Reach(b, t)
      BY <2>2
    <3>. QED BY <2>1, <2>3, <3>1 DEF TargetsKnown
  <2>4. CASE stack # <<>> /\ Declares
    <3>1. entry[function_] \in Block BY <2>4 DEF IInv, InsertionPlaced
    <3>2. Alloca.to = {} BY <1>1, <3>1, AllocaFacts
    <3>3. ASSUME NEW b \in Block, NEW j \in DOMAIN code'[b], NEW t \in code'[b][j].to
          PROVE  Reach(b, t)
      <4>1. code'[b][j] = Alloca \/ \E k \in DOMAIN code[b] : code'[b][j] = code[b][k]
        BY <1>1, <2>4, <3>1, DeclaresOne
      <4>. HIDE DEF Reach
      <4>. QED BY <2>2, <3>2, <3>3, <4>1
    <3>. QED BY <2>1, <3>3 DEF TargetsKnown
  <2>5. ASSUME stack # <<>>, NEW i \in Instr, Adds(i), \A t \in i.to : Known(t)
        PROVE  TargetsKnown'
    <3>1. insert \in Block /\ parent[insert] = function_ /\ function_ # 0
      BY <2>5 DEF IInv, InsertionPlaced, OneFunctionAtATime, Function
    <3>2. parent'[insert] = function_ /\ function_' = function_
      BY <1>2, <1>6, <3>1 DEF Settled
    <3>3. \A t \in i.to : Reach(insert, t) BY <2>5, <3>2 DEF Known
    <3>4. ASSUME NEW b \in Block, NEW j \in DOMAIN code'[b], NEW t \in code'[b][j].to
          PROVE  Reach(b, t)
      <4>1. (b = insert /\ code'[b][j] = i) \/ \E k \in DOMAIN code[b] : code'[b][j] = code[b][k]
        BY <1>1, <2>5, <3>1, AddsOne
      <4>. HIDE DEF Reach
      <4>. QED BY <2>2, <3>3, <3>4, <4>1
    <3>. QED BY <3>4 DEF TargetsKnown
  <2>6. UNCHANGED code \/ stack # <<>> BY CodeStep DEF CodeGrows, AddsNear, vars
  <2>. QED BY <1>6, <2>1, <2>3, <2>4, <2>5, <2>6 DEF TargetsMove
<1>. QED BY <1>4, <1>5, <1>6, TargetStep DEF vars

TargetInv == LoopsSaved /\ HeadsPlaced /\ TargetsKnown

LEMMA TargetsAlways ==
  ASSUME "nested_function" \notin Liberties
  PROVE  Spec => []TargetInv
<1>1. Init => TargetInv
  <2>1. Init => HeadsPlaced /\ TargetsKnown BY DEF Init, HeadsPlaced, TargetsKnown
  <2>. QED BY <2>1, LoopsInitially DEF TargetInv
<1>2. IInv /\ OneFunctionAtATime /\ TargetInv /\ [Next]_vars => TargetInv'
  <2>1. SUFFICES ASSUME IInv, OneFunctionAtATime, TargetInv, [Next]_vars PROVE TargetInv'
    OBVIOUS
  <2>2. TypeOK /\ FramesShaped BY <2>1 DEF IInv
  <2>3. HeadsPlaced' /\ TargetsKnown' BY <2>1, TargetsKept DEF TargetInv
  <2>4. CASE Next
    <3>1. StackEffect BY <2>2, <2>4, StackStep
    <3>. QED BY <2>1, <2>2, <2>3, <3>1, LoopsKept DEF TargetInv
  <2>5. CASE UNCHANGED vars
    <3>1. LoopsSaved' BY <2>1, <2>5 DEF TargetInv, vars, LoopsSaved, InnermostLoop
    <3>. QED BY <2>3, <3>1 DEF TargetInv
  <2>. QED BY <2>1, <2>4, <2>5
<1>. QED BY <1>1, <1>2, Invariance, OneFunction, PTL DEF Spec

(* However its statements nest, and whatever their lambdas do - exits in   *)
(* any branch, code after an exit, an exit in a condition - a finished     *)
(* function branches only to blocks that were placed in it: no merge,      *)
(* break or continue block is forgotten, or pushed into another function.  *)
THEOREM TargetsArePlaced ==
  ASSUME "nested_function" \notin Liberties
  PROVE  Spec => []BranchTargetsPlaced
<1>1. TargetInv => BranchTargetsPlaced
  <2>1. stack = <<>> => Debts = {} BY DEF Debts
  <2>. QED BY <2>1 DEF TargetInv, TargetsKnown, BranchTargetsPlaced
<1>. QED BY <1>1, TargetsAlways, PTL
-----------------------------------------------------------------------------
(* Exceptions.  Of what an exception leaves behind it, nothing disturbs a  *)
(* client without liberties: the blocks the skipped lambdas owed stay      *)
(* empty and unplaced, and the lambda that catches it goes on in the same  *)
(* function and the same block.                                            *)

(* What makes this inductive: an exception may uncover a condition lambda, *)
(* and that one must still have a block to write to.                       *)
ConditionsLive == InCondition => ~exited_block_

LEMMA ConditionsStep ==
  ASSUME Liberties = {}, TypeOK, ConditionsLive, [Next]_vars
  PROVE  ConditionsLive'
<1>1. stack \in Seq(Frame) /\ DOMAIN stack = 1..Len(stack) /\ Len(stack) \in Nat
  BY LenProperties DEF TypeOK
<1>2. MayCall => ~exited_block_ BY DEF MayCall
<1>3. Returns(Conditions) => ~exited_block_
  <2>1. stack # <<>> => Len(stack) \in DOMAIN stack BY <1>1, TopFacts
  <2>. QED BY <2>1 DEF Returns, Top, InCondition, ConditionsLive
<1>4. CASE UNCHANGED exited_block_ /\ ~exited_block_ BY <1>4 DEF ConditionsLive
<1>5. CASE exited_block_' = FALSE BY <1>5 DEF ConditionsLive
<1>6. CASE UNCHANGED <<exited_block_, stack>>
  BY <1>6 DEF ConditionsLive, InCondition
<1>7. CASE EndFunction
  <2>1. stack # <<>> /\ stack' = Outer /\ UNCHANGED exited_block_
    BY <1>7 DEF EndFunction, Returns, Pop
  <2>2. \A i \in DOMAIN stack' : i \in DOMAIN stack /\ stack'[i] = stack[i]
    BY <1>1, <2>1, PopFacts DEF Outer
  <2>. QED BY <2>1, <2>2 DEF ConditionsLive, InCondition
<1>8. ASSUME NEW kind, NEW op, NEW to, MayExit, Exit(kind, op, to) PROVE ConditionsLive'
  <2>1. ~InCondition /\ UNCHANGED stack BY <1>8 DEF MayExit, Exit
  <2>. QED BY <2>1 DEF ConditionsLive, InCondition
<1>9. CASE CreateFunction \/ Else \/ EndIf \/ EndWhile
  BY <1>5, <1>9 DEF CreateFunction, Else, EndIf, EndWhile, CloseBranch
<1>10. CASE Statement \/ VariableGet \/ VariableDecl \/ WhileBegin
  BY <1>2, <1>4, <1>10
  DEF Statement, VariableGet, VariableDecl, WhileBegin, MayAdd, MayNest
<1>11. CASE Return \/ Break \/ Continue
  BY <1>6, <1>8, <1>11 DEF Return, Break, Continue, Abort
<1>12. CASE IfElse \/ IfOnly
  BY <1>2, <1>4, <1>12 DEF IfElse, IfOnly, IfBegin, MayNest, Abort
<1>13. CASE WhileTest
  BY <1>3, <1>4, <1>13 DEF WhileTest, Returns, Conditions
<1>14. CASE WhileBody
  BY <1>3, <1>4, <1>14 DEF WhileBody, Returns, Conditions, Abort
<1>. QED BY <1>6, <1>7, <1>9, <1>10, <1>11, <1>12, <1>13, <1>14 DEF Next, vars

(* The lambdas that are left are the outermost ones.                       *)
LEMMA CutFacts ==
  ASSUME NEW S, NEW s \in Seq(S), NEW k \in 0..(Len(s) - 1)
  PROVE  /\ SubSeq(s, 1, k) \in Seq(S)
         /\ \A i \in DOMAIN SubSeq(s, 1, k) : i \in DOMAIN s /\ SubSeq(s, 1, k)[i] = s[i]
         /\ SubSeq(s, 1, k) # <<>> => s # <<>> /\ SubSeq(s, 1, k)[1] = s[1]
<1>1. Len(s) \in Nat /\ DOMAIN s = 1..Len(s) BY LenProperties
<1>2. k \in Nat /\ \A i \in 1..k : i \in 1..Len(s) BY <1>1
<1>3. \A i \in 1..k : s[i] \in S BY <1>1, <1>2, ElementOfSeq
<1> DEFINE t == SubSeq(s, 1, k)
<1>4. /\ t \in Seq(S)
      /\ Len(t) = IF 1 <= k THEN k - 1 + 1 ELSE 0
      /\ \A i \in 1..(k - 1 + 1) : t[i] = s[1 + i - 1]
  BY <1>2, <1>3, SubSeqProperties
<1>. HIDE DEF t
<1>5. (IF 1 <= k THEN k - 1 + 1 ELSE 0) = k /\ k - 1 + 1 = k /\ \A i \in 1..k : 1 + i - 1 = i
  BY <1>2
<1>6. DOMAIN t = 1..k /\ Len(t) = k /\ \A i \in 1..k : t[i] = s[i]
  BY <1>4, <1>5, LenProperties
<1>7. ASSUME t # <<>> PROVE s # <<>> /\ t[1] = s[1]
  <2>1. k # 0 BY <1>4, <1>6, <1>7, EmptySeq
  <2>2. 1 \in 1..k BY <1>2, <2>1
  <2>3. s # <<>> BY <1>1, <1>2, <2>1, EmptySeq
  <2>. QED BY <1>6, <2>2, <2>3
<1>. QED BY <1>1, <1>2, <1>4, <1>6, <1>7 DEF t

(* What an exception does: it removes lambdas, and nothing else.           *)
Unwinds ==
  /\ stack' \in Seq(Frame)
  /\ \A i \in DOMAIN stack' : i \in DOMAIN stack /\ stack'[i] = stack[i]
  /\ stack' # <<>> => stack # <<>> /\ stack'[1] = stack[1]
  /\ UNCHANGED <<function_, exited_block_, current_loop_, dbg_scope_, source_code_,
                 insert, loc, entry, parent, code, blocks, aborted>>

LEMMA ThrowUnwinds == ASSUME TypeOK, Throw PROVE Unwinds
<1>1. stack \in Seq(Frame) BY DEF TypeOK
<1>2. PICK k \in 0..(Len(stack) - 1) : stack' = SubSeq(stack, 1, k) BY DEF Throw
<1>. QED BY <1>1, <1>2, CutFacts DEF Throw, Unwinds

(* The inductive invariant of a client that throws.                        *)
ThrowInv ==
  /\ IInv /\ ConditionsLive /\ OneFunctionAtATime /\ NoCodeAfterTerminator
  /\ OwnScopes /\ LocationInOwnFunction

LEMMA UnwindStep ==
  ASSUME Liberties = {}, ThrowInv, Unwinds
  PROVE  ThrowInv'
<1>1. IInv /\ TypeOK BY DEF ThrowInv, IInv
<1>2. TypeOK' BY <1>1 DEF Unwinds, TypeOK
<1>3. FramesShaped' /\ OwedUnplaced' /\ OwedOnce'
  BY <1>1 DEF Unwinds, IInv, FramesShaped, OwedUnplaced, OwedOnce
<1>4. /\ UnplacedEmpty' /\ UncreatedUnplaced' /\ FunctionsEntered'
      /\ InsertionPlaced' /\ OnlyInsertionBlockOpen'
  BY <1>1
  DEF Unwinds, IInv, UnplacedEmpty, UncreatedUnplaced, FunctionsEntered, InsertionPlaced,
      OnlyInsertionBlockOpen, HasTerminator
<1>5. FunctionOutermost' BY <1>1 DEF Unwinds, IInv, FunctionOutermost
<1>6. ConditionsLive'
  <2>1. InCondition' => InCondition BY DEF Unwinds, InCondition
  <2>. QED BY <2>1 DEF ThrowInv, ConditionsLive, Unwinds
<1>7. ConditionLive'
  <2>1. stack' # <<>> => Len(stack') \in DOMAIN stack' BY <1>2, TopFacts DEF TypeOK
  <2>. QED BY <1>6, <2>1 DEF ConditionLive, ConditionsLive, InCondition, Top
<1>8. ExitFlagTracksTerminator'
  <2>1. Disciplined BY DEF Disciplined
  <2>. QED BY <1>1, <2>1 DEF Unwinds, IInv, ExitFlagTracksTerminator, HasTerminator
<1>9. IInv' BY <1>2, <1>3, <1>4, <1>5, <1>7, <1>8 DEF IInv
<1>10. /\ OneFunctionAtATime' /\ NoCodeAfterTerminator'
       /\ OwnScopes' /\ LocationInOwnFunction'
  BY DEF ThrowInv, Unwinds, OneFunctionAtATime, NoCodeAfterTerminator, OwnScopes,
         LocationInOwnFunction
<1>. QED BY <1>6, <1>9, <1>10 DEF ThrowInv

LEMMA ThrowInductive ==
  ASSUME Liberties = {}, ThrowInv, [NextOrThrow]_vars
  PROVE  ThrowInv'
<1>1. Disciplined /\ "nested_function" \notin Liberties BY DEF Disciplined
<1>2. IInv /\ TypeOK BY DEF ThrowInv, IInv
<1>3. CASE [Next]_vars
  <2>1. IInv' /\ ConditionsLive' BY <1>2, <1>3, Inductive, ConditionsStep DEF ThrowInv
  <2>2. OneFunctionAtATime' /\ NoCodeAfterTerminator'
    BY <1>1, <1>2, <1>3, OneFunctionStep, LastStep DEF ThrowInv
  <2>3. OwnScopes' /\ LocationInOwnFunction'
    BY <1>1, <1>2, <1>3, ScopesKept, LocationKept DEF ThrowInv
  <2>. QED BY <2>1, <2>2, <2>3 DEF ThrowInv
<1>4. CASE Throw BY <1>2, <1>4, ThrowUnwinds, UnwindStep
<1>. QED BY <1>3, <1>4 DEF NextOrThrow

LEMMA ThrowInvariance ==
  ASSUME Liberties = {}
  PROVE  ThrowingSpec => []ThrowInv
<1>1. Init => ThrowInv
  <2>1. Init => IInv BY Initially
  <2>. QED
    BY <2>1 DEF Init, ThrowInv, ConditionsLive, InCondition, OneFunctionAtATime,
                NoCodeAfterTerminator, OwnScopes, LocationInOwnFunction
<1>2. ThrowInv /\ [NextOrThrow]_vars => ThrowInv' BY ThrowInductive
<1>. QED BY <1>1, <1>2, PTL DEF ThrowingSpec

(* Wherever exceptions are thrown and caught - out of a condition, out of  *)
(* a while_, inside the function or by the caller of create_function -     *)
(* every field keeps its type, everything that runs writes to one          *)
(* function, no block gets an instruction after its terminator, and no     *)
(* instruction gets the location of another function.                      *)
THEOREM UnwoundBuilderIsSound ==
  ASSUME Liberties = {}
  PROVE  ThrowingSpec => [](TypeOK /\ OneFunctionAtATime /\ NoCodeAfterTerminator
                            /\ LocationInOwnFunction)
<1>1. ThrowInv => TypeOK /\ OneFunctionAtATime /\ NoCodeAfterTerminator /\ LocationInOwnFunction
  BY DEF ThrowInv, IInv
<1>. QED BY <1>1, ThrowInvariance, PTL

(* A function that was finished, or was left by an exception, is never     *)
(* written to again: not by the lambda that catches the exception, nor by  *)
(* the functions that are built after it.                                  *)
THEOREM UnwoundFunctionsStay ==
  ASSUME Liberties = {}
  PROVE  ThrowingSpec => CompletedFunctionsFrozen
<1>1. ASSUME ThrowInv, [NextOrThrow]_vars
      PROVE  [\A f \in Function : Completed(f) => FunctionUnchanged(f)]_vars
  <2>1. CASE [Next]_vars BY <1>1, <2>1, FrozenStep DEF ThrowInv
  <2>2. CASE Throw
    <3>1. Unwinds BY <1>1, <2>2, ThrowUnwinds DEF ThrowInv, IInv
    <3>. QED BY <3>1 DEF Unwinds, FunctionUnchanged
  <2>. QED BY <1>1, <2>1, <2>2 DEF NextOrThrow
<1>. QED BY <1>1, ThrowInvariance, PTL DEF ThrowingSpec, CompletedFunctionsFrozen
=============================================================================
