----------------------------- MODULE TextProofs -----------------------------
(***************************************************************************)
(* Why what a reader of the generated text concludes is what the graph of  *)
(* blocks says: each brace the text has open belongs to a running lambda,  *)
(* and what was live at the brace is what control reaches among the blocks *)
(* that lambda still owes.                                                 *)
(***************************************************************************)
EXTENDS SourceText, ModuleBuilderProofs

-----------------------------------------------------------------------------
(* Reading a text line by line.                                            *)

Unread == [live |-> FALSE, scopes |-> <<>>]
Reading(h, text, N) ==
  h = [n \in 0..N |-> IF n = 0 THEN Unread ELSE ReadLine(h[n - 1], text[n])]

LEMMA ReadingExists ==
  ASSUME NEW text, NEW N \in Nat
  PROVE  \E h : Reading(h, text, N)
<1> DEFINE S == {m \in Nat : \E h : Reading(h, text, m)}
<1>1. 0 \in S
  <2> DEFINE h == [n \in 0..0 |-> Unread]
  <2>1. h = [n \in 0..0 |-> IF n = 0 THEN Unread ELSE ReadLine(h[n - 1], text[n])] OBVIOUS
  <2>. HIDE DEF h
  <2>2. Reading(h, text, 0) BY <2>1 DEF Reading
  <2>. QED BY <2>2
<1>2. ASSUME NEW m \in Nat, m \in S PROVE m + 1 \in S
  <2>1. PICK h : Reading(h, text, m) BY <1>2
  <2> DEFINE k == [n \in 0..m + 1 |-> IF n = m + 1 THEN ReadLine(h[m], text[m + 1]) ELSE h[n]]
             next == [n \in 0..m + 1 |-> IF n = 0 THEN Unread ELSE ReadLine(k[n - 1], text[n])]
  <2>2. \A n \in 0..m : k[n] = h[n] OBVIOUS
  <2>3. k[m + 1] = ReadLine(h[m], text[m + 1]) OBVIOUS
  <2>4. DOMAIN k = 0..m + 1 /\ k = [n \in 0..m + 1 |-> k[n]] OBVIOUS
  <2>. HIDE DEF k
  <2>5. \A n \in 0..m : h[n] = IF n = 0 THEN Unread ELSE ReadLine(h[n - 1], text[n])
    BY <2>1 DEF Reading
  <2>6. ASSUME NEW n \in 0..m + 1
        PROVE  k[n] = IF n = 0 THEN Unread ELSE ReadLine(k[n - 1], text[n])
    <3>1. CASE n = m + 1
      <4>1. n - 1 = m /\ m \in 0..m /\ n # 0 BY <3>1
      <4>2. k[n - 1] = h[m] BY <2>2, <4>1
      <4>. QED BY <2>3, <3>1, <4>1, <4>2
    <3>2. CASE n = 0
      <4>1. n \in 0..m BY <3>2
      <4>. QED BY <2>2, <2>5, <3>2, <4>1
    <3>3. CASE n # m + 1 /\ n # 0
      <4>1. n \in 0..m /\ n - 1 \in 0..m BY <3>3
      <4>2. k[n - 1] = h[n - 1] /\ k[n] = h[n] BY <2>2, <4>1
      <4>. QED BY <2>5, <3>3, <4>1, <4>2
    <3>. QED BY <3>1, <3>2, <3>3
  <2>7. k = next BY <2>4, <2>6
  <2>8. Reading(k, text, m + 1) BY <2>7 DEF Reading
  <2>. QED BY <2>8
<1>. HIDE DEF S
<1>3. N \in S BY <1>1, <1>2, NatSetInduction
<1>. QED BY <1>3 DEF S

(* Two readings of texts that begin alike are alike as far as that goes.   *)
LEMMA ReadingAgrees ==
  ASSUME NEW N \in Nat, NEW M \in Nat, N <= M, NEW text, NEW longer, NEW h, NEW g,
         Reading(h, text, N), Reading(g, longer, M), \A n \in 1..N : longer[n] = text[n]
  PROVE  \A n \in 0..N : g[n] = h[n]
<1>1. /\ \A n \in 0..N : h[n] = IF n = 0 THEN Unread ELSE ReadLine(h[n - 1], text[n])
      /\ \A n \in 0..M : g[n] = IF n = 0 THEN Unread ELSE ReadLine(g[n - 1], longer[n])
  BY DEF Reading
<1> DEFINE S == {n \in Nat : n <= N => g[n] = h[n]}
<1>2. 0 \in S BY <1>1
<1>3. ASSUME NEW n \in Nat, n \in S PROVE n + 1 \in S
  <2>1. SUFFICES ASSUME n + 1 <= N PROVE g[n + 1] = h[n + 1] OBVIOUS
  <2>2. /\ n + 1 \in 0..N /\ n + 1 \in 0..M /\ n + 1 # 0 /\ (n + 1) - 1 = n
        /\ n + 1 \in 1..N
    BY <2>1
  <2>3. g[n] = h[n] BY <1>3, <2>1
  <2>4. longer[n + 1] = text[n + 1] BY <2>2
  <2>5. h[n + 1] = ReadLine(h[n], text[n + 1]) BY <1>1, <2>2
  <2>6. g[n + 1] = ReadLine(g[n], longer[n + 1]) BY <1>1, <2>2
  <2>. QED BY <2>3, <2>4, <2>5, <2>6
<1>. HIDE DEF S
<1>4. Nat \subseteq S BY <1>2, <1>3, NatSetInduction
<1>. QED BY <1>4 DEF S

LEMMA ReaderIs ==
  ASSUME NEW text, Len(text) \in Nat, NEW h, Reading(h, text, Len(text))
  PROVE  ReaderOf(text) = h[Len(text)]
<1> DEFINE after[n \in 0..Len(text)] ==
             IF n = 0 THEN Unread ELSE ReadLine(after[n - 1], text[n])
<1>1. h = [n \in 0..Len(text) |-> IF n = 0 THEN Unread ELSE ReadLine(h[n - 1], text[n])]
  BY DEF Reading
<1>2. after = [n \in 0..Len(text) |-> IF n = 0 THEN Unread ELSE ReadLine(after[n - 1], text[n])]
  BY <1>1 DEF after
<1>3. ReaderOf(text) = after[Len(text)] BY DEF ReaderOf, Unread
<1>. HIDE DEF after
<1>4. Reading(after, text, Len(text)) BY <1>2 DEF Reading
<1>5. \A n \in 0..Len(text) : after[n] = h[n] BY <1>4, ReadingAgrees
<1>. QED BY <1>3, <1>5

LEMMA ReadNothing == ReaderOf(<<>>) = Unread
<1>1. Len(<<>>) = 0 /\ Len(<<>>) \in Nat OBVIOUS
<1>2. PICK h : Reading(h, <<>>, 0) BY ReadingExists
<1>3. h[0] = Unread BY <1>2 DEF Reading
<1>. QED BY <1>1, <1>2, <1>3, ReaderIs

LEMMA ReadAppend ==
  ASSUME NEW text \in Seq(LineKind), NEW kind \in LineKind
  PROVE  ReaderOf(Append(text, kind)) = ReadLine(ReaderOf(text), kind)
<1> DEFINE longer == Append(text, kind)
           N == Len(text)
<1>1. /\ N \in Nat /\ Len(longer) = N + 1 /\ longer[N + 1] = kind
      /\ \A n \in 1..N : longer[n] = text[n]
  BY PushFacts
<1>. HIDE DEF longer, N
<1>2. N + 1 \in Nat /\ N <= N + 1 /\ N \in 0..N BY <1>1
<1>3. PICK h : Reading(h, text, N) BY <1>1, ReadingExists
<1>4. PICK g : Reading(g, longer, N + 1) BY <1>2, ReadingExists
<1>5. ReaderOf(text) = h[N] BY <1>1, <1>3, ReaderIs DEF N
<1>6. ReaderOf(longer) = g[N + 1] BY <1>1, <1>2, <1>4, ReaderIs
<1>7. g[N] = h[N] BY <1>1, <1>2, <1>3, <1>4, ReadingAgrees
<1>8. N + 1 \in 0..N + 1 /\ N + 1 # 0 /\ (N + 1) - 1 = N BY <1>1
<1>9. g[N + 1] = ReadLine(g[N], longer[N + 1]) BY <1>4, <1>8 DEF Reading
<1>. QED BY <1>1, <1>5, <1>6, <1>7, <1>9 DEF longer

-----------------------------------------------------------------------------
(* Where blocks lead, and what is reached.                                 *)

Graph == [Block -> SUBSET Block]

LEMMA NoTargets ==
  ASSUME NEW c, ~Ends(c)
  PROVE  Targets(c) = {}
<1>1. {i \in DOMAIN c : c[i].op \in Terminators} = {} BY DEF Ends
<1>. QED BY <1>1 DEF Targets

LEMMA TargetsOfLast ==
  ASSUME NEW c \in Seq(Instr), Ends(c), LastOnly(c)
  PROVE  Len(c) \in DOMAIN c /\ Targets(c) = c[Len(c)].to
<1> DEFINE exits == {i \in DOMAIN c : c[i].op \in Terminators}
<1>1. PICK i \in DOMAIN c : c[i].op \in Terminators BY DEF Ends
<1>2. i = Len(c) BY <1>1 DEF LastOnly
<1>3. exits = {Len(c)} BY <1>1, <1>2 DEF LastOnly
<1>4. Len(c) \in Nat BY LenProperties
<1>5. \A k \in exits : (\A j \in exits : k <= j) <=> k = Len(c) BY <1>3, <1>4
<1>6. (CHOOSE k \in exits : \A j \in exits : k <= j) = Len(c) BY <1>3, <1>5
<1>7. exits # {} BY <1>3
<1>. QED BY <1>1, <1>2, <1>6, <1>7 DEF Targets

LEMMA TargetsAppend ==
  ASSUME NEW c \in Seq(Instr), NEW i \in Instr, ~Ends(c)
  PROVE  Targets(Append(c, i)) = IF i.op \in Terminators THEN i.to ELSE {}
<1> DEFINE d == Append(c, i)
<1>1. /\ d \in Seq(Instr) /\ Len(d) = Len(c) + 1 /\ d[Len(c) + 1] = i
      /\ Ends(d) <=> i.op \in Terminators
  BY PushFacts, EndsAppend
<1>2. LastOnly(d)
  <2>1. LastOnly(c) BY DEF LastOnly, Ends
  <2>. QED BY <2>1, AppendLast
<1>. HIDE DEF d
<1>3. CASE Ends(d) BY <1>1, <1>2, <1>3, TargetsOfLast DEF d
<1>4. CASE ~Ends(d) BY <1>1, <1>4, NoTargets DEF d
<1>. QED BY <1>3, <1>4

LEMMA TargetsPrepend ==
  ASSUME NEW c \in Seq(Instr), NEW a \in Instr, a.op \notin Terminators, LastOnly(c)
  PROVE  Targets(<<a>> \o c) = Targets(c)
<1> DEFINE d == <<a>> \o c
<1>1. <<a>> \in Seq(Instr) /\ Len(<<a>>) = 1 OBVIOUS
<1>2. /\ d \in Seq(Instr) /\ Len(d) = 1 + Len(c)
      /\ \A j \in 1..(1 + Len(c)) : d[j] = IF j <= 1 THEN <<a>>[j] ELSE c[j - 1]
  BY <1>1, ConcatProperties
<1>3. LastOnly(d) /\ (Ends(d) <=> Ends(c)) BY PrependLast, EndsPrepend
<1>. HIDE DEF d
<1>4. CASE Ends(c)
  <2>1. Targets(d) = d[Len(d)].to /\ Targets(c) = c[Len(c)].to /\ Len(c) \in DOMAIN c
    BY <1>2, <1>3, <1>4, TargetsOfLast
  <2>2. DOMAIN c = 1..Len(c) /\ Len(c) \in Nat BY LenProperties
  <2>3. d[Len(d)] = c[Len(c)] BY <1>2, <2>1, <2>2
  <2>. QED BY <2>1, <2>3 DEF d
<1>5. CASE ~Ends(c) BY <1>3, <1>5, NoTargets DEF d
<1>. QED BY <1>4, <1>5

(* What is reached is the least set of blocks no block of it leads out of. *)
LEMMA ReachedLeast ==
  ASSUME NEW F \in Graph, NEW b \in Block
  PROVE  /\ ReachedIn(F, b) \subseteq Block /\ b \in ReachedIn(F, b)
         /\ \A c \in ReachedIn(F, b) : F[c] \subseteq ReachedIn(F, b)
         /\ \A T \in SUBSET Block :
              b \in T /\ (\A c \in T : F[c] \subseteq T) => ReachedIn(F, b) \subseteq T
<1> DEFINE N == MaxBlocks
           Step(before) == before \cup UNION {F[c] : c \in before}
           G == [n \in 1..N |-> [before \in SUBSET Block |-> Step(before)]]
           steps[n \in 0..N] == IF n = 0 THEN {b} ELSE Step(steps[n - 1])
           Sets == SUBSET Block
<1>1. N \in Nat BY BoundsAssumption
<1>2. \A before \in SUBSET Block : Step(before) \in SUBSET Block BY DEF Graph
<1>3. ReachedIn(F, b) = steps[N] BY DEF ReachedIn
<1>4. /\ steps \in [0..N -> SUBSET Block] /\ steps[0] = {b}
      /\ \A n \in 1..N : steps[n] = Step(steps[n - 1])
  <2>1. {b} \in Sets OBVIOUS
  <2>2. G \in [1..N -> [Sets -> Sets]] BY <1>2
  <2>. HIDE DEF N, Step, G, steps, Sets
  <2>3. PICK h \in [0..N -> Sets] : Stepwise(h, N, {b}, G) BY <1>1, <2>1, <2>2, StepwiseFunction
  <2>4. h = [n \in 0..N |-> IF n = 0 THEN {b} ELSE Step(h[n - 1])]
    <3>1. ASSUME NEW n \in 0..N PROVE h[n] = IF n = 0 THEN {b} ELSE Step(h[n - 1])
      <4>1. CASE n = 0 BY <2>3, <4>1 DEF Stepwise
      <4>2. CASE n # 0
        <5>1. n \in 1..N /\ n - 1 \in 0..N BY <1>1, <4>2
        <5>2. h[n - 1] \in SUBSET Block BY <5>1 DEF Sets
        <5>3. G[n][h[n - 1]] = Step(h[n - 1]) BY <5>1, <5>2 DEF G
        <5>. QED BY <2>3, <4>2, <5>1, <5>3 DEF Stepwise
      <4>. QED BY <4>1, <4>2
    <3>. QED BY <3>1
  <2>5. steps = [n \in 0..N |-> IF n = 0 THEN {b} ELSE Step(steps[n - 1])] BY <2>4 DEF steps
  <2>. HIDE DEF steps
  <2>6. \A n \in 0..N : steps[n] = IF n = 0 THEN {b} ELSE Step(steps[n - 1]) BY <2>5
  <2>7. \A n \in 1..N : n # 0 /\ n \in 0..N BY <1>1
  <2>8. steps[0] = {b} /\ \A n \in 1..N : steps[n] = Step(steps[n - 1]) BY <1>1, <2>6, <2>7
  <2>9. \A n \in 0..N : steps[n] \in SUBSET Block
    <3>. DEFINE S == {m \in Nat : m <= N => steps[m] \in SUBSET Block}
    <3>1. 0 \in S BY <2>1, <2>8 DEF Sets
    <3>2. ASSUME NEW m \in Nat, m \in S PROVE m + 1 \in S
      <4>1. SUFFICES ASSUME m + 1 <= N PROVE steps[m + 1] \in SUBSET Block OBVIOUS
      <4>2. m + 1 \in 1..N /\ (m + 1) - 1 = m /\ m <= N BY <1>1, <4>1
      <4>3. steps[m] \in SUBSET Block BY <3>2, <4>2
      <4>4. steps[m + 1] = Step(steps[m]) BY <2>8, <4>2
      <4>. QED BY <1>2, <4>3, <4>4
    <3>. HIDE DEF S
    <3>3. Nat \subseteq S BY <3>1, <3>2, NatSetInduction
    <3>. QED BY <1>1, <3>3 DEF S
  <2>. QED BY <2>5, <2>8, <2>9
<1>. HIDE DEF N, Step, steps, Sets
<1>5. \A n \in 1..N : steps[n] = steps[n - 1] \cup UNION {F[c] : c \in steps[n - 1]}
  BY <1>4 DEF Step
<1>6. IsFiniteSet(Block) /\ Cardinality(Block) <= N
  BY <1>1, FS_Interval DEF Block, N
<1>7. F \in [Block -> SUBSET Block] BY DEF Graph
<1>8. steps[N] \in SUBSET Block BY <1>1, <1>4
<1>9. /\ steps[0] \subseteq steps[N]
      /\ \A c \in steps[N] : F[c] \subseteq steps[N]
      /\ \A T \in SUBSET Block :
           steps[0] \subseteq T /\ (\A c \in T : F[c] \subseteq T) => steps[N] \subseteq T
  BY <1>1, <1>4, <1>5, <1>6, <1>7, ClosureReached
<1>10. b \in steps[0] /\ \A T : steps[0] \subseteq T <=> b \in T BY <1>4
<1>. QED BY <1>3, <1>8, <1>9, <1>10

(* A block that led nowhere is given targets that are reached already, or  *)
(* lead nowhere themselves, which matters only if it is reached.           *)
LEMMA ReachedGrows ==
  ASSUME NEW F \in Graph, NEW b \in Block, NEW e \in Block, NEW T \in SUBSET Block,
         F[b] = {}, b \in ReachedIn(F, e) => \A t \in T : t \in ReachedIn(F, e) \/ F[t] = {}
  PROVE  ReachedIn([F EXCEPT ![b] = T], e) =
           ReachedIn(F, e) \cup (IF b \in ReachedIn(F, e) THEN T ELSE {})
<1> DEFINE G == [F EXCEPT ![b] = T]
           R == ReachedIn(F, e)
           S == ReachedIn(G, e)
<1>1. G \in Graph /\ G[b] = T /\ \A c \in Block : c # b => G[c] = F[c] BY DEF Graph
<1>. HIDE DEF G
<1>2. /\ R \subseteq Block /\ e \in R /\ \A c \in R : F[c] \subseteq R
      /\ \A U \in SUBSET Block : e \in U /\ (\A c \in U : F[c] \subseteq U) => R \subseteq U
  BY ReachedLeast
<1>3. /\ S \subseteq Block /\ e \in S /\ \A c \in S : G[c] \subseteq S
      /\ \A U \in SUBSET Block : e \in U /\ (\A c \in U : G[c] \subseteq U) => S \subseteq U
  BY <1>1, ReachedLeast
<1>4. b \in R => \A t \in T : t \in R \/ F[t] = {} OBVIOUS
<1>. HIDE DEF R, S
<1>5. R \subseteq S
  <2>1. \A c \in S : F[c] \subseteq S BY <1>1, <1>3
  <2>. QED BY <1>2, <1>3, <2>1
<1>6. b \in R => T \subseteq S BY <1>1, <1>3, <1>5
<1>7. CASE b \notin R
  <2>1. \A c \in R : G[c] \subseteq R BY <1>1, <1>2, <1>7
  <2>2. S \subseteq R BY <1>2, <1>3, <2>1
  <2>. QED BY <1>5, <1>7, <2>2 DEF G, R, S
<1>8. CASE b \in R
  <2>1. ASSUME NEW c \in R \cup T PROVE G[c] \subseteq R \cup T
    <3>1. CASE c = b BY <1>1, <3>1
    <3>2. CASE c # b /\ c \in R BY <1>1, <1>2, <3>2
    <3>3. CASE c # b /\ c \notin R BY <1>1, <1>4, <1>8, <3>3
    <3>. QED BY <3>1, <3>2, <3>3
  <2>2. S \subseteq R \cup T BY <1>2, <1>3, <2>1
  <2>. QED BY <1>5, <1>6, <1>8, <2>2 DEF G, R, S
<1>. QED BY <1>7, <1>8

LEMMA ReachedAlone ==
  ASSUME NEW F \in Graph, NEW e \in Block, F[e] = {}
  PROVE  ReachedIn(F, e) = {e}
<1>1. {e} \in SUBSET Block /\ \A c \in {e} : F[c] \subseteq {e} OBVIOUS
<1>. QED BY <1>1, ReachedLeast

-----------------------------------------------------------------------------
(* The open braces against the running lambdas.  Each kind of lambda tells *)
(* which of its blocks are reached: R is what control reaches so far.      *)

Brace == [brace : LineKind, before : BOOLEAN, joined : BOOLEAN]

Agrees(f, s, R) ==
  /\ f.kind # "cond1"
  /\ f.kind = "function" => s.brace = "function"
  /\ f.kind = "then_else" => /\ s.brace = "if"
                             /\ f.next_block \in R <=> s.before
                             /\ f.exit_block \notin R
  /\ f.kind = "then" => /\ s.brace = "if"
                        /\ f.exit_block \in R <=> s.before
  /\ f.kind = "else" => /\ s.brace = "else"
                        /\ f.exit_block \in R <=> s.joined
                        /\ s.joined => s.before
  /\ f.kind = "cond2" => /\ s.brace = "while"
                         /\ f.head_block \in R <=> s.before
                         /\ f.next_block \notin R /\ f.exit_block \notin R
  /\ f.kind = "body" => /\ s.brace = "while"
                        /\ f.head_block \in R <=> s.before
                        /\ f.exit_block \in R <=> s.before

(* m says which lambda opened a brace: all but those of while_'s first run *)
(* of the condition.  Code that is live is so all the way out, and a loop  *)
(* whose condition is being evaluated is not left by it.                   *)
Mirrors(m, live, scopes, frames, R) ==
  /\ \A k \in 1..Len(scopes) : Agrees(frames[m[k]], scopes[k], R)
  /\ \A k \in 1..Len(scopes) : live => scopes[k].before
  /\ \A j, k \in 1..Len(scopes) : j < k =>
       m[j] < m[k] /\ (scopes[k].before => scopes[j].before)
  /\ \A i \in 1..Len(frames) : frames[i].kind # "cond1" =>
       \E k \in 1..Len(scopes) : m[k] = i
  /\ \A k \in 1..Len(scopes) : frames[m[k]].kind = "cond2" /\ scopes[k].before =>
       live /\ \A j \in 1..Len(scopes) : j > k => scopes[j].before

Matched(live, scopes, frames, R) ==
  \E m \in [1..Len(scopes) -> 1..Len(frames)] : Mirrors(m, live, scopes, frames, R)

Stands(f, R, S) == \A s : Agrees(f, s, R) => Agrees(f, s, S)

(* The innermost brace is the innermost lambda's, the others are others'.  *)
Topped(m, scopes, frames) ==
  /\ Len(scopes) \in Nat \ {0} /\ scopes # <<>> /\ m[Len(scopes)] = Len(frames)
  /\ \A k \in 1..(Len(scopes) - 1) : m[k] \in 1..(Len(frames) - 1)

(* The innermost lambda has the innermost brace.                           *)
LEMMA TopMatched ==
  ASSUME NEW scopes \in Seq(Brace), NEW frames \in Seq(Frame), frames # <<>>, NEW R,
         frames[Len(frames)].kind # "cond1", NEW live \in BOOLEAN,
         NEW m \in [1..Len(scopes) -> 1..Len(frames)], Mirrors(m, live, scopes, frames, R)
  PROVE  /\ Topped(m, scopes, frames)
         /\ scopes[Len(scopes)] \in Brace
         /\ Agrees(frames[Len(frames)], scopes[Len(scopes)], R)
         /\ live => scopes[Len(scopes)].before
         /\ frames[Len(frames)].kind = "cond2" /\ scopes[Len(scopes)].before => live
<1>1. Len(frames) \in Nat \ {0} /\ Len(scopes) \in Nat BY TopFacts, LenProperties
<1>2. PICK k \in 1..Len(scopes) : m[k] = Len(frames) BY <1>1 DEF Mirrors
<1>3. Len(scopes) \in 1..Len(scopes) /\ Len(scopes) # 0 BY <1>1, <1>2
<1>4. k = Len(scopes)
  <2>. SUFFICES ASSUME k < Len(scopes) PROVE FALSE BY <1>1, <1>2
  <2>1. m[k] < m[Len(scopes)] BY <1>3 DEF Mirrors
  <2>2. m[Len(scopes)] \in 1..Len(frames) BY <1>3
  <2>. QED BY <1>1, <1>2, <2>1, <2>2
<1>5. scopes # <<>> /\ scopes[Len(scopes)] \in Brace BY <1>3, EmptySeq, ElementOfSeq
<1>6. ASSUME NEW j \in 1..(Len(scopes) - 1) PROVE m[j] \in 1..(Len(frames) - 1)
  <2>1. j \in 1..Len(scopes) /\ j < Len(scopes) BY <1>1
  <2>2. m[j] < m[Len(scopes)] /\ m[j] \in 1..Len(frames) BY <1>3, <2>1 DEF Mirrors
  <2>. QED BY <1>1, <1>2, <1>4, <2>2
<1>7. Agrees(frames[Len(frames)], scopes[Len(scopes)], R) BY <1>2, <1>4 DEF Mirrors
<1>8. live => scopes[Len(scopes)].before BY <1>3 DEF Mirrors
<1>9. frames[Len(frames)].kind = "cond2" /\ scopes[Len(scopes)].before => live
  BY <1>2, <1>4 DEF Mirrors
<1>10. Topped(m, scopes, frames)
  <2>1. Len(scopes) \in Nat \ {0} BY <1>1, <1>3
  <2>2. scopes # <<>> /\ m[Len(scopes)] = Len(frames) BY <1>2, <1>4, <1>5
  <2>. QED BY <1>6, <2>1, <2>2 DEF Topped
<1>. QED BY <1>5, <1>7, <1>8, <1>9, <1>10

(* A lambda starts and opens a brace; only a while_'s first run of the     *)
(* condition, which has none, can have stood where it stands.              *)
LEMMA OpenMatched ==
  ASSUME NEW scopes \in Seq(Brace), NEW frames \in Seq(Frame), NEW R, NEW S,
         NEW live \in BOOLEAN, Matched(live, scopes, frames, R),
         NEW p \in Nat, p <= Len(frames), NEW new \in Seq(Frame), Len(new) = p + 1,
         \A i \in 1..p : new[i] = frames[i] /\ Stands(frames[i], R, S),
         \A i \in 1..Len(frames) : i > p => frames[i].kind = "cond1",
         NEW s \in Brace, s.before <=> live, Agrees(new[p + 1], s, S)
  PROVE  Matched(live, Append(scopes, s), new, S)
<1>1. PICK m \in [1..Len(scopes) -> 1..Len(frames)] : Mirrors(m, live, scopes, frames, R)
  BY DEF Matched
<1> DEFINE n == Len(scopes)
           more == Append(scopes, s)
           w == [k \in 1..n + 1 |-> IF k = n + 1 THEN p + 1 ELSE m[k]]
<1>2. n \in Nat /\ Len(frames) \in Nat BY LenProperties
<1>3. /\ Len(more) = n + 1 /\ more[n + 1] = s /\ \A k \in 1..n : more[k] = scopes[k]
  BY PushFacts
<1>4. ASSUME NEW k \in 1..n PROVE m[k] \in 1..p
  <2>1. m[k] \in 1..Len(frames) OBVIOUS
  <2>2. frames[m[k]].kind # "cond1" BY <1>1 DEF Mirrors, Agrees
  <2>. QED BY <1>2, <2>1, <2>2
<1>5. /\ w \in [1..n + 1 -> 1..p + 1] /\ w[n + 1] = p + 1
      /\ \A k \in 1..n : w[k] = m[k] /\ w[k] \in 1..p
  <2>1. \A k \in 1..n : k # n + 1 /\ k \in 1..n + 1 BY <1>2
  <2>2. \A k \in 1..n + 1 : k = n + 1 \/ k \in 1..n BY <1>2
  <2>3. n + 1 \in 1..n + 1 /\ p + 1 \in 1..p + 1 /\ \A i \in 1..p : i \in 1..p + 1 BY <1>2
  <2>. QED BY <1>4, <2>1, <2>2, <2>3
<1>6. \A k \in 1..n + 1 : k = n + 1 \/ k \in 1..n BY <1>2
<1>7. \A k \in 1..n : k \in 1..n + 1 /\ k < n + 1 /\ ~(n + 1 < k) BY <1>2
<1>. HIDE DEF n, more, w
<1>8. \A k \in 1..n + 1 : Agrees(new[w[k]], more[k], S)
  <2>1. \A k \in 1..n : Agrees(frames[m[k]], scopes[k], R) BY <1>1 DEF Mirrors, n
  <2>. QED BY <1>3, <1>5, <1>6, <2>1 DEF Stands
<1>9. \A k \in 1..n + 1 : live => more[k].before
  <2>1. \A k \in 1..n : live => scopes[k].before BY <1>1 DEF Mirrors, n
  <2>. QED BY <1>3, <1>6, <2>1
<1>10. ASSUME NEW j \in 1..n + 1, NEW k \in 1..n + 1, j < k
       PROVE  w[j] < w[k] /\ (more[k].before => more[j].before)
  <2>1. j \in 1..n BY <1>2, <1>10
  <2>2. CASE k \in 1..n
    <3>1. m[j] < m[k] /\ (scopes[k].before => scopes[j].before)
      BY <1>1, <1>10, <2>1, <2>2 DEF Mirrors, n
    <3>. QED BY <1>3, <1>5, <2>1, <2>2, <3>1
  <2>3. CASE k = n + 1
    <3>1. w[j] < w[k] BY <1>5, <2>1, <2>3
    <3>. QED BY <1>3, <1>9, <2>3, <3>1
  <2>. QED BY <1>6, <2>2, <2>3
<1>11. ASSUME NEW i \in 1..p + 1, new[i].kind # "cond1" PROVE \E k \in 1..n + 1 : w[k] = i
  <2>1. CASE i = p + 1
    <3>1. n + 1 \in 1..n + 1 BY <1>2
    <3>. QED BY <1>5, <2>1, <3>1
  <2>2. CASE i # p + 1
    <3>1. i \in 1..p /\ i \in 1..Len(frames) BY <1>2, <2>2
    <3>2. PICK k \in 1..n : m[k] = i BY <1>1, <1>11, <3>1 DEF Mirrors, n
    <3>. QED BY <1>5, <1>7, <3>2
  <2>. QED BY <2>1, <2>2
<1>12. ASSUME NEW k \in 1..n + 1, new[w[k]].kind = "cond2", more[k].before
       PROVE  live /\ \A j \in 1..n + 1 : j > k => more[j].before
  <2>1. CASE k = n + 1
    <3>1. \A j \in 1..n + 1 : ~(j > n + 1) BY <1>2
    <3>. QED BY <1>3, <1>12, <2>1, <3>1
  <2>2. CASE k \in 1..n
    <3>1. frames[m[k]].kind = "cond2" /\ scopes[k].before BY <1>3, <1>5, <1>12, <2>2
    <3>2. live BY <1>1, <2>2, <3>1 DEF Mirrors, n
    <3>. QED BY <1>9, <3>2
  <2>. QED BY <1>6, <2>1, <2>2
<1>13. Mirrors(w, live, more, new, S)
  BY <1>3, <1>8, <1>9, <1>10, <1>11, <1>12 DEF Mirrors
<1>. QED BY <1>3, <1>5, <1>13 DEF Matched, more

(* The lambdas up to p stay, and nothing is reached that they tell of.     *)
Below(p, frames, new, R, S) == \A i \in 1..p : new[i] = frames[i] /\ Stands(frames[i], R, S)

(* The innermost lambda, not a while_'s condition, returns and closes its  *)
(* brace.                                                                  *)
LEMMA CloseMatched ==
  ASSUME NEW scopes \in Seq(Brace), NEW frames \in Seq(Frame), frames # <<>>, NEW R, NEW S,
         frames[Len(frames)].kind # "cond1",
         NEW live \in BOOLEAN, Matched(live, scopes, frames, R),
         NEW new \in Seq(Frame), Len(new) = Len(frames) - 1,
         Below(Len(frames) - 1, frames, new, R, S),
         NEW after \in BOOLEAN, live => after, after => scopes[Len(scopes)].before
  PROVE  Matched(after, Front(scopes), new, S)
<1>. USE DEF Below
<1>1. PICK m \in [1..Len(scopes) -> 1..Len(frames)] : Mirrors(m, live, scopes, frames, R)
  BY DEF Matched
<1> DEFINE n == Len(scopes)
           less == Front(scopes)
           w == [k \in 1..(n - 1) |-> m[k]]
<1>2. /\ n \in Nat \ {0} /\ scopes # <<>> /\ m[n] = Len(frames)
      /\ \A k \in 1..(n - 1) : m[k] \in 1..(Len(frames) - 1)
  <2>1. Topped(m, scopes, frames) BY <1>1, TopMatched
  <2>. QED BY <2>1 DEF Topped
<1>3. Len(frames) \in Nat \ {0} BY TopFacts
<1>4. Len(less) = n - 1 /\ \A k \in 1..(n - 1) : less[k] = scopes[k]
  BY <1>2, PopFacts DEF Front
<1>5. w \in [1..(n - 1) -> 1..(Len(frames) - 1)] /\ \A k \in 1..(n - 1) : w[k] = m[k]
  BY <1>2
<1>6. /\ \A k \in 1..(n - 1) : k \in 1..n /\ k < n
      /\ n \in 1..n /\ \A k \in 1..n : k = n \/ k \in 1..(n - 1)
  BY <1>2
<1>. HIDE DEF n, less, w
<1>7. \A k \in 1..(n - 1) : Agrees(new[w[k]], less[k], S)
  <2>1. \A k \in 1..n : Agrees(frames[m[k]], scopes[k], R) BY <1>1 DEF Mirrors, n
  <2>. QED BY <1>2, <1>4, <1>5, <1>6, <2>1 DEF Stands
<1>8. \A k \in 1..(n - 1) : scopes[n].before => less[k].before
  BY <1>1, <1>4, <1>6 DEF Mirrors, n
<1>9. \A j, k \in 1..(n - 1) : j < k => w[j] < w[k] /\ (less[k].before => less[j].before)
  BY <1>1, <1>4, <1>5, <1>6 DEF Mirrors, n
<1>10. ASSUME NEW i \in 1..(Len(frames) - 1), new[i].kind # "cond1"
       PROVE  \E k \in 1..(n - 1) : w[k] = i
  <2>1. i \in 1..Len(frames) /\ i # Len(frames) BY <1>3
  <2>2. PICK k \in 1..n : m[k] = i BY <1>1, <1>10, <2>1 DEF Mirrors, n
  <2>. QED BY <1>2, <1>5, <1>6, <2>1, <2>2
<1>11. ASSUME NEW k \in 1..(n - 1), new[w[k]].kind = "cond2", less[k].before
       PROVE  after /\ \A j \in 1..(n - 1) : j > k => less[j].before
  <2>1. frames[m[k]].kind = "cond2" /\ scopes[k].before BY <1>2, <1>4, <1>5, <1>11
  <2>2. live /\ \A j \in 1..n : j > k => scopes[j].before
    BY <1>1, <1>6, <2>1 DEF Mirrors, n
  <2>. QED BY <1>4, <1>6, <2>2
<1>12. Mirrors(w, after, less, new, S)
  BY <1>4, <1>7, <1>8, <1>9, <1>10, <1>11 DEF Mirrors, n
<1>. QED BY <1>4, <1>5, <1>12 DEF Matched, less

(* Only the innermost brace is another, but opened where the first was.    *)
Rebraced(n, scopes, others) ==
  /\ \A k \in 1..(n - 1) : others[k] = scopes[k]
  /\ others[n].before <=> scopes[n].before

(* The innermost lambda's statement goes on with another lambda, under the *)
(* same brace or one in its place.                                         *)
LEMMA GoOnMatched ==
  ASSUME NEW scopes \in Seq(Brace), NEW frames \in Seq(Frame), frames # <<>>, NEW R, NEW S,
         frames[Len(frames)].kind # "cond1",
         NEW live \in BOOLEAN, Matched(live, scopes, frames, R),
         NEW new \in Seq(Frame), Len(new) = Len(frames),
         Below(Len(frames) - 1, frames, new, R, S),
         NEW others \in Seq(Brace), Len(others) = Len(scopes),
         Rebraced(Len(scopes), scopes, others),
         Agrees(new[Len(frames)], others[Len(scopes)], S),
         new[Len(frames)].kind # "cond2",
         NEW after \in BOOLEAN, after => scopes[Len(scopes)].before,
         live /\ scopes[Len(scopes)].before => after
  PROVE  Matched(after, others, new, S)
<1>1. PICK m \in [1..Len(scopes) -> 1..Len(frames)] : Mirrors(m, live, scopes, frames, R)
  BY DEF Matched
<1> DEFINE n == Len(scopes)
           t == Len(frames)
<1>2. /\ n \in Nat \ {0} /\ m[n] = t
      /\ \A k \in 1..(n - 1) : m[k] \in 1..(t - 1)
  <2>1. Topped(m, scopes, frames) BY <1>1, TopMatched
  <2>. QED BY <2>1 DEF Topped
<1>3. t \in Nat \ {0} BY TopFacts
<1>4. m \in [1..n -> 1..t] /\ Len(others) = n /\ Len(new) = t OBVIOUS
<1>5. /\ \A k \in 1..(n - 1) : k \in 1..n /\ k < n
      /\ n \in 1..n /\ \A k \in 1..n : k = n \/ k \in 1..(n - 1)
  BY <1>2
<1>6. /\ \A k \in 1..(n - 1) : others[k] = scopes[k]
      /\ others[n].before <=> scopes[n].before
      /\ Agrees(new[t], others[n], S) /\ new[t].kind # "cond2"
      /\ \A i \in 1..(t - 1) : new[i] = frames[i] /\ Stands(frames[i], R, S)
      /\ after => scopes[n].before
      /\ live /\ scopes[n].before => after
  BY DEF Below, Rebraced
<1>7. /\ \A k \in 1..n : Agrees(frames[m[k]], scopes[k], R)
      /\ \A j, k \in 1..n : j < k => m[j] < m[k] /\ (scopes[k].before => scopes[j].before)
      /\ \A i \in 1..t : frames[i].kind # "cond1" => \E k \in 1..n : m[k] = i
      /\ \A k \in 1..n : frames[m[k]].kind = "cond2" /\ scopes[k].before =>
           live /\ \A j \in 1..n : j > k => scopes[j].before
  BY <1>1 DEF Mirrors
<1>. HIDE DEF n, t
<1>8. \A k \in 1..n : others[k].before <=> scopes[k].before BY <1>5, <1>6
<1>9. \A k \in 1..n : Agrees(new[m[k]], others[k], S)
  BY <1>2, <1>5, <1>6, <1>7 DEF Stands
<1>10. \A k \in 1..n : after => others[k].before
  BY <1>5, <1>6, <1>7, <1>8
<1>11. \A j, k \in 1..n : j < k => m[j] < m[k] /\ (others[k].before => others[j].before)
  BY <1>7, <1>8
<1>12. \A i \in 1..t : new[i].kind # "cond1" => \E k \in 1..n : m[k] = i
  <2>1. \A i \in 1..t : i = t \/ i \in 1..(t - 1) BY <1>3
  <2>2. n \in 1..n /\ m[n] = t BY <1>2, <1>5
  <2>3. ASSUME NEW i \in 1..(t - 1), new[i].kind # "cond1" PROVE \E k \in 1..n : m[k] = i
    <3>1. frames[i].kind # "cond1" /\ i \in 1..t BY <1>3, <1>6, <2>3
    <3>. QED BY <1>7, <3>1
  <2>. QED BY <2>1, <2>2, <2>3
<1>13. ASSUME NEW k \in 1..n, new[m[k]].kind = "cond2", others[k].before
       PROVE  after /\ \A j \in 1..n : j > k => others[j].before
  <2>1. k \in 1..(n - 1) BY <1>2, <1>5, <1>6, <1>13
  <2>2. frames[m[k]].kind = "cond2" /\ scopes[k].before BY <1>2, <1>6, <1>8, <1>13, <2>1
  <2>3. live /\ \A j \in 1..n : j > k => scopes[j].before BY <1>7, <2>2
  <2>4. n > k BY <1>2, <2>1
  <2>. QED BY <1>5, <1>6, <1>8, <2>3, <2>4
<1>14. Mirrors(m, after, others, new, S)
  BY <1>4, <1>9, <1>10, <1>11, <1>12, <1>13 DEF Mirrors
<1>. QED BY <1>4, <1>14 DEF Matched

(* while_ runs its condition for the first time: no brace.                 *)
LEMMA TestMatched ==
  ASSUME NEW scopes \in Seq(Brace), NEW frames \in Seq(Frame), NEW R,
         NEW live \in BOOLEAN, Matched(live, scopes, frames, R),
         NEW f \in Frame, f.kind = "cond1"
  PROVE  Matched(live, scopes, Append(frames, f), R)
<1>1. PICK m \in [1..Len(scopes) -> 1..Len(frames)] : Mirrors(m, live, scopes, frames, R)
  BY DEF Matched
<1> DEFINE n == Len(frames)
           new == Append(frames, f)
<1>2. /\ n \in Nat /\ Len(new) = n + 1 /\ new[n + 1] = f
      /\ \A i \in 1..n : new[i] = frames[i]
  BY PushFacts
<1>3. \A i \in 1..n + 1 : i = n + 1 \/ i \in 1..n BY <1>2
<1>4. m \in [1..Len(scopes) -> 1..n + 1] BY <1>2
<1>5. \A k \in 1..Len(scopes) : m[k] \in 1..n OBVIOUS
<1>. HIDE DEF n, new
<1>6. \A k \in 1..Len(scopes) : new[m[k]] = frames[m[k]] BY <1>2, <1>5
<1>7. \A i \in 1..n + 1 : new[i].kind # "cond1" => \E k \in 1..Len(scopes) : m[k] = i
  BY <1>1, <1>2, <1>3 DEF Mirrors, n
<1>8. Mirrors(m, live, scopes, new, R) BY <1>1, <1>2, <1>6, <1>7 DEF Mirrors
<1>. QED BY <1>2, <1>4, <1>8 DEF Matched, new

(* The block is left: what follows in it is dead.  No condition is being   *)
(* evaluated.                                                              *)
LEMMA ExitMatched ==
  ASSUME NEW scopes \in Seq(Brace), NEW frames \in Seq(Frame), NEW R,
         NEW live \in BOOLEAN, Matched(live, scopes, frames, R),
         \A i \in 1..Len(frames) : frames[i].kind # "cond2"
  PROVE  Matched(FALSE, scopes, frames, R)
<1>1. PICK m \in [1..Len(scopes) -> 1..Len(frames)] : Mirrors(m, live, scopes, frames, R)
  BY DEF Matched
<1>2. \A k \in 1..Len(scopes) : m[k] \in 1..Len(frames) OBVIOUS
<1>3. Mirrors(m, FALSE, scopes, frames, R) BY <1>1, <1>2 DEF Mirrors
<1>. QED BY <1>3 DEF Matched

(* Live code in a while_'s body: the loop's head and what follows it are   *)
(* reached.                                                                *)
LEMMA LoopReached ==
  ASSUME NEW scopes \in Seq(Brace), NEW frames \in Seq(Frame), NEW R,
         Matched(TRUE, scopes, frames, R),
         NEW i \in 1..Len(frames), frames[i].kind = "body"
  PROVE  frames[i].head_block \in R /\ frames[i].exit_block \in R
<1>1. PICK m \in [1..Len(scopes) -> 1..Len(frames)] : Mirrors(m, TRUE, scopes, frames, R)
  BY DEF Matched
<1>2. PICK k \in 1..Len(scopes) : m[k] = i BY <1>1 DEF Mirrors
<1>3. scopes[k].before /\ Agrees(frames[i], scopes[k], R) BY <1>1, <1>2 DEF Mirrors
<1>. QED BY <1>3 DEF Agrees

(* No lambda, no brace.                                                    *)
LEMMA NothingMatched ==
  ASSUME NEW scopes \in Seq(Brace), NEW live \in BOOLEAN, NEW R
  PROVE  Matched(live, scopes, <<>>, R) <=> scopes = <<>>
<1>1. Len(<<>>) = 0 /\ 1..0 = {} OBVIOUS
<1>2. ASSUME Matched(live, scopes, <<>>, R) PROVE scopes = <<>>
  <2>1. PICK m \in [1..Len(scopes) -> {}] : TRUE BY <1>1, <1>2 DEF Matched
  <2>2. 1..Len(scopes) = {} /\ Len(scopes) \in Nat BY LenProperties
  <2>3. \A n \in Nat : 1..n = {} => n = 0
    <3>1. \A n \in Nat : n # 0 => 1 \in 1..n OBVIOUS
    <3>. QED BY <3>1
  <2>4. Len(scopes) = 0 BY <2>2, <2>3
  <2>. QED BY <2>4, EmptySeq
<1>3. ASSUME scopes = <<>> PROVE Matched(live, scopes, <<>>, R)
  <2>1. Len(scopes) = 0 BY <1>3
  <2> DEFINE m == [k \in {} |-> 0]
  <2>2. m \in [{} -> {}] OBVIOUS
  <2>3. Mirrors(m, live, scopes, <<>>, R) BY <1>1, <2>1 DEF Mirrors
  <2>. QED BY <1>1, <2>1, <2>2, <2>3 DEF Matched
<1>. QED BY <1>2, <1>3

-----------------------------------------------------------------------------
(* What a step adds to the graph.                                          *)

BuilderInv == /\ IInv /\ NoCodeAfterTerminator /\ OneFunctionAtATime
              /\ LoopsSaved /\ HeadsPlaced /\ TargetsKnown

LEMMA BuilderFacts ==
  ASSUME BuilderInv
  PROVE  /\ TypeOK /\ IInv /\ code \in [Block -> Seq(Instr)]
         /\ \A b \in Block : LastOnly(code[b])
         /\ Successors \in Graph
         /\ \A b \in Block : Successors[b] = Targets(code[b])
         /\ \A b \in Block : ~Ends(code[b]) => Successors[b] = {}
         /\ \A b \in Block : Successors[b] # {} =>
              \E i \in DOMAIN code[b] : Successors[b] = code[b][i].to
<1>1. TypeOK /\ IInv /\ code \in [Block -> Seq(Instr)] BY DEF BuilderInv, IInv, TypeOK
<1>2. \A b \in Block : LastOnly(code[b])
  BY DEF BuilderInv, NoCodeAfterTerminator, LastOnly
<1>3. ASSUME NEW b \in Block
      PROVE  /\ Targets(code[b]) \subseteq Block
             /\ ~Ends(code[b]) => Targets(code[b]) = {}
             /\ Targets(code[b]) # {} =>
                  \E i \in DOMAIN code[b] : Targets(code[b]) = code[b][i].to
  <2>1. code[b] \in Seq(Instr) /\ LastOnly(code[b]) BY <1>1, <1>2
  <2>2. CASE ~Ends(code[b]) BY <2>2, NoTargets
  <2>3. CASE Ends(code[b])
    <3>1. /\ Len(code[b]) \in DOMAIN code[b]
          /\ Targets(code[b]) = code[b][Len(code[b])].to
      BY <2>1, <2>3, TargetsOfLast
    <3>2. code[b][Len(code[b])] \in Instr BY <2>1, <3>1, ElementOfSeq, LenProperties
    <3>. QED BY <2>3, <3>1, <3>2 DEF Instr
  <2>. QED BY <2>2, <2>3
<1>4. \A b \in Block : Successors[b] = Targets(code[b]) BY DEF Successors
<1>5. Successors \in Graph BY <1>3 DEF Successors, Graph
<1>. QED BY <1>1, <1>2, <1>3, <1>4, <1>5

(* Control reaches only blocks that exist.                                 *)
LEMMA ReachedExists ==
  ASSUME BuilderInv, function_ \in Function, entry[function_] \in Block,
         parent[entry[function_]] # 0
  PROVE  Reachable \subseteq {b \in Block : b <= blocks}
<1> DEFINE T == {b \in Block : b <= blocks}
           e == entry[function_]
<1>1. \A b \in Block : parent[b] # 0 => b <= blocks
  <2>1. blocks \in Nat /\ \A b \in Block : b \in Nat BY BoundsAssumption DEF BuilderInv, IInv, TypeOK, Block
  <2>. QED BY <2>1 DEF BuilderInv, IInv, UncreatedUnplaced
<1>2. ASSUME NEW b \in T, NEW t \in Successors[b] PROVE t \in T
  <2>1. PICK i \in DOMAIN code[b] : Successors[b] = code[b][i].to BY BuilderFacts
  <2>2. t \in Block BY BuilderFacts DEF Graph
  <2>3. parent[b] # 0
    <3>1. DOMAIN <<>> = {} OBVIOUS
    <3>. QED BY <2>1, <3>1 DEF BuilderInv, IInv, UnplacedEmpty
  <2>4. parent[t] = parent[b] \/ t \in Debts BY <2>1 DEF BuilderInv, TargetsKnown
  <2>5. CASE parent[t] = parent[b] BY <1>1, <2>2, <2>3, <2>5
  <2>6. CASE t \in Debts BY <2>2, <2>6 DEF Debts, BuilderInv, IInv, OwedUnplaced
  <2>. QED BY <2>4, <2>5, <2>6
<1>3. e \in T /\ T \in SUBSET Block BY <1>1
<1>4. function_ # 0 BY DEF Function
<1>5. Reachable = ReachedIn(Successors, e) BY <1>4 DEF Reachable
<1>6. \A b \in T : Successors[b] \subseteq T BY <1>2
<1>. HIDE DEF T, e
<1>7. ReachedIn(Successors, e) \subseteq T BY <1>3, <1>6, ReachedLeast, BuilderFacts
<1>. QED BY <1>5, <1>7 DEF T

LEMMA SameReached ==
  ASSUME BuilderInv, UNCHANGED <<function_, entry>>,
         \A b \in Block : Targets(code'[b]) = Targets(code[b])
  PROVE  Reachable' = Reachable
<1>1. Successors' = Successors BY DEF Successors
<1>. QED BY <1>1 DEF Reachable

(* An instruction at the end of the insertion block, which was open.       *)
LEMMA AddedReached ==
  ASSUME BuilderInv, stack # <<>>, ~Ends(code[insert]), NEW i \in Instr, code' = Emitted(i),
         UNCHANGED <<function_, entry>>,
         insert \in Reachable => \A t \in i.to : t \in Reachable \/ ~Ends(code[t])
  PROVE  Reachable' = Reachable \cup
           (IF insert \in Reachable /\ i.op \in Terminators THEN i.to ELSE {})
<1> DEFINE T == IF i.op \in Terminators THEN i.to ELSE {}
           e == entry[function_]
<1>1. /\ function_ \in Function /\ function_ # 0 /\ insert \in Block /\ e \in Block
      /\ T \in SUBSET Block
  BY DEF BuilderInv, IInv, InsertionPlaced, Function, Instr
<1>2. /\ code \in [Block -> Seq(Instr)] /\ Successors \in Graph
      /\ \A b \in Block : Successors[b] = Targets(code[b])
      /\ \A b \in Block : ~Ends(code[b]) => Successors[b] = {}
  BY BuilderFacts
<1>3. /\ code'[insert] = Append(code[insert], i)
      /\ \A b \in Block : b # insert => code'[b] = code[b]
  BY <1>1, <1>2 DEF Emitted
<1>4. Targets(code'[insert]) = T BY <1>1, <1>2, <1>3, TargetsAppend
<1>5. Successors' = [Successors EXCEPT ![insert] = T]
  <2>1. Successors' = [b \in Block |-> Targets(code'[b])] BY DEF Successors
  <2>2. ASSUME NEW b \in Block
        PROVE  Targets(code'[b]) = [Successors EXCEPT ![insert] = T][b]
    <3>1. CASE b = insert BY <1>1, <1>2, <1>4, <3>1 DEF Graph
    <3>2. CASE b # insert BY <1>2, <1>3, <3>2 DEF Graph
    <3>. QED BY <3>1, <3>2
  <2>. HIDE DEF T
  <2>. QED BY <1>2, <2>1, <2>2 DEF Graph
<1>6. Reachable = ReachedIn(Successors, e) BY <1>1 DEF Reachable
<1>7. Reachable' = ReachedIn(Successors', e) BY <1>1 DEF Reachable
<1>8. Successors[insert] = {} BY <1>1, <1>2
<1>9. insert \in Reachable => \A t \in T : t \in Reachable \/ Successors[t] = {} BY <1>1, <1>2
<1>10. ReachedIn([Successors EXCEPT ![insert] = T], e) =
         ReachedIn(Successors, e) \cup (IF insert \in ReachedIn(Successors, e) THEN T ELSE {})
  <2>1. insert \in ReachedIn(Successors, e) =>
          \A t \in T : t \in ReachedIn(Successors, e) \/ Successors[t] = {}
    BY <1>6, <1>9
  <2>. HIDE DEF T, e
  <2>2. e \in Block /\ T \in SUBSET Block /\ insert \in Block /\ Successors \in Graph BY <1>1, <1>2
  <2>. QED BY <1>8, <2>1, <2>2, ReachedGrows
<1>11. Reachable' = Reachable \cup (IF insert \in Reachable THEN T ELSE {})
  BY <1>5, <1>6, <1>7, <1>10
<1>. QED BY <1>11

(* The blocks a lambda tells of are those it owes, and a loop's head.      *)
LEMMA StandsIf ==
  ASSUME NEW f \in Frame, FrameShape(f), NEW R, NEW S,
         \A b \in Owed(f) : b \in S <=> b \in R,
         IsLoop(f) => (f.head_block \in S <=> f.head_block \in R)
  PROVE  Stands(f, R, S)
<1>1. /\ f.kind \in {"then_else", "cond2"} => f.next_block \in Owed(f) /\ f.exit_block \in Owed(f)
      /\ f.kind \in {"then", "else", "body"} => f.exit_block \in Owed(f)
  BY DEF FrameShape, Owed
<1>. QED BY <1>1 DEF Stands, Agrees, IsLoop

OwnOrNew(T, i) == \A t \in T : t > blocks \/ (t \in Owed(Top) /\ i # Len(stack))

LEMMA OthersStand ==
  ASSUME BuilderInv, NEW i \in 1..Len(stack), NEW R, NEW T \in SUBSET Block, OwnOrNew(T, i)
  PROVE  Stands(stack[i], R, R \cup T)
<1>1. /\ stack \in Seq(Frame) /\ DOMAIN stack = 1..Len(stack) /\ Len(stack) \in Nat
      /\ blocks \in Nat
  BY LenProperties, BoundsAssumption DEF BuilderInv, IInv, TypeOK
<1>2. stack[i] \in Frame /\ FrameShape(stack[i])
  BY <1>1, ElementOfSeq DEF BuilderInv, IInv, FramesShaped
<1>3. Len(stack) \in DOMAIN stack /\ stack # <<>> BY <1>1, EmptySeq
<1>4. \A b \in Block : b \in Nat BY DEF Block
<1>5. Owed(stack[i]) \subseteq Block BY <1>2, OwedBlocks
<1>6. ASSUME NEW b \in Owed(stack[i]) PROVE b \notin T
  <2>1. b <= blocks /\ b \in Nat BY <1>1, <1>4, <1>5 DEF BuilderInv, IInv, OwedUnplaced
  <2>2. ~(b > blocks)
    <3>1. blocks \in Nat BY <1>1
    <3>. QED BY <2>1, <3>1
  <2>3. i # Len(stack) => b \notin Owed(Top)
    BY <1>1, <1>3 DEF BuilderInv, IInv, OwedOnce, Top
  <2>. QED BY <2>2, <2>3 DEF OwnOrNew
<1>7. ASSUME IsLoop(stack[i]) PROVE stack[i].head_block \notin T
  <2> DEFINE h == stack[i].head_block
  <2>1. h \in Block /\ parent[h] = function_ /\ function_ # 0
    BY <1>1, <1>3, <1>7 DEF BuilderInv, HeadsPlaced, IInv, InsertionPlaced, Function
  <2>2. h <= blocks BY <1>1, <1>4, <2>1 DEF BuilderInv, IInv, UncreatedUnplaced
  <2>3. ~(h > blocks) BY <1>1, <1>4, <2>1, <2>2
  <2>4. h \notin Owed(Top) BY <1>3, <2>1 DEF BuilderInv, IInv, OwedUnplaced, Top
  <2>. QED BY <2>3, <2>4 DEF OwnOrNew
<1>. QED BY <1>2, <1>6, <1>7, StandsIf

-----------------------------------------------------------------------------
(* The invariant: while lambdas run, the reader and the graph agree where  *)
(* control is and at every open brace; between functions, they agreed at   *)
(* the end of the last one.                                                *)

Careful == Liberties = {}

Finished ==
  stack = <<>> /\ source_code_ # <<>> =>
    /\ ReaderOf(Front(source_code_)).live <=> insert \in Reachable /\ ~exited_block_
    /\ exited_block_ => HasTerminator(insert)
    /\ function_ \in Function /\ entry[function_] \in Block
    /\ parent[entry[function_]] = function_

ReaderTyped == Reader \in [live : BOOLEAN, scopes : Seq(Brace)]

TextInv ==
  /\ ReaderTyped /\ TextAgreesOnReachability /\ Finished
  /\ Matched(Reader.live, Reader.scopes, stack, Reachable)

LEMMA LineRead ==
  ASSUME TypeOK, NEW kind \in LineKind, add_line(kind)
  PROVE  Reader' = ReadLine(Reader, kind)
<1>1. source_code_ \in Seq(LineKind) /\ source_code_' = Append(source_code_, kind)
  BY DEF TypeOK, add_line
<1>2. ReaderOf(source_code_') = ReadLine(ReaderOf(source_code_), kind)
  BY <1>1, ReadAppend
<1>. QED BY <1>2 DEF Reader

LEMMA RunFacts ==
  ASSUME Careful, BuilderInv, TextInv, stack # <<>>
  PROVE  /\ TypeOK /\ IInv /\ stack \in Seq(Frame) /\ blocks \in Nat
         /\ Len(stack) \in Nat \ {0} /\ Top = stack[Len(stack)]
         /\ function_ \in Function /\ insert \in Block /\ entry[function_] \in Block
         /\ Reachable \subseteq {b \in Block : b <= blocks}
         /\ Reader.live \in BOOLEAN /\ Reader.scopes \in Seq(Brace)
         /\ exited_block_ \in BOOLEAN
         /\ exited_block_ <=> Ends(code[insert])
         /\ Reader.live <=> insert \in Reachable /\ ~exited_block_
         /\ Top.kind \in Conditions => ~exited_block_
         /\ Matched(Reader.live, Reader.scopes, stack, Reachable)
<1>1. /\ TypeOK /\ IInv /\ stack \in Seq(Frame) /\ blocks \in Nat
      /\ exited_block_ \in BOOLEAN
  BY BoundsAssumption DEF BuilderInv, IInv, TypeOK
<1>2. Len(stack) \in Nat \ {0} /\ Top = stack[Len(stack)] BY <1>1, TopFacts DEF Top
<1>3. /\ function_ \in Function /\ insert \in Block /\ entry[function_] \in Block
      /\ parent[entry[function_]] # 0
  BY <1>1 DEF IInv, InsertionPlaced
<1>4. Reachable \subseteq {b \in Block : b <= blocks} BY <1>3, ReachedExists
<1>5. Reader.live \in BOOLEAN /\ Reader.scopes \in Seq(Brace) BY DEF TextInv, ReaderTyped
<1>6. Disciplined BY DEF Careful, Disciplined
<1>7. exited_block_ <=> Ends(code[insert])
  BY <1>1, <1>6 DEF IInv, ExitFlagTracksTerminator, HasTerminator, Ends
<1>8. Reader.live <=> insert \in Reachable /\ ~exited_block_
  BY DEF TextInv, TextAgreesOnReachability
<1>9. Top.kind \in Conditions => ~exited_block_ BY <1>1, <1>6 DEF IInv, ConditionLive
<1>. QED BY <1>1, <1>2, <1>3, <1>4, <1>5, <1>7, <1>8, <1>9 DEF TextInv

(* A step after which a lambda runs.                                       *)
LEMMA TextInvIf ==
  ASSUME NEW live \in BOOLEAN, NEW scopes \in Seq(Brace),
         Reader' = [live |-> live, scopes |-> scopes], stack' # <<>>,
         live <=> insert' \in Reachable' /\ ~exited_block_',
         Matched(live, scopes, stack', Reachable')
  PROVE  TextInv'
<1>1. Reader'.live = live /\ Reader'.scopes = scopes OBVIOUS
<1>2. ReaderTyped' BY DEF ReaderTyped
<1>3. TextAgreesOnReachability' BY <1>1 DEF TextAgreesOnReachability
<1>4. Finished' BY DEF Finished
<1>. QED BY <1>1, <1>2, <1>3, <1>4 DEF TextInv

(* No call is made after an exit.                                          *)
LEMMA CallLive ==
  ASSUME Careful, BuilderInv, TextInv, MayCall
  PROVE  stack # <<>> /\ ~exited_block_ /\ ~Ends(code[insert])
         /\ (Reader.live <=> insert \in Reachable)
<1>1. stack # <<>> /\ ~exited_block_ BY DEF MayCall, Careful
<1>. QED BY <1>1, RunFacts

(* Steps of a running lambda that no brace is about.                       *)
LEMMA PlainText ==
  ASSUME Careful, BuilderInv, TextInv, stack # <<>>,
         UNCHANGED <<stack, insert, exited_block_>>, Reachable' = Reachable,
         Reader' = Reader
  PROVE  TextInv'
<1>1. /\ Reader.live \in BOOLEAN /\ Reader.scopes \in Seq(Brace)
      /\ Reader.live <=> insert \in Reachable /\ ~exited_block_
      /\ Matched(Reader.live, Reader.scopes, stack, Reachable)
  BY RunFacts
<1>2. Reader = [live |-> Reader.live, scopes |-> Reader.scopes] BY DEF TextInv, ReaderTyped
<1>. QED BY <1>1, <1>2, TextInvIf

LEMMA StatementRead ==
  ASSUME TypeOK, NEW kind \in {"statement", "declaration"}, add_line(kind)
  PROVE  Reader' = Reader
<1>1. kind \in LineKind BY DEF LineKind
<1>2. Reader' = ReadLine(Reader, kind) BY <1>1, LineRead
<1>. QED BY <1>2 DEF ReadLine

LEMMA StatementText ==
  ASSUME Careful, BuilderInv, TextInv, Statement \/ VariableGet
  PROVE  TextInv'
<1>1. /\ stack # <<>> /\ ~exited_block_ /\ ~Ends(code[insert])
  BY CallLive DEF Statement, VariableGet, MayAdd
<1>2. TypeOK /\ IInv /\ loc \in Location BY DEF BuilderInv, IInv, TypeOK
<1>3. PICK op \in {"op", "get"}, at \in Location : code' = Emitted(Instruction(op, {}, at))
  BY <1>2, LineFacts DEF Statement, VariableGet
<1> DEFINE i == Instruction(op, {}, at)
<1>4. i \in Instr /\ i.to = {} /\ i.op \notin Terminators
  BY <1>2, EmittedType DEF Instruction, Terminators
<1>. HIDE DEF i
<1>5. UNCHANGED <<function_, entry, stack, insert, exited_block_>>
  BY DEF Statement, VariableGet
<1>6. Reachable' = Reachable BY <1>1, <1>3, <1>4, <1>5, AddedReached DEF i
<1>7. Reader' = Reader
  <2>1. CASE Statement BY <1>2, <2>1, StatementRead DEF Statement
  <2>2. CASE VariableGet BY <2>2 DEF VariableGet, Reader
  <2>. QED BY <2>1, <2>2
<1>. QED BY <1>1, <1>5, <1>6, <1>7, PlainText

LEMMA VariableDeclText ==
  ASSUME Careful, BuilderInv, TextInv, VariableDecl
  PROVE  TextInv'
<1> DEFINE e == entry[function_]
           a == Alloca
<1>1. stack # <<>> BY DEF VariableDecl, MayCall
<1>2. TypeOK /\ e \in Block BY <1>1, RunFacts
<1>4. a \in Instr /\ a.op \notin Terminators BY <1>2, AllocaFacts
<1>5. code' = [code EXCEPT ![e] = <<a>> \o @] BY DEF VariableDecl
<1>6. UNCHANGED <<function_, entry, stack, insert, exited_block_>> /\ add_line("declaration")
  BY DEF VariableDecl
<1>. HIDE DEF a, e
<1>7. ASSUME NEW b \in Block PROVE Targets(code'[b]) = Targets(code[b])
  <2>1. code \in [Block -> Seq(Instr)] /\ LastOnly(code[e]) BY <1>2, BuilderFacts
  <2>2. CASE b = e
    <3>1. code'[e] = <<a>> \o code[e] BY <1>2, <1>5, <2>1
    <3>. QED BY <1>2, <1>4, <2>1, <2>2, <3>1, TargetsPrepend
  <2>3. CASE b # e BY <1>5, <2>1, <2>3
  <2>. QED BY <2>2, <2>3
<1>8. Reachable' = Reachable BY <1>6, <1>7, SameReached
<1>. QED BY <1>1, <1>2, <1>6, <1>8, PlainText, StatementRead

(* return_, break_ and continue_.  No condition is being evaluated, so     *)
(* that nothing counts on the block being left alive; and where break_ and *)
(* continue_ go is reached already if they are.                            *)
LEMMA ExitText ==
  ASSUME Careful, BuilderInv, TextInv, MayExit,
         NEW kind \in {"return", "break", "continue"}, NEW op \in Terminators,
         NEW to \in SUBSET Block, Exit(kind, op, to), Reader.live => to \subseteq Reachable
  PROVE  TextInv'
<1> DEFINE i == Instruction(op, to, At(line_no_))
<1>1. MayCall BY DEF MayExit
<1>2. /\ stack # <<>> /\ ~exited_block_ /\ ~Ends(code[insert])
      /\ Reader.live <=> insert \in Reachable
  BY <1>1, CallLive
<1>3. /\ TypeOK /\ Reader.live \in BOOLEAN /\ Reader.scopes \in Seq(Brace)
      /\ stack \in Seq(Frame) /\ Matched(Reader.live, Reader.scopes, stack, Reachable)
  BY <1>2, RunFacts
<1>4. At(line_no_) \in Location BY <1>3, LineFacts
<1>5. i \in Instr /\ i.to = to /\ i.op = op BY <1>3, <1>4, EmittedType DEF Instruction
<1>6. /\ UNCHANGED <<function_, entry, stack, insert>> /\ exited_block_' = TRUE
      /\ code' = Emitted(i) /\ add_line(kind)
  BY DEF Exit
<1>. HIDE DEF i
<1>7. Reachable' = Reachable BY <1>2, <1>5, <1>6, AddedReached
<1>8. Reader' = [live |-> FALSE, scopes |-> Reader.scopes]
  <2>1. kind \in LineKind BY DEF LineKind
  <2>2. Reader' = ReadLine(Reader, kind) BY <1>3, <1>6, <2>1, LineRead
  <2>3. ReadLine(Reader, kind) = [Reader EXCEPT !.live = FALSE] BY DEF ReadLine
  <2>. QED BY <2>2, <2>3 DEF TextInv, ReaderTyped
<1>9. \A j \in 1..Len(stack) : stack[j].kind # "cond2"
  <2>1. ~InCondition BY DEF MayExit, Careful
  <2>2. DOMAIN stack = 1..Len(stack) BY <1>3, LenProperties
  <2>. QED BY <2>1, <2>2 DEF InCondition, Conditions
<1>10. Matched(FALSE, Reader.scopes, stack, Reachable) BY <1>3, <1>9, ExitMatched
<1>. QED BY <1>2, <1>3, <1>6, <1>7, <1>8, <1>10, TextInvIf

LEMMA LoopIsReached ==
  ASSUME Careful, BuilderInv, TextInv, MayExit, Reader.live
  PROVE  /\ current_loop_.break_block_ # 0 => current_loop_.break_block_ \in Reachable
         /\ current_loop_.continue_block_ # 0 => current_loop_.continue_block_ \in Reachable
<1>1. stack # <<>> BY DEF MayExit, MayCall
<1>2. /\ Reader.scopes \in Seq(Brace) /\ stack \in Seq(Frame)
      /\ Matched(TRUE, Reader.scopes, stack, Reachable)
  <2>1. Reader.live = TRUE BY <1>1, RunFacts
  <2>. QED BY <1>1, <2>1, RunFacts
<1>3. CASE current_loop_ = NoLoop BY <1>3 DEF NoLoop
<1>4. ASSUME NEW i \in 1..Len(stack), IsLoop(stack[i]), current_loop_ = BlocksOf(stack[i])
      PROVE  /\ current_loop_.break_block_ \in Reachable
             /\ current_loop_.continue_block_ \in Reachable
  <2>1. ~InCondition BY DEF MayExit, Careful
  <2>2. DOMAIN stack = 1..Len(stack) BY <1>2, LenProperties
  <2>3. stack[i].kind = "body" BY <1>4, <2>1, <2>2 DEF InCondition, Conditions, IsLoop
  <2>4. stack[i].head_block \in Reachable /\ stack[i].exit_block \in Reachable
    BY <1>2, <2>3, LoopReached
  <2>. QED BY <1>4, <2>4 DEF BlocksOf
<1>. QED BY <1>3, <1>4 DEF BuilderInv, LoopsSaved, InnermostLoop

LEMMA AbortText ==
  ASSUME TextInv, Abort \/ UNCHANGED vars
  PROVE  TextInv'
<1>1. UNCHANGED <<stack, source_code_, insert, exited_block_, function_, entry, code, parent>>
  BY DEF Abort, vars
<1>2. Reader' = Reader /\ Reachable' = Reachable BY <1>1 DEF Reader, Reachable, Successors
<1>3. ReaderTyped' BY <1>2 DEF TextInv, ReaderTyped
<1>4. TextAgreesOnReachability' BY <1>1, <1>2 DEF TextInv, TextAgreesOnReachability
<1>5. Finished' BY <1>1, <1>2 DEF TextInv, Finished, HasTerminator
<1>6. Matched(Reader.live, Reader.scopes, stack, Reachable)' BY <1>1, <1>2 DEF TextInv
<1>. QED BY <1>3, <1>4, <1>5, <1>6 DEF TextInv

LEMMA ExitsText ==
  ASSUME Careful, BuilderInv, TextInv, Return \/ Break \/ Continue
  PROVE  TextInv'
<1>1. current_loop_ \in Loop BY DEF BuilderInv, IInv, TypeOK
<1>2. CASE Return
  <2>1. {} \in SUBSET Block /\ "ret" \in Terminators BY DEF Terminators
  <2>. QED BY <1>2, <2>1, ExitText DEF Return
<1>3. CASE Break
  <2> DEFINE t == current_loop_.break_block_
  <2>1. CASE t = 0 BY <1>3, <2>1, AbortText DEF Break
  <2>2. CASE t # 0
    <3>1. {t} \in SUBSET Block /\ "br" \in Terminators
      BY <1>1, <2>2, BoundsAssumption DEF Loop, Block, Terminators
    <3>2. Reader.live => {t} \subseteq Reachable BY <1>3, <2>2, LoopIsReached DEF Break
    <3>3. MayExit /\ Exit("break", "br", {t}) BY <1>3, <2>2 DEF Break
    <3>. HIDE DEF t
    <3>. QED BY <3>1, <3>2, <3>3, ExitText
  <2>. QED BY <2>1, <2>2
<1>4. CASE Continue
  <2> DEFINE t == current_loop_.continue_block_
  <2>1. CASE t = 0 BY <1>4, <2>1, AbortText DEF Continue
  <2>2. CASE t # 0
    <3>1. {t} \in SUBSET Block /\ "br" \in Terminators
      BY <1>1, <2>2, BoundsAssumption DEF Loop, Block, Terminators
    <3>2. Reader.live => {t} \subseteq Reachable BY <1>4, <2>2, LoopIsReached DEF Continue
    <3>3. MayExit /\ Exit("continue", "br", {t}) BY <1>4, <2>2 DEF Continue
    <3>. HIDE DEF t
    <3>. QED BY <3>1, <3>2, <3>3, ExitText
  <2>. QED BY <2>1, <2>2
<1>. QED BY <1>2, <1>3, <1>4

-----------------------------------------------------------------------------
(* if_ and while_.                                                         *)

(* A two-way branch, or while_'s branch to its condition: blocks are new.  *)
LEMMA NewBlocks ==
  ASSUME Careful, BuilderInv, TextInv, stack # <<>>, NEW b, b > blocks
  PROVE  b \notin Reachable /\ (b \in Block => ~Ends(code[b]))
<1>1. blocks \in Nat /\ Reachable \subseteq {c \in Block : c <= blocks} BY RunFacts
<1>2. b \notin Reachable
  <2>. SUFFICES ASSUME b \in Reachable PROVE FALSE OBVIOUS
  <2>1. b \in Nat /\ b <= blocks BY <1>1 DEF Block
  <2>. QED BY <1>1, <2>1
<1>3. b \in Block => code[b] = <<>> BY DEF BuilderInv, IInv, UncreatedUnplaced, UnplacedEmpty
<1>4. DOMAIN <<>> = {} OBVIOUS
<1>. QED BY <1>2, <1>3, <1>4 DEF Ends

LEMMA IfText ==
  ASSUME Careful, BuilderInv, TextInv, IfElse \/ IfOnly
  PROVE  TextInv'
<1>1. PICK kind \in {"then_else", "then"}, pending \in {1, 2} :
        /\ IfBegin(kind, pending) /\ pending = IF kind = "then" THEN 1 ELSE 2
  BY DEF IfElse, IfOnly
<1> DEFINE next == blocks + 2
           merge == blocks + 1 + pending
           f == [NewFrame(kind) EXCEPT !.exit_block = merge,
                                       !.next_block = IF next = merge THEN 0 ELSE next]
           i == Instruction("condbr", {blocks + 1, next}, At(line_no_))
           s == [brace |-> "if", before |-> Reader.live, joined |-> FALSE]
           p == Len(stack)
<1>2. MayCall BY <1>1 DEF IfBegin, MayNest
<1>3. /\ stack # <<>> /\ ~exited_block_ /\ ~Ends(code[insert])
      /\ Reader.live <=> insert \in Reachable
  BY <1>2, CallLive
<1>4. /\ TypeOK /\ Reader.live \in BOOLEAN /\ Reader.scopes \in Seq(Brace)
      /\ stack \in Seq(Frame) /\ blocks \in Nat /\ p \in Nat
      /\ Matched(Reader.live, Reader.scopes, stack, Reachable)
      /\ Reachable \subseteq {b \in Block : b <= blocks}
  BY <1>3, RunFacts
<1>5. /\ add_line("if") /\ code' = Emitted(i) /\ insert' = blocks + 1
      /\ stack' = Append(stack, f) /\ UNCHANGED <<function_, exited_block_, entry>>
  BY <1>1, <1>3 DEF IfBegin, FalseBlock, PlaceAndInsert, Push
<1>6. /\ merge \in Block /\ next \in Block /\ blocks + 1 \in Block
      /\ blocks + 1 > blocks /\ next > blocks /\ merge > blocks
      /\ merge # blocks + 1 /\ (kind = "then" => next = merge) /\ (kind = "then_else" => next # merge)
  <2>1. /\ merge \in Block /\ next \in Block /\ blocks + 1 \in Block
        /\ blocks + 1 > blocks /\ next > blocks /\ merge > blocks
    BY <1>1, <1>4, IfBlocks
  <2>2. pending = 1 \/ pending = 2 OBVIOUS
  <2>. QED BY <1>1, <1>4, <2>1, <2>2
<1>7. At(line_no_) \in Location BY <1>4, LineFacts
<1>8. i \in Instr /\ i.to = {blocks + 1, next} /\ i.op \in Terminators
  BY <1>4, <1>6, <1>7, EmittedType DEF Instruction, Terminators
<1>9. f \in Frame
  <2>1. NewFrame(kind) \in Frame /\ 0 \in 0..MaxBlocks
    BY <1>4, NewFrameType, BoundsAssumption DEF FrameKind
  <2>2. merge \in 0..MaxBlocks /\ (IF next = merge THEN 0 ELSE next) \in 0..MaxBlocks
    BY <1>6, <2>1 DEF Block
  <2>3. \A g \in Frame : \A a, b \in 0..MaxBlocks :
          [g EXCEPT !.exit_block = a, !.next_block = b] \in Frame
    BY DEF Frame
  <2>. HIDE DEF next, merge
  <2>. QED BY <2>1, <2>2, <2>3
<1>10. /\ f.kind = kind /\ f.exit_block = merge
       /\ f.next_block = IF next = merge THEN 0 ELSE next
  BY DEF NewFrame
<1>11. /\ Len(stack') = p + 1 /\ stack' \in Seq(Frame) /\ stack'[p + 1] = f /\ stack' # <<>>
       /\ \A j \in 1..p : stack'[j] = stack[j]
  BY <1>4, <1>5, <1>9, PushFacts
<1>12. s \in Brace /\ s.brace = "if" /\ (s.before <=> Reader.live)
  BY <1>4 DEF Brace, LineKind
<1>13. Reader' = [live |-> Reader.live, scopes |-> Append(Reader.scopes, s)]
  <2>1. Reader' = ReadLine(Reader, "if") BY <1>4, <1>5, LineRead DEF LineKind
  <2>2. ReadLine(Reader, "if") = OpenBrace(Reader, "if") BY DEF ReadLine
  <2>. QED BY <2>1, <2>2 DEF OpenBrace, TextInv, ReaderTyped
<1> DEFINE T == IF Reader.live THEN {blocks + 1, next} ELSE {}
<1>14. /\ blocks + 1 \notin Reachable /\ next \notin Reachable /\ merge \notin Reachable
       /\ ~Ends(code[blocks + 1]) /\ ~Ends(code[next])
  BY <1>3, <1>6, NewBlocks
<1>15. T \in SUBSET Block /\ \A t \in T : t > blocks BY <1>6
<1>. HIDE DEF i, f, s, p, next, merge
<1>16. Reachable' = Reachable \cup T BY <1>3, <1>5, <1>8, <1>14, AddedReached
<1>17. /\ insert' \in Reachable' <=> Reader.live
       /\ next \in Reachable' <=> Reader.live
  BY <1>5, <1>14, <1>16
<1>18. kind = "then_else" => merge \notin Reachable' BY <1>6, <1>14, <1>16
<1>. HIDE DEF T
<1>19. Agrees(f, s, Reachable')
  BY <1>1, <1>6, <1>10, <1>12, <1>17, <1>18 DEF Agrees
<1>20. \A j \in 1..p : Stands(stack[j], Reachable, Reachable')
  <2>1. \A j : OwnOrNew(T, j) BY <1>15 DEF OwnOrNew
  <2>. QED BY <1>15, <1>16, <2>1, OthersStand DEF p
<1>21. \A j \in 1..Len(stack) : ~(j > p) BY <1>4 DEF p
<1>22. Matched(Reader.live, Append(Reader.scopes, s), stack', Reachable')
  BY <1>4, <1>11, <1>12, <1>19, <1>20, <1>21, OpenMatched DEF p
<1>23. Append(Reader.scopes, s) \in Seq(Brace) BY <1>4, <1>12, PushFacts
<1>. QED BY <1>3, <1>4, <1>5, <1>11, <1>13, <1>17, <1>22, <1>23, TextInvIf

LEMMA WhileBeginText ==
  ASSUME Careful, BuilderInv, TextInv, WhileBegin
  PROVE  TextInv'
<1> DEFINE f == NewFrame("cond1")
<1>1. stack # <<>> BY DEF WhileBegin, MayNest, MayCall
<1>2. /\ TypeOK /\ Reader.live \in BOOLEAN /\ Reader.scopes \in Seq(Brace)
      /\ stack \in Seq(Frame)
      /\ Matched(Reader.live, Reader.scopes, stack, Reachable)
      /\ Reader.live <=> insert \in Reachable /\ ~exited_block_
  BY <1>1, RunFacts
<1>3. f \in Frame /\ f.kind = "cond1"
  BY <1>2, NewFrameType DEF FrameKind, NewFrame
<1>4. /\ stack' = Append(stack, f)
      /\ UNCHANGED <<function_, entry, code, insert, exited_block_, source_code_>>
  BY DEF WhileBegin, Push
<1>. HIDE DEF f
<1>5. stack' # <<>> BY <1>2, <1>3, <1>4, PushFacts
<1>6. Reader' = Reader BY <1>4 DEF Reader
<1>7. Reachable' = Reachable BY <1>4 DEF Reachable, Successors
<1>8. Matched(Reader.live, Reader.scopes, stack', Reachable')
  BY <1>2, <1>3, <1>4, <1>7, TestMatched
<1>9. Reader' = [live |-> Reader.live, scopes |-> Reader.scopes]
  BY <1>6 DEF TextInv, ReaderTyped
<1>. QED BY <1>2, <1>4, <1>5, <1>7, <1>8, <1>9, TextInvIf

LEMMA WhileTestText ==
  ASSUME Careful, BuilderInv, TextInv, WhileTest
  PROVE  TextInv'
<1> DEFINE head == blocks + 1
           f == [Top EXCEPT !.kind = "cond2", !.head_block = head,
                            !.next_block = blocks + 2, !.exit_block = blocks + 3,
                            !.parent_loop = current_loop_]
           i == Instruction("br", {head}, loc)
           s == [brace |-> "while", before |-> Reader.live, joined |-> FALSE]
           p == Len(stack) - 1
<1>1. stack # <<>> /\ Top.kind = "cond1" BY DEF WhileTest, Returns
<1>2. /\ TypeOK /\ Reader.live \in BOOLEAN /\ Reader.scopes \in Seq(Brace)
      /\ stack \in Seq(Frame) /\ blocks \in Nat /\ Len(stack) \in Nat \ {0}
      /\ Top = stack[Len(stack)]
      /\ Matched(Reader.live, Reader.scopes, stack, Reachable)
      /\ ~exited_block_ /\ ~Ends(code[insert])
      /\ Reader.live <=> insert \in Reachable
  BY <1>1, RunFacts DEF Conditions
<1>3. /\ add_line("while") /\ code' = Emitted(i) /\ insert' = head
      /\ stack' = [stack EXCEPT ![Len(stack)] = f]
      /\ UNCHANGED <<function_, exited_block_, entry>>
  BY DEF WhileTest, PlaceAndInsert, Replace
<1>4. /\ head \in Block /\ head > blocks /\ blocks + 2 > blocks /\ blocks + 3 > blocks
      /\ blocks + 2 # head /\ blocks + 3 # head
      /\ blocks + 2 \in 0..MaxBlocks /\ blocks + 3 \in 0..MaxBlocks /\ head \in 0..MaxBlocks
  BY <1>2, TestBlocks
<1>5. loc \in Location /\ current_loop_ \in Loop BY <1>2 DEF TypeOK
<1>6. i \in Instr /\ i.to = {head} /\ i.op \in Terminators
  BY <1>2, <1>4, <1>5, EmittedType DEF Instruction, Terminators
<1>7. f \in Frame /\ f.kind = "cond2" /\ f.head_block = head
      /\ f.next_block = blocks + 2 /\ f.exit_block = blocks + 3
  <2>1. Top \in Frame BY <1>1, <1>2, TopFrame
  <2>. QED BY <1>2, <1>4, <1>5, <2>1 DEF Frame, FrameKind, TypeOK
<1>8. /\ p \in Nat /\ p <= Len(stack) /\ p + 1 = Len(stack)
      /\ \A j \in 1..Len(stack) : j > p => j = Len(stack)
      /\ \A j \in 1..p : j \in 1..Len(stack) /\ j # Len(stack)
  BY <1>2
<1>. HIDE DEF f, i
<1>9. /\ Len(stack') = p + 1 /\ stack' \in Seq(Frame) /\ stack'[p + 1] = f /\ stack' # <<>>
      /\ \A j \in 1..p : stack'[j] = stack[j]
  <2>1. /\ Len(stack') = Len(stack) /\ stack' \in Seq(Frame) /\ stack' # <<>>
        /\ stack'[Len(stack)] = f
        /\ \A j \in 1..(Len(stack) - 1) : stack'[j] = stack[j]
    BY <1>1, <1>2, <1>3, <1>7, ReplaceFacts
  <2>. QED BY <1>8, <2>1
<1>10. s \in Brace /\ s.brace = "while" /\ (s.before <=> Reader.live)
  BY <1>2 DEF Brace, LineKind
<1>11. Reader' = [live |-> Reader.live, scopes |-> Append(Reader.scopes, s)]
  <2>1. Reader' = ReadLine(Reader, "while") BY <1>2, <1>3, LineRead DEF LineKind
  <2>2. ReadLine(Reader, "while") = OpenBrace(Reader, "while") BY DEF ReadLine
  <2>. QED BY <2>1, <2>2 DEF OpenBrace, TextInv, ReaderTyped
<1> DEFINE T == IF Reader.live THEN {head} ELSE {}
<1>12. /\ head \notin Reachable /\ blocks + 2 \notin Reachable /\ blocks + 3 \notin Reachable
       /\ ~Ends(code[head])
  BY <1>1, <1>4, NewBlocks
<1>13. T \in SUBSET Block /\ \A t \in T : t > blocks BY <1>4
<1>. HIDE DEF s, p, head
<1>14. Reachable' = Reachable \cup T BY <1>1, <1>2, <1>3, <1>6, <1>12, AddedReached
<1>15. /\ insert' \in Reachable' <=> Reader.live
       /\ head \in Reachable' <=> Reader.live
       /\ blocks + 2 \notin Reachable' /\ blocks + 3 \notin Reachable'
  BY <1>3, <1>4, <1>12, <1>14
<1>. HIDE DEF T
<1>16. Agrees(f, s, Reachable') BY <1>7, <1>10, <1>15 DEF Agrees
<1>17. \A j \in 1..p : Stands(stack[j], Reachable, Reachable')
  <2>1. \A j : OwnOrNew(T, j) BY <1>13 DEF OwnOrNew
  <2>. QED BY <1>8, <1>13, <1>14, <2>1, OthersStand
<1>18. \A j \in 1..Len(stack) : j > p => stack[j].kind = "cond1" BY <1>1, <1>2, <1>8
<1>19. Matched(Reader.live, Append(Reader.scopes, s), stack', Reachable')
  BY <1>2, <1>8, <1>9, <1>10, <1>16, <1>17, <1>18, OpenMatched
<1>20. Append(Reader.scopes, s) \in Seq(Brace) BY <1>2, <1>10, PushFacts
<1>. QED BY <1>2, <1>3, <1>9, <1>11, <1>15, <1>19, <1>20, TextInvIf

(* The end of a branch or of a loop's body.                                *)
LEMMA ClosedReached ==
  ASSUME Careful, BuilderInv, TextInv, stack # <<>>, Top.kind \notin Conditions,
         NEW target \in Block, NEW at \in Location, CloseBranch(target, at),
         UNCHANGED <<function_, entry>>,
         Reader.live => target \in Reachable \/ ~Ends(code[target])
  PROVE  Reachable' = Reachable \cup (IF Reader.live THEN {target} ELSE {})
<1> DEFINE i == Instruction("br", {target}, at)
<1>1. /\ TypeOK /\ (exited_block_ <=> Ends(code[insert]))
      /\ Reader.live <=> insert \in Reachable /\ ~exited_block_
  BY RunFacts
<1>2. CASE exited_block_
  <2>1. code' = code BY <1>2 DEF CloseBranch
  <2>2. Reachable' = Reachable BY <2>1, SameReached
  <2>. QED BY <1>1, <1>2, <2>2
<1>3. CASE ~exited_block_
  <2>1. code' = Emitted(i) BY <1>3 DEF CloseBranch
  <2>2. i \in Instr /\ i.to = {target} /\ i.op \in Terminators
    BY <1>1, EmittedType DEF Instruction, Terminators
  <2>. HIDE DEF i
  <2>. QED BY <1>1, <1>3, <2>1, <2>2, AddedReached
<1>. QED BY <1>2, <1>3

-----------------------------------------------------------------------------
(* A lambda that is not the first run of a condition returns.              *)

LEMMA FrontFacts ==
  ASSUME NEW S, NEW s \in Seq(S), s # <<>>
  PROVE  /\ Front(s) \in Seq(S) /\ Len(Front(s)) = Len(s) - 1
         /\ \A i \in 1..(Len(s) - 1) : Front(s)[i] = s[i]
         /\ Last(s) = s[Len(s)]
  BY PopFacts DEF Front, Last

(* The brace it opened, or that took the place of the one it opened.       *)
LEMMA TopBrace ==
  ASSUME Careful, BuilderInv, TextInv, stack # <<>>, Top.kind # "cond1"
  PROVE  LET s == Last(Reader.scopes) IN
         /\ Reader.scopes # <<>> /\ Len(Reader.scopes) \in Nat \ {0}
         /\ s = Reader.scopes[Len(Reader.scopes)] /\ s \in Brace
         /\ Agrees(Top, s, Reachable)
         /\ Reader.live => s.before
         /\ Top.kind = "cond2" /\ s.before => Reader.live
<1>1. /\ Reader.live \in BOOLEAN /\ Reader.scopes \in Seq(Brace) /\ stack \in Seq(Frame)
      /\ Top = stack[Len(stack)]
      /\ Matched(Reader.live, Reader.scopes, stack, Reachable)
  BY RunFacts
<1> DEFINE live == Reader.live
           scopes == Reader.scopes
<1>2. PICK m \in [1..Len(scopes) -> 1..Len(stack)] : Mirrors(m, live, scopes, stack, Reachable)
  BY <1>1 DEF Matched
<1>3. stack[Len(stack)].kind # "cond1" BY <1>1
<1>4. /\ live \in BOOLEAN /\ scopes \in Seq(Brace) BY <1>1
<1>. HIDE DEF live, scopes
<1>5. /\ Topped(m, scopes, stack)
      /\ scopes[Len(scopes)] \in Brace
      /\ Agrees(stack[Len(stack)], scopes[Len(scopes)], Reachable)
      /\ live => scopes[Len(scopes)].before
      /\ stack[Len(stack)].kind = "cond2" /\ scopes[Len(scopes)].before => live
  BY <1>1, <1>2, <1>3, <1>4, TopMatched
<1>7. Len(scopes) \in Nat \ {0} /\ scopes # <<>> BY <1>5 DEF Topped
<1>6. Last(scopes) = scopes[Len(scopes)] BY <1>4, <1>7, FrontFacts
<1>. QED BY <1>1, <1>5, <1>6, <1>7 DEF live, scopes

LEMMA OwedEmpty ==
  ASSUME BuilderInv, stack # <<>>, NEW b \in Owed(Top)
  PROVE  b \in Block /\ ~Ends(code[b])
<1>1. b \in Block /\ parent[b] = 0 BY TopOwed DEF BuilderInv
<1>2. code[b] = <<>> BY <1>1 DEF BuilderInv, IInv, UnplacedEmpty
<1>3. DOMAIN <<>> = {} OBVIOUS
<1>. QED BY <1>1, <1>2, <1>3 DEF Ends

(* What the innermost lambda owes says nothing of the others.              *)
LEMMA OutersStand ==
  ASSUME BuilderInv, stack # <<>>, NEW R, NEW T \in SUBSET Block, T \subseteq Owed(Top)
  PROVE  \A j \in 1..(Len(stack) - 1) : Stands(stack[j], R, R \cup T)
<1>1. Len(stack) \in Nat \ {0} BY TopFacts DEF BuilderInv, IInv, TypeOK
<1>2. ASSUME NEW j \in 1..(Len(stack) - 1) PROVE Stands(stack[j], R, R \cup T)
  <2>1. j \in 1..Len(stack) /\ j # Len(stack) BY <1>1
  <2>2. OwnOrNew(T, j) BY <2>1 DEF OwnOrNew
  <2>. QED BY <2>1, <2>2, OthersStand
<1>. QED BY <1>2

LEMMA ReturnLocation ==
  ASSUME TypeOK, stack # <<>>
  PROVE  [line |-> line_no_, scope |-> Top.parent_scope] \in Location
<1>1. Top.parent_scope \in Scope
  <2>1. Top \in Frame BY TopFrame
  <2>. QED BY <2>1 DEF Frame
<1>. QED BY <1>1, LineFacts, ScopeFacts

LEMMA ElseText ==
  ASSUME Careful, BuilderInv, TextInv, Else
  PROVE  TextInv'
<1> DEFINE f == [Top EXCEPT !.kind = "else", !.next_block = 0]
           scopes == Reader.scopes
           s == Last(scopes)
           e == [brace |-> "else", before |-> s.before, joined |-> Reader.live]
           others == Append(Front(scopes), e)
           T == IF Reader.live THEN {Top.exit_block} ELSE {}
<1>1. stack # <<>> /\ Top.kind = "then_else" BY DEF Else, Returns
<1>2. /\ TypeOK /\ IInv /\ Reader.live \in BOOLEAN /\ scopes \in Seq(Brace)
      /\ stack \in Seq(Frame) /\ Len(stack) \in Nat \ {0} /\ Top = stack[Len(stack)]
      /\ Matched(Reader.live, scopes, stack, Reachable)
  BY <1>1, RunFacts
<1>3. /\ scopes # <<>> /\ Len(scopes) \in Nat \ {0} /\ s = scopes[Len(scopes)] /\ s \in Brace
      /\ Agrees(Top, s, Reachable)
      /\ Reader.live => s.before
  BY <1>1, TopBrace
<1>4. /\ Top \in Frame /\ Top.next_block \in Owed(Top) /\ Top.exit_block \in Owed(Top)
      /\ Top.next_block # Top.exit_block
  BY <1>1, <1>2, TopOwed
<1>5. f \in Frame /\ f.kind = "else" /\ f.exit_block = Top.exit_block
  <2>1. 0 \in 0..MaxBlocks BY BoundsAssumption
  <2>. QED BY <1>4, <2>1 DEF Frame, FrameKind
<1>6. /\ add_line("else") /\ stack' = [stack EXCEPT ![Len(stack)] = f]
      /\ CloseBranch(Top.exit_block, [line |-> line_no_, scope |-> Top.parent_scope])
      /\ insert' = Top.next_block /\ exited_block_' = FALSE
      /\ UNCHANGED <<function_, entry>>
  BY DEF Else, Replace, PlaceAndInsert, CloseBranch
<1>. HIDE DEF f
<1>7. /\ Len(stack') = Len(stack) /\ stack' \in Seq(Frame) /\ stack' # <<>>
      /\ stack'[Len(stack)] = f
      /\ \A j \in 1..(Len(stack) - 1) : stack'[j] = stack[j]
  BY <1>1, <1>2, <1>5, <1>6, ReplaceFacts
<1>8. e \in Brace BY <1>2, <1>3 DEF Brace, LineKind
<1>9. Reader' = [live |-> s.before, scopes |-> others]
  <2>1. Reader' = ReadLine(Reader, "else") BY <1>2, <1>6, LineRead DEF LineKind
  <2>2. ReadLine(Reader, "else") = ElseBrace(Reader) BY DEF ReadLine
  <2>. QED BY <2>1, <2>2 DEF ElseBrace
<1>10. /\ e.brace = "else" /\ (e.before <=> s.before) /\ (e.joined <=> Reader.live)
       /\ s.before \in BOOLEAN
  BY <1>3 DEF Brace
<1>. HIDE DEF s, e, scopes
<1>11. /\ others \in Seq(Brace) /\ Len(others) = Len(scopes) /\ others[Len(scopes)] = e
       /\ \A k \in 1..(Len(scopes) - 1) : others[k] = scopes[k]
  <2>1. /\ Front(scopes) \in Seq(Brace) /\ Len(Front(scopes)) = Len(scopes) - 1
        /\ \A k \in 1..(Len(scopes) - 1) : Front(scopes)[k] = scopes[k]
    BY <1>2, <1>3, FrontFacts
  <2>2. /\ others \in Seq(Brace) /\ Len(others) = Len(Front(scopes)) + 1
        /\ others[Len(Front(scopes)) + 1] = e
        /\ \A k \in 1..Len(Front(scopes)) : others[k] = Front(scopes)[k]
    BY <1>8, <2>1, PushFacts
  <2>. QED BY <1>3, <2>1, <2>2
<1>. HIDE DEF others
<1>12. /\ Top.next_block \in Reachable <=> s.before
       /\ Top.exit_block \notin Reachable
  BY <1>1, <1>3 DEF Agrees
<1>13. Reachable' = Reachable \cup T
  <2>1. Top.exit_block \in Block /\ ~Ends(code[Top.exit_block]) BY <1>1, <1>4, OwedEmpty
  <2>2. [line |-> line_no_, scope |-> Top.parent_scope] \in Location
    BY <1>1, <1>2, ReturnLocation
  <2>3. Top.kind \notin Conditions BY <1>1 DEF Conditions
  <2>. QED BY <1>1, <1>6, <2>1, <2>2, <2>3, ClosedReached
<1>14. T \in SUBSET Block /\ T \subseteq Owed(Top) BY <1>1, <1>4, OwedEmpty
<1>15. /\ Top.next_block \in Reachable' <=> s.before
       /\ Top.exit_block \in Reachable' <=> Reader.live
  BY <1>4, <1>12, <1>13
<1>. HIDE DEF T
<1>16. Agrees(f, e, Reachable')
  <2>1. f.exit_block \in Reachable' <=> e.joined BY <1>5, <1>10, <1>15
  <2>2. e.joined => e.before BY <1>3, <1>10
  <2>. QED BY <1>5, <1>10, <2>1, <2>2 DEF Agrees
<1>17. Below(Len(stack) - 1, stack, stack', Reachable, Reachable')
  <2>1. \A j \in 1..(Len(stack) - 1) : Stands(stack[j], Reachable, Reachable')
    BY <1>1, <1>13, <1>14, OutersStand
  <2>. QED BY <1>7, <2>1 DEF Below
<1>18. Rebraced(Len(scopes), scopes, others) BY <1>3, <1>10, <1>11 DEF Rebraced
<1>19. Matched(s.before, others, stack', Reachable')
  <2>1. stack[Len(stack)].kind # "cond1" BY <1>1, <1>2
  <2>2. Agrees(stack'[Len(stack)], others[Len(scopes)], Reachable')
        /\ stack'[Len(stack)].kind # "cond2"
    BY <1>5, <1>7, <1>11, <1>16
  <2>3. /\ s.before => scopes[Len(scopes)].before
        /\ Reader.live /\ scopes[Len(scopes)].before => s.before
    BY <1>3
  <2>4. Reader.live \in BOOLEAN /\ s.before \in BOOLEAN BY <1>2, <1>10
  <2>. QED BY <1>1, <1>2, <1>7, <1>11, <1>17, <1>18, <2>1, <2>2, <2>3, <2>4, GoOnMatched
<1>. QED BY <1>6, <1>7, <1>9, <1>10, <1>11, <1>15, <1>19, TextInvIf

(* The statement of the innermost lambda is over, and so is its brace.     *)
LEMMA BraceEnds ==
  ASSUME Careful, BuilderInv, TextInv, stack # <<>>, Top.kind \in {"then", "else", "body"},
         Pop, add_line("end"), exited_block_' = FALSE,
         NEW T \in SUBSET Block, T \subseteq Owed(Top), Reachable' = Reachable \cup T,
         insert' \in Reachable' <=>
           \/ Reader.live
           \/ IF Top.kind = "else" THEN Last(Reader.scopes).joined
              ELSE Last(Reader.scopes).before
  PROVE  TextInv'
<1> DEFINE scopes == Reader.scopes
           s == Last(scopes)
<1>1. /\ TypeOK /\ IInv /\ Reader.live \in BOOLEAN /\ scopes \in Seq(Brace)
      /\ stack \in Seq(Frame) /\ Len(stack) \in Nat \ {0} /\ Top = stack[Len(stack)]
      /\ Matched(Reader.live, scopes, stack, Reachable)
  BY RunFacts
<1>2. /\ scopes # <<>> /\ Len(scopes) \in Nat \ {0} /\ s = scopes[Len(scopes)] /\ s \in Brace
      /\ Agrees(Top, s, Reachable)
      /\ Reader.live => s.before
  BY TopBrace
<1>3. PICK after \in BOOLEAN :
        after <=> (Reader.live \/ IF Top.kind = "else" THEN s.joined ELSE s.before)
  OBVIOUS
<1>4. /\ s.before \in BOOLEAN /\ s.joined \in BOOLEAN BY <1>2 DEF Brace
<1>5. /\ Top.kind = "else" => s.brace = "else" /\ (s.joined => s.before)
      /\ Top.kind # "else" => s.brace \in {"if", "while"}
  BY <1>2 DEF Agrees
<1>6. Reader' = [live |-> after, scopes |-> Front(scopes)]
  <2>1. Reader' = ReadLine(Reader, "end") BY <1>1, LineRead DEF LineKind
  <2>2. ReadLine(Reader, "end") = CloseBrace(Reader) BY DEF ReadLine
  <2>3. CASE Top.kind = "else"
    <3>1. CloseBrace(Reader) = [live |-> Reader.live \/ s.joined, scopes |-> Front(scopes)]
      BY <1>5, <2>3 DEF CloseBrace
    <3>2. after = (Reader.live \/ s.joined) BY <1>1, <1>3, <1>4, <2>3
    <3>. QED BY <2>1, <2>2, <3>1, <3>2
  <2>4. CASE Top.kind # "else"
    <3>1. CloseBrace(Reader) = [live |-> Reader.live \/ s.before, scopes |-> Front(scopes)]
      BY <1>5, <2>4 DEF CloseBrace
    <3>2. after = (Reader.live \/ s.before) BY <1>1, <1>3, <1>4, <2>4
    <3>. QED BY <2>1, <2>2, <3>1, <3>2
  <2>. QED BY <2>3, <2>4
<1>7. (insert' \in Reachable' <=> after) /\ (Reader.live => after) /\ (after => s.before)
  BY <1>2, <1>3, <1>5
<1>. HIDE DEF s, scopes
<1>8. /\ stack' \in Seq(Frame) /\ Len(stack') = Len(stack) - 1
      /\ \A j \in 1..(Len(stack) - 1) : stack'[j] = stack[j]
  BY <1>1, PopFacts DEF Pop, Outer
<1>9. stack' # <<>>
  <2>. SUFFICES ASSUME stack' = <<>> PROVE FALSE OBVIOUS
  <2>1. Len(stack') = 0 OBVIOUS
  <2>2. Len(stack) = 1 /\ 1 \in DOMAIN stack BY <1>1, <1>8, <2>1, TopFacts
  <2>3. Top.kind = "function" BY <1>1, <2>2 DEF IInv, FunctionOutermost, Careful
  <2>. QED BY <2>3
<1>10. Below(Len(stack) - 1, stack, stack', Reachable, Reachable')
  BY <1>8, OutersStand DEF Below
<1>11. Matched(after, Front(scopes), stack', Reachable')
  <2>1. stack[Len(stack)].kind # "cond1" BY <1>1
  <2>2. after => scopes[Len(scopes)].before BY <1>2, <1>7
  <2>3. Reader.live => after BY <1>7
  <2>4. Reader.live \in BOOLEAN BY <1>1
  <2>. QED BY <1>1, <1>8, <1>10, <2>1, <2>2, <2>3, <2>4, CloseMatched
<1>12. Front(scopes) \in Seq(Brace) BY <1>1, <1>2, FrontFacts
<1>13. after <=> insert' \in Reachable' /\ ~exited_block_' BY <1>7
<1>. QED BY <1>6, <1>9, <1>11, <1>12, <1>13, TextInvIf

LEMMA EndIfText ==
  ASSUME Careful, BuilderInv, TextInv, EndIf
  PROVE  TextInv'
<1> DEFINE s == Last(Reader.scopes)
           T == IF Reader.live THEN {Top.exit_block} ELSE {}
<1>1. stack # <<>> /\ Top.kind \in {"then", "else"} BY DEF EndIf, Returns
<1>2. TypeOK /\ IInv BY DEF BuilderInv, IInv
<1>3. Agrees(Top, s, Reachable) BY <1>1, TopBrace
<1>4. Owed(Top) = {Top.exit_block} BY <1>1, <1>2, TopOwed
<1>5. Top.exit_block \in Block /\ ~Ends(code[Top.exit_block]) BY <1>1, <1>4, OwedEmpty
<1>6. /\ add_line("end") /\ Pop /\ insert' = Top.exit_block /\ exited_block_' = FALSE
      /\ CloseBranch(Top.exit_block, [line |-> line_no_, scope |-> Top.parent_scope])
      /\ UNCHANGED <<function_, entry>>
  BY DEF EndIf, PlaceAndInsert, CloseBranch
<1>7. Reachable' = Reachable \cup T
  <2>1. [line |-> line_no_, scope |-> Top.parent_scope] \in Location
    BY <1>1, <1>2, ReturnLocation
  <2>2. Top.kind \notin Conditions BY <1>1 DEF Conditions
  <2>. QED BY <1>1, <1>5, <1>6, <2>1, <2>2, ClosedReached
<1>8. T \in SUBSET Block /\ T \subseteq Owed(Top) BY <1>4, <1>5
<1>9. Top.exit_block \in Reachable <=> IF Top.kind = "else" THEN s.joined ELSE s.before
  BY <1>1, <1>3 DEF Agrees
<1>10. insert' \in Reachable' <=>
         Reader.live \/ IF Top.kind = "else" THEN s.joined ELSE s.before
  BY <1>6, <1>7, <1>9
<1>. HIDE DEF T
<1>. QED BY <1>1, <1>6, <1>7, <1>8, <1>10, BraceEnds

LEMMA EndWhileText ==
  ASSUME Careful, BuilderInv, TextInv, EndWhile
  PROVE  TextInv'
<1> DEFINE s == Last(Reader.scopes)
<1>1. stack # <<>> /\ Top.kind = "body" BY DEF EndWhile, Returns
<1>2. TypeOK /\ IInv BY DEF BuilderInv, IInv
<1>3. /\ Agrees(Top, s, Reachable)
      /\ Reader.live => s.before
  BY <1>1, TopBrace
<1>4. Top.head_block \in Block BY <1>1, <1>2, TopOwed
<1>5. /\ add_line("end") /\ Pop /\ insert' = Top.exit_block /\ exited_block_' = FALSE
      /\ CloseBranch(Top.head_block, [line |-> line_no_, scope |-> Top.parent_scope])
      /\ UNCHANGED <<function_, entry>>
  BY DEF EndWhile, PlaceAndInsert, CloseBranch
<1>6. /\ Top.head_block \in Reachable <=> s.before
      /\ Top.exit_block \in Reachable <=> s.before
  BY <1>1, <1>3 DEF Agrees
<1>7. Reachable' = Reachable \cup {}
  <2>1. [line |-> line_no_, scope |-> Top.parent_scope] \in Location
    BY <1>1, <1>2, ReturnLocation
  <2>2. Top.kind \notin Conditions BY <1>1 DEF Conditions
  <2>3. Reader.live => Top.head_block \in Reachable BY <1>3, <1>6
  <2>4. Reachable' = Reachable \cup (IF Reader.live THEN {Top.head_block} ELSE {})
    BY <1>1, <1>4, <1>5, <2>1, <2>2, <2>3, ClosedReached
  <2>. QED BY <2>3, <2>4
<1>8. {} \in SUBSET Block /\ {} \subseteq Owed(Top) OBVIOUS
<1>9. insert' \in Reachable' <=> Reader.live \/ s.before BY <1>3, <1>5, <1>6, <1>7
<1>. QED BY <1>1, <1>5, <1>7, <1>8, <1>9, BraceEnds

(* The condition is tested: control goes on as it was, past no line.       *)
LEMMA WhileBodyText ==
  ASSUME Careful, BuilderInv, TextInv, WhileBody
  PROVE  TextInv'
<1> DEFINE f == [Top EXCEPT !.kind = "body", !.next_block = 0, !.parent_scope = dbg_scope_]
           i == Instruction("condbr", {Top.next_block, Top.exit_block}, loc)
           scopes == Reader.scopes
           s == Last(scopes)
           T == IF Reader.live THEN {Top.next_block, Top.exit_block} ELSE {}
<1>1. stack # <<>> /\ Top.kind = "cond2" BY DEF WhileBody, Returns
<1>2. /\ TypeOK /\ IInv /\ Reader.live \in BOOLEAN /\ scopes \in Seq(Brace)
      /\ stack \in Seq(Frame) /\ Len(stack) \in Nat \ {0} /\ Top = stack[Len(stack)]
      /\ Matched(Reader.live, scopes, stack, Reachable)
      /\ ~exited_block_ /\ ~Ends(code[insert])
      /\ Reader.live <=> insert \in Reachable
  BY <1>1, RunFacts DEF Conditions
<1>3. /\ scopes # <<>> /\ Len(scopes) \in Nat \ {0} /\ s = scopes[Len(scopes)] /\ s \in Brace
      /\ Agrees(Top, s, Reachable)
      /\ Reader.live <=> s.before
  <2>1. /\ scopes # <<>> /\ Len(scopes) \in Nat \ {0} /\ s = scopes[Len(scopes)] /\ s \in Brace
        /\ Agrees(Top, s, Reachable)
        /\ Reader.live => s.before
        /\ s.before => Reader.live
    BY <1>1, TopBrace
  <2>. QED BY <2>1
<1>4. /\ Top \in Frame /\ Top.next_block \in Owed(Top) /\ Top.exit_block \in Owed(Top)
  BY <1>1, <1>2, TopOwed
<1>5. /\ f \in Frame /\ f.kind = "body" /\ f.exit_block = Top.exit_block
      /\ f.head_block = Top.head_block
  <2>1. 0 \in 0..MaxBlocks BY BoundsAssumption
  <2>. QED BY <1>2, <1>4, <2>1 DEF Frame, FrameKind, TypeOK
<1>6. /\ stack' = [stack EXCEPT ![Len(stack)] = f] /\ code' = Emitted(i)
      /\ insert' = Top.next_block
      /\ UNCHANGED <<function_, entry, exited_block_, source_code_>>
  BY <1>2 DEF WhileBody, Replace, PlaceAndInsert
<1>7. /\ Top.next_block \in Block /\ ~Ends(code[Top.next_block])
      /\ Top.exit_block \in Block /\ ~Ends(code[Top.exit_block])
  BY <1>1, <1>4, OwedEmpty
<1>8. i \in Instr /\ i.to = {Top.next_block, Top.exit_block} /\ i.op \in Terminators
  <2>1. {Top.next_block, Top.exit_block} \in SUBSET Block /\ loc \in Location
    BY <1>2, <1>7 DEF TypeOK
  <2>. QED BY <1>2, <2>1, EmittedType DEF Instruction, Terminators
<1>. HIDE DEF f, i, s
<1>9. /\ Len(stack') = Len(stack) /\ stack' \in Seq(Frame) /\ stack' # <<>>
      /\ stack'[Len(stack)] = f
      /\ \A j \in 1..(Len(stack) - 1) : stack'[j] = stack[j]
  BY <1>1, <1>2, <1>5, <1>6, ReplaceFacts
<1>10. Reader' = [live |-> Reader.live, scopes |-> scopes]
  BY <1>6 DEF TextInv, ReaderTyped, Reader
<1>11. Reachable' = Reachable \cup T
  <2>1. insert \in Reachable => \A t \in i.to : t \in Reachable \/ ~Ends(code[t])
    BY <1>7, <1>8
  <2>2. UNCHANGED <<function_, entry>> BY <1>6
  <2>. QED BY <1>1, <1>2, <1>6, <1>8, <2>1, <2>2, AddedReached
<1>12. T \in SUBSET Block /\ T \subseteq Owed(Top) BY <1>4, <1>7
<1>13. /\ s.brace = "while"
       /\ Top.head_block \in Reachable <=> s.before
       /\ Top.next_block \notin Reachable /\ Top.exit_block \notin Reachable
  BY <1>1, <1>3 DEF Agrees
<1>14. /\ Top.head_block \in Reachable' <=> s.before
       /\ Top.next_block \in Reachable' <=> Reader.live
       /\ Top.exit_block \in Reachable' <=> s.before
  BY <1>3, <1>11, <1>13
<1>. HIDE DEF T, scopes
<1>15. Agrees(f, s, Reachable') BY <1>5, <1>13, <1>14 DEF Agrees
<1>16. Below(Len(stack) - 1, stack, stack', Reachable, Reachable')
  <2>1. \A j \in 1..(Len(stack) - 1) : Stands(stack[j], Reachable, Reachable')
    BY <1>1, <1>11, <1>12, OutersStand
  <2>. QED BY <1>9, <2>1 DEF Below
<1>17. Rebraced(Len(scopes), scopes, scopes) BY DEF Rebraced
<1>18. Matched(Reader.live, scopes, stack', Reachable')
  <2>1. stack[Len(stack)].kind # "cond1" BY <1>1, <1>2
  <2>2. Agrees(stack'[Len(stack)], scopes[Len(scopes)], Reachable')
        /\ stack'[Len(stack)].kind # "cond2"
    BY <1>3, <1>5, <1>9, <1>15
  <2>3. Reader.live => scopes[Len(scopes)].before BY <1>3
  <2>4. Reader.live /\ scopes[Len(scopes)].before => Reader.live OBVIOUS
  <2>. QED BY <1>1, <1>2, <1>9, <1>16, <1>17, <2>1, <2>2, <2>3, <2>4, GoOnMatched
<1>. QED BY <1>2, <1>6, <1>9, <1>10, <1>14, <1>18, TextInvIf

-----------------------------------------------------------------------------
(* A function begins and ends.                                             *)

LEMMA CreateFunctionText ==
  ASSUME Careful, BuilderInv, TextInv, CreateFunction
  PROVE  TextInv'
<1> DEFINE e == blocks + 1
           s == [brace |-> "function", before |-> TRUE, joined |-> FALSE]
<1>1. stack = <<>> BY DEF CreateFunction, Careful
<1>2. TypeOK /\ IInv /\ blocks \in Nat BY BoundsAssumption DEF BuilderInv, IInv, TypeOK
<1>3. PICK fn \in Function :
        /\ function_' = fn /\ entry' = [entry EXCEPT ![fn] = e]
        /\ Push([NewFrame("function") EXCEPT !.fn = fn])
  BY DEF CreateFunction, FunctionToFill
<1> DEFINE f == [NewFrame("function") EXCEPT !.fn = fn]
<1>4. f \in Frame /\ f.kind = "function"
  <2>1. NewFrame("function") \in Frame BY <1>2, NewFrameType DEF FrameKind
  <2>2. fn \in 0..MaxFunctions BY BoundsAssumption DEF Function
  <2>. QED BY <2>1, <2>2 DEF Frame, NewFrame
<1>5. /\ insert' = e /\ exited_block_' = FALSE /\ stack' = Append(<<>>, f)
      /\ add_line("function") /\ UNCHANGED code
  BY <1>1, <1>3 DEF CreateFunction, Push
<1>6. e \in Block /\ e > blocks BY <1>2, BoundsAssumption DEF CreateFunction, Block
<1>. HIDE DEF e, f
<1>7. Reader.live \in BOOLEAN /\ Reader.scopes = <<>>
  BY <1>1, NothingMatched DEF TextInv, ReaderTyped
<1>8. Reader' = [live |-> TRUE, scopes |-> Append(<<>>, s)]
  <2>1. Reader' = ReadLine(Reader, "function") BY <1>2, <1>5, LineRead DEF LineKind
  <2>2. ReadLine(Reader, "function") = OpenBrace([Reader EXCEPT !.live = TRUE], "function")
    BY DEF ReadLine
  <2>3. [Reader EXCEPT !.live = TRUE] = [live |-> TRUE, scopes |-> Reader.scopes]
    <3>1. \A v \in BOOLEAN :
            [Reader EXCEPT !.live = v] = [live |-> v, scopes |-> Reader.scopes]
      BY DEF TextInv, ReaderTyped
    <3>. QED BY <3>1
  <2>. QED BY <2>1, <2>2, <2>3, <1>7 DEF OpenBrace
<1>9. Reachable' = {e}
  <2>1. function_' # 0 /\ entry'[function_'] = e
    BY <1>2, <1>3 DEF Function, TypeOK
  <2>2. Successors' = Successors BY <1>5 DEF Successors
  <2>3. Reachable' = ReachedIn(Successors, e) BY <2>1, <2>2 DEF Reachable
  <2>4. parent[e] = 0 BY <1>2, <1>6 DEF IInv, UncreatedUnplaced
  <2>5. code[e] = <<>> BY <1>2, <1>6, <2>4 DEF IInv, UnplacedEmpty
  <2>6. DOMAIN <<>> = {} OBVIOUS
  <2>7. ~Ends(code[e]) BY <2>5, <2>6 DEF Ends
  <2>8. Successors \in Graph /\ Successors[e] = {} BY <1>6, <2>7, BuilderFacts
  <2>. QED BY <1>6, <2>3, <2>8, ReachedAlone
<1>10. s \in Brace /\ Agrees(f, s, Reachable') /\ (s.before <=> TRUE)
  BY <1>4 DEF Brace, LineKind, Agrees
<1>. HIDE DEF s
<1>11. /\ <<>> \in Seq(Brace) /\ <<>> \in Seq(Frame) /\ Len(<<>>) = 0 /\ 1..0 = {} /\ 0 \in Nat
  OBVIOUS
<1>12. /\ stack' \in Seq(Frame) /\ Len(stack') = 0 + 1 /\ stack'[0 + 1] = f /\ stack' # <<>>
       /\ Append(<<>>, s) \in Seq(Brace)
  BY <1>4, <1>5, <1>10, <1>11, PushFacts
<1>13. Matched(TRUE, <<>>, <<>>, Reachable) BY <1>11, NothingMatched
<1>14. Matched(TRUE, Append(<<>>, s), stack', Reachable')
  <2>1. 0 <= Len(<<>>) /\ TRUE \in BOOLEAN BY <1>11
  <2>2. Agrees(stack'[0 + 1], s, Reachable') BY <1>10, <1>12
  <2>. QED BY <1>10, <1>11, <1>12, <1>13, <2>1, <2>2, OpenMatched
<1>. QED BY <1>5, <1>8, <1>9, <1>12, <1>14, TextInvIf

LEMMA EndFunctionText ==
  ASSUME Careful, BuilderInv, TextInv, EndFunction
  PROVE  TextInv'
<1> DEFINE scopes == Reader.scopes
           s == Last(scopes)
<1>1. stack # <<>> /\ Top.kind = "function" BY DEF EndFunction, Returns
<1>2. /\ TypeOK /\ IInv /\ Reader.live \in BOOLEAN /\ scopes \in Seq(Brace)
      /\ stack \in Seq(Frame) /\ Top = stack[Len(stack)]
      /\ Matched(Reader.live, scopes, stack, Reachable)
      /\ Reader.live <=> insert \in Reachable /\ ~exited_block_
      /\ exited_block_ <=> Ends(code[insert])
      /\ function_ \in Function /\ entry[function_] \in Block
  BY <1>1, RunFacts
<1>3. /\ scopes # <<>> /\ s = scopes[Len(scopes)] /\ Agrees(Top, s, Reachable)
      /\ Reader.live => s.before
  BY <1>1, TopBrace
<1>4. Len(stack) = 1 /\ Outer = <<>> BY <1>1, <1>2, OutermostAlone DEF IInv, Careful
<1>5. /\ add_line("end") /\ stack' = <<>>
      /\ UNCHANGED <<function_, entry, code, parent, insert, exited_block_>>
  BY <1>4 DEF EndFunction, Pop
<1>6. Reachable' = Reachable BY <1>5 DEF Reachable, Successors
<1>7. Reader' = [live |-> FALSE, scopes |-> Front(scopes)]
  <2>1. Reader' = ReadLine(Reader, "end") BY <1>2, <1>5, LineRead DEF LineKind
  <2>2. ReadLine(Reader, "end") = CloseBrace(Reader) BY DEF ReadLine
  <2>3. s.brace = "function" BY <1>1, <1>3 DEF Agrees
  <2>. QED BY <2>1, <2>2, <2>3 DEF CloseBrace
<1>. HIDE DEF s, scopes
<1>8. Front(scopes) \in Seq(Brace) BY <1>2, <1>3, FrontFacts
<1>9. Front(scopes) = <<>>
  <2>1. Matched(Reader.live, Front(scopes), <<>>, Reachable)
    <3>1. <<>> \in Seq(Frame) /\ Len(<<>>) = Len(stack) - 1 BY <1>4
    <3>2. 1..(Len(stack) - 1) = {} BY <1>4
    <3>3. stack[Len(stack)].kind # "cond1" BY <1>1, <1>2
    <3>4. Reader.live => Reader.live OBVIOUS
    <3>5. Reader.live => scopes[Len(scopes)].before BY <1>3
    <3>6. Below(Len(stack) - 1, stack, <<>>, Reachable, Reachable) BY <3>2 DEF Below
    <3>. QED BY <1>1, <1>2, <3>1, <3>3, <3>4, <3>5, <3>6, CloseMatched
  <2>. QED BY <1>2, <1>8, <2>1, NothingMatched
<1>10. ReaderTyped' /\ Reader'.live = FALSE /\ Reader'.scopes = <<>>
  BY <1>7, <1>8, <1>9 DEF ReaderTyped
<1>11. Matched(Reader.live, Reader.scopes, stack, Reachable)'
  <2>1. Matched(FALSE, <<>>, <<>>, Reachable')
    <3>1. FALSE \in BOOLEAN /\ <<>> \in Seq(Brace) OBVIOUS
    <3>. QED BY <3>1, NothingMatched
  <2>. QED BY <1>5, <1>10, <2>1
<1>12. Front(source_code_') = source_code_
  <2>1. source_code_ \in Seq(LineKind) /\ source_code_' = Append(source_code_, "end")
    BY <1>2, <1>5 DEF TypeOK, add_line
  <2>2. /\ source_code_' \in Seq(LineKind) /\ source_code_' # <<>>
        /\ Len(source_code_') = Len(source_code_) + 1 /\ Len(source_code_) \in Nat
        /\ \A j \in 1..Len(source_code_) : source_code_'[j] = source_code_[j]
    BY <2>1, PushFacts DEF LineKind
  <2>3. /\ Front(source_code_') \in Seq(LineKind)
        /\ Len(Front(source_code_')) = Len(source_code_)
        /\ \A j \in 1..Len(source_code_) : Front(source_code_')[j] = source_code_'[j]
    BY <2>2, FrontFacts
  <2>. QED BY <2>1, <2>2, <2>3, SeqEqual
<1>13. Finished'
  <2>1. ReaderOf(Front(source_code_')).live <=> insert' \in Reachable' /\ ~exited_block_'
    BY <1>2, <1>5, <1>6, <1>12 DEF Reader
  <2>2. exited_block_' => HasTerminator(insert)'
    BY <1>2, <1>5 DEF HasTerminator, Ends
  <2>3. parent[entry[function_]] = function_
    BY <1>1 DEF BuilderInv, OneFunctionAtATime, Careful
  <2>. QED BY <1>2, <1>5, <2>1, <2>2, <2>3 DEF Finished
<1>14. TextAgreesOnReachability' BY <1>5 DEF TextAgreesOnReachability
<1>. QED BY <1>10, <1>11, <1>13, <1>14 DEF TextInv

-----------------------------------------------------------------------------
(* The theorems.                                                           *)

LEMMA TextInitially == Init => TextInv
<1>. SUFFICES ASSUME Init PROVE TextInv OBVIOUS
<1>1. stack = <<>> /\ source_code_ = <<>> BY DEF Init
<1>2. Reader = Unread BY <1>1, ReadNothing DEF Reader
<1>3. ReaderTyped BY <1>2 DEF ReaderTyped, Unread
<1>4. <<>> \in Seq(Brace) OBVIOUS
<1>5. Matched(FALSE, <<>>, <<>>, Reachable) BY <1>4, NothingMatched
<1>6. Matched(Reader.live, Reader.scopes, stack, Reachable) BY <1>1, <1>2, <1>5 DEF Unread
<1>. QED BY <1>1, <1>3, <1>6 DEF TextInv, TextAgreesOnReachability, Finished

LEMMA TextStep ==
  ASSUME Careful
  PROVE  BuilderInv /\ TextInv /\ [Next]_vars => TextInv'
<1>. SUFFICES ASSUME BuilderInv, TextInv, [Next]_vars PROVE TextInv' OBVIOUS
<1>1. CASE CreateFunction BY <1>1, CreateFunctionText
<1>2. CASE EndFunction BY <1>2, EndFunctionText
<1>3. CASE Statement \/ VariableGet BY <1>3, StatementText
<1>4. CASE VariableDecl BY <1>4, VariableDeclText
<1>5. CASE Return \/ Break \/ Continue BY <1>5, ExitsText
<1>6. CASE IfElse \/ IfOnly BY <1>6, IfText
<1>7. CASE Else BY <1>7, ElseText
<1>8. CASE EndIf BY <1>8, EndIfText
<1>9. CASE WhileBegin BY <1>9, WhileBeginText
<1>10. CASE WhileTest BY <1>10, WhileTestText
<1>11. CASE WhileBody BY <1>11, WhileBodyText
<1>12. CASE EndWhile BY <1>12, EndWhileText
<1>13. CASE UNCHANGED vars BY <1>13, AbortText
<1>. QED BY <1>1, <1>2, <1>3, <1>4, <1>5, <1>6, <1>7, <1>8, <1>9, <1>10, <1>11, <1>12, <1>13
         DEF Next

LEMMA BuilderAlways ==
  ASSUME Careful
  PROVE  Spec => []BuilderInv
<1>1. "nested_function" \notin Liberties /\ Disciplined BY DEF Careful, Disciplined
<1>2. Spec => []IInv BY Invariance
<1>3. Spec => []NoCodeAfterTerminator BY <1>1, TerminatorsAreLast
<1>4. Spec => []OneFunctionAtATime BY OneFunction
<1>5. Spec => []TargetInv BY <1>1, TargetsAlways
<1>6. IInv /\ NoCodeAfterTerminator /\ OneFunctionAtATime /\ TargetInv => BuilderInv
  BY DEF BuilderInv, TargetInv
<1>. QED BY <1>2, <1>3, <1>4, <1>5, <1>6, PTL

LEMMA TextAlways ==
  ASSUME Careful
  PROVE  Spec => [](BuilderInv /\ TextInv)
<1>1. Spec => []BuilderInv BY BuilderAlways
<1>2. BuilderInv /\ TextInv /\ [Next]_vars => TextInv' BY TextStep
<1>. QED BY <1>1, <1>2, TextInitially, PTL DEF Spec

(* What a reader of the text written so far takes for live is what control *)
(* reaches in the graph the same calls built, at every moment a lambda of  *)
(* if_, while_ or create_function runs, for any number of functions,       *)
(* blocks and lines and any depth of nesting: what is emitted next can run *)
(* exactly when the text says so.                                          *)
THEOREM TextTellsReachability ==
  ASSUME Careful
  PROVE  Spec => []TextAgreesOnReachability
<1>1. TextInv => TextAgreesOnReachability BY DEF TextInv
<1>. QED BY <1>1, TextAlways, PTL

LEMMA NothingFallsIf ==
  ASSUME BuilderInv, TextInv
  PROVE  NothingFallsOffTheEnd
<1>. SUFFICES ASSUME stack = <<>>, source_code_ # <<>>, ~ReaderOf(Front(source_code_)).live,
                     NEW b \in Reachable
              PROVE  HasTerminator(b)
  BY DEF NothingFallsOffTheEnd
<1> DEFINE e == entry[function_]
           T == {c \in Block : parent[c] = function_}
<1>1. /\ insert \notin Reachable \/ exited_block_
      /\ exited_block_ => HasTerminator(insert)
      /\ function_ \in Function /\ e \in Block /\ parent[e] = function_
  BY DEF TextInv, Finished
<1>2. Debts = {}
  <2>1. DOMAIN stack = {} OBVIOUS
  <2>. QED BY <2>1 DEF Debts
<1>3. ASSUME NEW c \in T PROVE Successors[c] \subseteq T
  <2>1. CASE Successors[c] = {} BY <2>1
  <2>2. CASE Successors[c] # {}
    <3>1. PICK i \in DOMAIN code[c] : Successors[c] = code[c][i].to BY <2>2, BuilderFacts
    <3>2. \A t \in Successors[c] : parent[t] = parent[c]
      BY <1>2, <3>1 DEF BuilderInv, TargetsKnown
    <3>3. Successors[c] \subseteq Block BY BuilderFacts DEF Graph
    <3>. QED BY <3>2, <3>3
  <2>. QED BY <2>1, <2>2
<1>4. Reachable \subseteq T
  <2>1. function_ # 0 BY <1>1 DEF Function
  <2>2. Reachable = ReachedIn(Successors, e) BY <2>1 DEF Reachable
  <2>3. e \in T /\ T \in SUBSET Block BY <1>1
  <2>4. Successors \in Graph BY BuilderFacts
  <2>. HIDE DEF T, e
  <2>5. e \in Block BY <1>1
  <2>. QED BY <1>3, <2>2, <2>3, <2>4, <2>5, ReachedLeast
<1>5. b \in Block /\ parent[b] = function_ /\ function_ # 0 BY <1>1, <1>4 DEF Function
<1>6. b # insert => HasTerminator(b)
  BY <1>5 DEF BuilderInv, IInv, OnlyInsertionBlockOpen
<1>. QED BY <1>1, <1>6

(* A function whose text ends in no live line has no reachable block       *)
(* without a terminator: after return_ on every path, or a while_ left by  *)
(* none, the merge and break blocks if_ and while_ leave empty are dead.   *)
THEOREM NothingFallsOff ==
  ASSUME Careful
  PROVE  Spec => []NothingFallsOffTheEnd
<1>1. BuilderInv /\ TextInv => NothingFallsOffTheEnd BY NothingFallsIf
<1>. QED BY <1>1, TextAlways, PTL

-----------------------------------------------------------------------------
(* What the text tells whatever the client does.  Code after an exit gives *)
(* blocks that no line shows, and a function inside a lambda takes the     *)
(* rest of the outer one: text and graph need not agree, and a running     *)
(* lambda's brace bounds what is reached, where equality held above.       *)

-----------------------------------------------------------------------------
(* Blocks that code was added to after they were left: control leaves them *)
(* at their first terminator.                                              *)

LEMMA FirstExit ==
  ASSUME NEW c \in Seq(Instr), NEW k \in DOMAIN c, c[k].op \in Terminators,
         \A j \in DOMAIN c : j < k => c[j].op \notin Terminators
  PROVE  Ends(c) /\ Targets(c) = c[k].to
<1> DEFINE exits == {i \in DOMAIN c : c[i].op \in Terminators}
<1>1. \A i \in DOMAIN c : i \in Nat BY LenProperties
<1>2. k \in exits /\ \A j \in exits : k <= j BY <1>1
<1>3. \A i \in exits : (\A j \in exits : i <= j) => i = k
  <2>1. \A i \in exits : i \in Nat /\ k \in Nat BY <1>1
  <2>. HIDE DEF exits
  <2>. QED BY <1>2, <2>1
<1>4. (CHOOSE i \in exits : \A j \in exits : i <= j) = k BY <1>2, <1>3
<1>5. exits # {} BY <1>2
<1>. QED BY <1>2, <1>4, <1>5 DEF Targets, Ends

LEMMA ExitExists ==
  ASSUME NEW c \in Seq(Instr), Ends(c)
  PROVE  \E k \in DOMAIN c : /\ c[k].op \in Terminators /\ Targets(c) = c[k].to
                             /\ \A j \in DOMAIN c : j < k => c[j].op \notin Terminators
<1> DEFINE exits == {i \in DOMAIN c : c[i].op \in Terminators}
<1>1. \A i \in DOMAIN c : i \in Nat BY LenProperties
<1>2. exits # {} /\ exits \subseteq Nat BY <1>1 DEF Ends
<1>. HIDE DEF exits
<1>3. PICK k \in exits : \A j \in exits : k <= j BY <1>2, LeastNatural
<1>4. k \in DOMAIN c /\ c[k].op \in Terminators BY <1>3 DEF exits
<1>5. ASSUME NEW j \in DOMAIN c, j < k PROVE c[j].op \notin Terminators
  <2>1. j \in Nat /\ k \in Nat /\ ~(k <= j) BY <1>1, <1>4, <1>5
  <2>. QED BY <1>3, <2>1 DEF exits
<1>. QED BY <1>4, <1>5, FirstExit

LEMMA TargetsKnownTo ==
  ASSUME NEW c \in Seq(Instr)
  PROVE  /\ Targets(c) \subseteq Block
         /\ \A t \in Targets(c) : \E k \in DOMAIN c : t \in c[k].to
<1>1. CASE ~Ends(c) BY <1>1, NoTargets
<1>2. CASE Ends(c)
  <2>1. PICK k \in DOMAIN c : Targets(c) = c[k].to BY <1>2, ExitExists
  <2>2. c[k] \in Instr BY ElementOfSeq, LenProperties
  <2>. QED BY <2>1, <2>2 DEF Instr
<1>. QED BY <1>1, <1>2

LEMMA TargetsGrow ==
  ASSUME NEW c \in Seq(Instr), NEW i \in Instr
  PROVE  Targets(Append(c, i)) =
           IF ~Ends(c) /\ i.op \in Terminators THEN i.to ELSE Targets(c)
<1> DEFINE d == Append(c, i)
<1>1. CASE ~Ends(c)
  <2>1. Targets(d) = IF i.op \in Terminators THEN i.to ELSE {} BY <1>1, TargetsAppend
  <2>. QED BY <1>1, <2>1, NoTargets
<1>2. CASE Ends(c)
  <2>1. PICK k \in DOMAIN c : /\ c[k].op \in Terminators /\ Targets(c) = c[k].to
                              /\ \A j \in DOMAIN c : j < k => c[j].op \notin Terminators
    BY <1>2, ExitExists
  <2>2. /\ d \in Seq(Instr) /\ DOMAIN d = 1..(Len(c) + 1) /\ DOMAIN c = 1..Len(c)
        /\ Len(c) \in Nat /\ \A j \in 1..Len(c) : d[j] = c[j]
    BY PushFacts
  <2>. HIDE DEF d
  <2>3. k \in DOMAIN d /\ \A j \in DOMAIN d : j < k => j \in DOMAIN c BY <2>2
  <2>4. Targets(d) = d[k].to BY <2>1, <2>2, <2>3, FirstExit
  <2>. QED BY <1>2, <2>1, <2>2, <2>4 DEF d
<1>. QED BY <1>1, <1>2

LEMMA TargetsBehind ==
  ASSUME NEW c \in Seq(Instr), NEW a \in Instr, a.op \notin Terminators
  PROVE  Targets(<<a>> \o c) = Targets(c)
<1> DEFINE d == <<a>> \o c
<1>1. <<a>> \in Seq(Instr) /\ Len(<<a>>) = 1 /\ <<a>>[1] = a OBVIOUS
<1>2. /\ d \in Seq(Instr) /\ Len(d) = 1 + Len(c)
      /\ \A j \in 1..(1 + Len(c)) : d[j] = IF j <= 1 THEN <<a>>[j] ELSE c[j - 1]
  BY <1>1, ConcatProperties
<1>3. /\ DOMAIN d = 1..(1 + Len(c)) /\ DOMAIN c = 1..Len(c) /\ Len(c) \in Nat
      /\ Ends(d) <=> Ends(c)
  BY <1>2, LenProperties, EndsPrepend
<1>. HIDE DEF d
<1>4. CASE ~Ends(c) BY <1>3, <1>4, NoTargets DEF d
<1>5. CASE Ends(c)
  <2>1. PICK k \in DOMAIN c : /\ c[k].op \in Terminators /\ Targets(c) = c[k].to
                              /\ \A j \in DOMAIN c : j < k => c[j].op \notin Terminators
    BY <1>5, ExitExists
  <2>2. /\ k \in Nat /\ k + 1 \in DOMAIN d /\ (k + 1) - 1 = k /\ ~(k + 1 <= 1)
    BY <1>3, <2>1
  <2>3. d[k + 1] = c[k] BY <1>2, <1>3, <2>2
  <2>4. ASSUME NEW j \in DOMAIN d, j < k + 1 PROVE d[j].op \notin Terminators
    <3>1. CASE j <= 1
      <4>1. j = 1 BY <1>3, <3>1
      <4>. QED BY <1>1, <1>2, <1>3, <4>1
    <3>2. CASE ~(j <= 1)
      <4>1. j - 1 \in DOMAIN c /\ j - 1 < k BY <1>3, <2>2, <2>4, <3>2
      <4>2. d[j] = c[j - 1] BY <1>2, <1>3, <3>2
      <4>. QED BY <2>1, <4>1, <4>2
    <3>. QED BY <3>1, <3>2
  <2>5. Targets(d) = d[k + 1].to BY <1>2, <2>1, <2>2, <2>3, <2>4, FirstExit
  <2>. QED BY <2>1, <2>3, <2>5 DEF d
<1>. QED BY <1>4, <1>5
-----------------------------------------------------------------------------
(* The text against the running lambdas, whatever the client does.  g      *)
(* tells which brace each lambda is in: its own, or, for a while_'s first  *)
(* run of the condition, the one it stands in.                             *)

Aligned(d, n, frames) ==
  /\ d \in [1..Len(frames) -> 1..n]
  /\ frames # <<>> => d[Len(frames)] = n
  /\ \A i, j \in 1..Len(frames) : i < j =>
       d[i] <= d[j] /\ (frames[j].kind # "cond1" => d[i] < d[j])
  /\ \A i, j \in 1..Len(frames) : j = i + 1 =>
       d[j] = IF frames[j].kind = "cond1" THEN d[i] ELSE d[i] + 1

Tells(g, scopes, frames) ==
  \E d \in [1..Len(frames) -> 1..Len(scopes)] :
    Aligned(d, Len(scopes), frames) /\ g = [i \in 1..Len(frames) |-> scopes[d[i]]]

LEMMA TellsBraces ==
  ASSUME NEW scopes \in Seq(Brace), NEW frames \in Seq(Frame), NEW g,
         Tells(g, scopes, frames)
  PROVE  g \in [1..Len(frames) -> Brace]
<1>1. PICK d \in [1..Len(frames) -> 1..Len(scopes)] :
        g = [i \in 1..Len(frames) |-> scopes[d[i]]]
  BY DEF Tells
<1>2. \A k \in 1..Len(scopes) : scopes[k] \in Brace BY ElementOfSeq
<1>. QED BY <1>1, <1>2

(* A lambda starts and opens a brace, in the place of a while_'s first run *)
(* of the condition if there is one.                                       *)
LEMMA TellsOpen ==
  ASSUME NEW scopes \in Seq(Brace), NEW frames \in Seq(Frame), NEW g,
         Tells(g, scopes, frames),
         NEW new \in Seq(Frame), NEW q \in Nat, Len(new) = q + 1,
         \/ q = Len(frames)
         \/ q + 1 = Len(frames) /\ q # 0 /\ frames[q + 1].kind = "cond1",
         \A i \in 1..q : new[i] = frames[i], new[q + 1].kind # "cond1", NEW s \in Brace,
         NEW h, h = [i \in 1..(q + 1) |-> IF i = q + 1 THEN s ELSE g[i]]
  PROVE  Tells(h, Append(scopes, s), new)
<1> DEFINE n == Len(scopes)
           more == Append(scopes, s)
<1>1. PICK d \in [1..Len(frames) -> 1..n] :
        Aligned(d, n, frames) /\ g = [i \in 1..Len(frames) |-> scopes[d[i]]]
  BY DEF Tells
<1>2. n \in Nat /\ Len(frames) \in Nat BY LenProperties
<1>3. /\ Len(more) = n + 1 /\ more[n + 1] = s /\ \A k \in 1..n : more[k] = scopes[k]
  BY PushFacts
<1>. HIDE DEF n, more
<1>4. /\ \A i \in 1..q : i \in 1..Len(frames) /\ i # q + 1 /\ i \in 1..(q + 1)
      /\ \A i \in 1..(q + 1) : i = q + 1 \/ i \in 1..q
  BY <1>2
<1>5. /\ frames # <<>> => d[Len(frames)] = n
      /\ \A i, j \in 1..Len(frames) : i < j =>
           d[i] <= d[j] /\ (frames[j].kind # "cond1" => d[i] < d[j])
      /\ \A i, j \in 1..Len(frames) : j = i + 1 =>
           d[j] = IF frames[j].kind = "cond1" THEN d[i] ELSE d[i] + 1
  BY <1>1 DEF Aligned
<1>6. q # 0 => d[q] = n
  <2>. SUFFICES ASSUME q # 0 PROVE d[q] = n OBVIOUS
  <2>1. Len(frames) # 0 BY <1>2
  <2>2. frames # <<>> BY <2>1, EmptySeq
  <2>3. CASE q = Len(frames) BY <1>5, <2>2, <2>3
  <2>4. CASE q + 1 = Len(frames) /\ frames[q + 1].kind = "cond1"
    <3>1. q \in 1..Len(frames) /\ q + 1 \in 1..Len(frames) BY <2>4
    <3>2. d[q + 1] = d[q] BY <1>5, <2>4, <3>1
    <3>. QED BY <1>5, <2>2, <2>4, <3>2
  <2>. QED BY <2>3, <2>4
<1> DEFINE w == [i \in 1..(q + 1) |-> IF i = q + 1 THEN n + 1 ELSE d[i]]
<1>7. /\ w \in [1..(q + 1) -> 1..(n + 1)] /\ w[q + 1] = n + 1
      /\ \A i \in 1..q : w[i] = d[i] /\ w[i] \in 1..n
  <2>1. n + 1 \in 1..(n + 1) /\ \A k \in 1..n : k \in 1..(n + 1) BY <1>2
  <2>2. \A i \in 1..q : d[i] \in 1..n BY <1>4
  <2>3. q + 1 \in 1..(q + 1) OBVIOUS
  <2>. QED BY <1>4, <2>1, <2>2, <2>3
<1>. HIDE DEF w
<1>8. ASSUME NEW i \in 1..(q + 1), NEW j \in 1..(q + 1), i < j
      PROVE  w[i] <= w[j] /\ (new[j].kind # "cond1" => w[i] < w[j])
  <2>1. i \in 1..q BY <1>8
  <2>2. CASE j \in 1..q
    <3>1. d[i] <= d[j] /\ (frames[j].kind # "cond1" => d[i] < d[j])
      BY <1>4, <1>5, <1>8, <2>1, <2>2
    <3>2. w[j] = d[j] /\ w[i] = d[i] /\ new[j] = frames[j] BY <1>7, <2>1, <2>2
    <3>. QED BY <3>1, <3>2
  <2>3. CASE j = q + 1
    <3>1. w[i] \in 1..n /\ w[j] = n + 1 BY <1>7, <2>1, <2>3
    <3>2. \A k \in 1..n : k <= n + 1 /\ k < n + 1 BY <1>2
    <3>. QED BY <3>1, <3>2
  <2>. QED BY <1>4, <2>2, <2>3
<1>9. ASSUME NEW i \in 1..(q + 1), NEW j \in 1..(q + 1), j = i + 1
      PROVE  w[j] = IF new[j].kind = "cond1" THEN w[i] ELSE w[i] + 1
  <2>1. i \in 1..q BY <1>9
  <2>2. CASE j \in 1..q
    <3>1. d[j] = IF frames[j].kind = "cond1" THEN d[i] ELSE d[i] + 1
      BY <1>4, <1>5, <1>9, <2>1, <2>2
    <3>2. w[j] = d[j] /\ w[i] = d[i] /\ new[j] = frames[j] BY <1>7, <2>1, <2>2
    <3>. QED BY <3>1, <3>2
  <2>3. CASE j = q + 1
    <3>1. i = q /\ q # 0 BY <1>9, <2>1, <2>3
    <3>. QED BY <1>6, <1>7, <2>1, <2>3, <3>1
  <2>. QED BY <1>4, <2>2, <2>3
<1>10. Aligned(w, n + 1, new) BY <1>7, <1>8, <1>9 DEF Aligned
<1>11. h = [i \in 1..(q + 1) |-> more[w[i]]]
  <2>1. \A i \in 1..q : g[i] = scopes[d[i]] BY <1>1, <1>4
  <2>2. \A i \in 1..(q + 1) : (IF i = q + 1 THEN s ELSE g[i]) = more[w[i]]
    BY <1>3, <1>4, <1>7, <2>1
  <2>. QED BY <2>2
<1>. QED BY <1>3, <1>7, <1>10, <1>11 DEF Tells, more

(* The innermost lambda returns and closes its brace.                      *)
LEMMA TellsClose ==
  ASSUME NEW scopes \in Seq(Brace), NEW frames \in Seq(Frame), NEW g,
         Tells(g, scopes, frames), frames # <<>>, frames[Len(frames)].kind # "cond1",
         NEW new \in Seq(Frame), Len(new) = Len(frames) - 1,
         \A i \in 1..(Len(frames) - 1) : new[i] = frames[i],
         NEW h, h = [i \in 1..(Len(frames) - 1) |-> g[i]]
  PROVE  /\ scopes # <<>> /\ Len(scopes) \in Nat \ {0}
         /\ g[Len(frames)] = scopes[Len(scopes)]
         /\ Tells(h, Front(scopes), new)
<1> DEFINE n == Len(scopes)
           q == Len(frames) - 1
           less == Front(scopes)
<1>1. PICK d \in [1..Len(frames) -> 1..n] :
        Aligned(d, n, frames) /\ g = [i \in 1..Len(frames) |-> scopes[d[i]]]
  BY DEF Tells
<1>2. n \in Nat /\ q \in Nat /\ Len(frames) = q + 1 /\ q + 1 \in 1..(q + 1)
  BY LenProperties, TopFacts
<1>3. d[q + 1] = n /\ d[q + 1] \in 1..n BY <1>1, <1>2 DEF Aligned
<1>4. n \in Nat \ {0} /\ scopes # <<>> BY <1>2, <1>3, EmptySeq
<1>5. Len(less) = n - 1 /\ \A k \in 1..(n - 1) : less[k] = scopes[k]
  BY <1>4, FrontFacts
<1>6. g[q + 1] = scopes[n] BY <1>1, <1>2, <1>3
<1>. HIDE DEF n, less
<1>7. /\ \A i, j \in 1..(q + 1) : i < j =>
           d[i] <= d[j] /\ (frames[j].kind # "cond1" => d[i] < d[j])
      /\ \A i, j \in 1..(q + 1) : j = i + 1 =>
           d[j] = IF frames[j].kind = "cond1" THEN d[i] ELSE d[i] + 1
      /\ frames[q + 1].kind # "cond1" /\ d \in [1..(q + 1) -> 1..n]
      /\ Len(new) = q /\ \A i \in 1..q : new[i] = frames[i]
      /\ h = [i \in 1..q |-> g[i]]
      /\ \A i \in 1..(q + 1) : g[i] = scopes[d[i]]
  BY <1>1, <1>2 DEF Aligned
<1>. HIDE DEF q
<1>8. \A i \in 1..q : i \in 1..(q + 1) /\ i < q + 1 BY <1>2
<1>9. \A i \in 1..q : d[i] \in 1..(n - 1)
  <2>1. \A i \in 1..q : d[i] \in 1..n /\ d[i] < n BY <1>2, <1>3, <1>7, <1>8
  <2>. QED BY <1>4, <2>1
<1> DEFINE w == [i \in 1..q |-> d[i]]
<1>10. w \in [1..q -> 1..(n - 1)] /\ \A i \in 1..q : w[i] = d[i] BY <1>9
<1>. HIDE DEF w
<1>11. new # <<>> => w[q] = n - 1
  <2>. SUFFICES ASSUME new # <<>> PROVE w[q] = n - 1 OBVIOUS
  <2>1. q # 0 BY <1>7, EmptySeq
  <2>2. q \in 1..q BY <1>2, <2>1
  <2>3. d[q + 1] = d[q] + 1 BY <1>2, <1>7, <1>8, <2>2
  <2>4. d[q] \in 1..(n - 1) BY <1>9, <2>2
  <2>. QED BY <1>3, <1>4, <1>10, <2>2, <2>3, <2>4
<1>12. \A i, j \in 1..q : i < j =>
         w[i] <= w[j] /\ (new[j].kind # "cond1" => w[i] < w[j])
  BY <1>7, <1>8, <1>10
<1>13. \A i, j \in 1..q : j = i + 1 =>
         w[j] = IF new[j].kind = "cond1" THEN w[i] ELSE w[i] + 1
  BY <1>7, <1>8, <1>10
<1>14. Aligned(w, n - 1, new) BY <1>7, <1>10, <1>11, <1>12, <1>13 DEF Aligned
<1>15. h = [i \in 1..q |-> less[w[i]]]
  <2>1. \A i \in 1..q : g[i] = scopes[d[i]] BY <1>7, <1>8
  <2>2. \A i \in 1..q : less[w[i]] = scopes[d[i]] BY <1>5, <1>9, <1>10
  <2>3. \A i \in 1..q : g[i] = less[w[i]] BY <2>1, <2>2
  <2>. QED BY <1>7, <2>3
<1>16. Tells(h, less, new) BY <1>5, <1>7, <1>10, <1>14, <1>15 DEF Tells
<1>. QED BY <1>2, <1>4, <1>6, <1>16 DEF n, less, q

(* The innermost lambda's statement goes on with another lambda, under the *)
(* same brace or one in its place.                                         *)
LEMMA TellsGoOn ==
  ASSUME NEW scopes \in Seq(Brace), NEW frames \in Seq(Frame), NEW g,
         Tells(g, scopes, frames), frames # <<>>, frames[Len(frames)].kind # "cond1",
         NEW new \in Seq(Frame), Len(new) = Len(frames), new[Len(frames)].kind # "cond1",
         \A i \in 1..(Len(frames) - 1) : new[i] = frames[i],
         NEW others \in Seq(Brace), Len(others) = Len(scopes),
         \A k \in 1..(Len(scopes) - 1) : others[k] = scopes[k],
         NEW h, h = [i \in 1..Len(frames) |-> IF i = Len(frames) THEN others[Len(scopes)] ELSE g[i]]
  PROVE  Tells(h, others, new)
<1> DEFINE n == Len(scopes)
           q == Len(frames)
<1>1. PICK d \in [1..q -> 1..n] :
        Aligned(d, n, frames) /\ g = [i \in 1..q |-> scopes[d[i]]]
  BY DEF Tells
<1>2. q \in Nat \ {0} /\ n \in Nat BY TopFacts, LenProperties
<1>3. /\ d[q] = n
      /\ \A i, j \in 1..q : i < j =>
           d[i] <= d[j] /\ (frames[j].kind # "cond1" => d[i] < d[j])
      /\ \A i, j \in 1..q : j = i + 1 =>
           d[j] = IF frames[j].kind = "cond1" THEN d[i] ELSE d[i] + 1
  BY <1>1 DEF Aligned
<1>4. /\ Len(new) = q /\ new[q].kind # "cond1" /\ frames[q].kind # "cond1"
      /\ \A i \in 1..(q - 1) : new[i] = frames[i]
      /\ Len(others) = n /\ \A k \in 1..(n - 1) : others[k] = scopes[k]
      /\ h = [i \in 1..q |-> IF i = q THEN others[n] ELSE g[i]]
      /\ \A i \in 1..q : g[i] = scopes[d[i]]
  BY <1>1
<1>. HIDE DEF n, q
<1>5. \A j \in 1..q : new[j].kind = "cond1" <=> frames[j].kind = "cond1"
  <2>1. \A j \in 1..q : j = q \/ j \in 1..(q - 1) BY <1>2
  <2>. QED BY <1>4, <2>1
<1>6. Aligned(d, n, new)
  <2>1. \A i, j \in 1..q : i < j =>
           d[i] <= d[j] /\ (new[j].kind # "cond1" => d[i] < d[j])
    BY <1>3, <1>5
  <2>2. \A i, j \in 1..q : j = i + 1 =>
           d[j] = IF new[j].kind = "cond1" THEN d[i] ELSE d[i] + 1
    BY <1>3, <1>5
  <2>. QED BY <1>1, <1>3, <1>4, <2>1, <2>2 DEF Aligned
<1>7. \A i \in 1..q : i # q => d[i] \in 1..(n - 1)
  <2>1. q \in 1..q /\ \A i \in 1..q : i # q => i < q BY <1>2
  <2>2. \A i \in 1..q : i # q => d[i] < n BY <1>3, <1>4, <2>1
  <2>3. \A i \in 1..q : d[i] \in 1..n OBVIOUS
  <2>. QED BY <1>2, <2>2, <2>3
<1>8. h = [i \in 1..q |-> others[d[i]]]
  <2>1. \A i \in 1..q : (IF i = q THEN others[n] ELSE g[i]) = others[d[i]]
    BY <1>3, <1>4, <1>7
  <2>. QED BY <1>4, <2>1
<1>. QED BY <1>4, <1>6, <1>8 DEF Tells

(* while_ runs its condition for the first time: no brace.                 *)
LEMMA TellsTest ==
  ASSUME NEW scopes \in Seq(Brace), NEW frames \in Seq(Frame), NEW g,
         Tells(g, scopes, frames), frames # <<>>, NEW f \in Frame, f.kind = "cond1",
         NEW new, new = Append(frames, f),
         NEW h, h = [i \in 1..(Len(frames) + 1) |->
                       IF i = Len(frames) + 1 THEN g[Len(frames)] ELSE g[i]]
  PROVE  Tells(h, scopes, new)
<1> DEFINE n == Len(scopes)
           q == Len(frames)
<1>1. PICK d \in [1..q -> 1..n] :
        Aligned(d, n, frames) /\ g = [i \in 1..q |-> scopes[d[i]]]
  BY DEF Tells
<1>2. q \in Nat \ {0} /\ n \in Nat BY TopFacts, LenProperties
<1>3. /\ d[q] = n
      /\ \A i, j \in 1..q : i < j =>
           d[i] <= d[j] /\ (frames[j].kind # "cond1" => d[i] < d[j])
      /\ \A i, j \in 1..q : j = i + 1 =>
           d[j] = IF frames[j].kind = "cond1" THEN d[i] ELSE d[i] + 1
  BY <1>1 DEF Aligned
<1>4. /\ Len(new) = q + 1 /\ new[q + 1] = f /\ \A i \in 1..q : new[i] = frames[i]
  BY PushFacts
<1>. HIDE DEF n, q
<1>5. /\ \A i \in 1..q : i \in 1..(q + 1) /\ i # q + 1
      /\ \A i \in 1..(q + 1) : i = q + 1 \/ i \in 1..q
      /\ q \in 1..q
  BY <1>2
<1> DEFINE w == [i \in 1..(q + 1) |-> IF i = q + 1 THEN n ELSE d[i]]
<1>6. /\ w \in [1..(q + 1) -> 1..n] /\ w[q + 1] = n
      /\ \A i \in 1..q : w[i] = d[i] /\ w[i] \in 1..n
  <2>1. \A i \in 1..q : d[i] \in 1..n OBVIOUS
  <2>2. n \in 1..n BY <1>3, <1>5, <2>1
  <2>3. q + 1 \in 1..(q + 1) BY <1>2
  <2>. QED BY <1>5, <2>1, <2>2, <2>3
<1>. HIDE DEF w
<1>7. ASSUME NEW i \in 1..(q + 1), NEW j \in 1..(q + 1), i < j
      PROVE  w[i] <= w[j] /\ (new[j].kind # "cond1" => w[i] < w[j])
  <2>1. i \in 1..q BY <1>2, <1>7
  <2>2. CASE j \in 1..q BY <1>3, <1>4, <1>6, <1>7, <2>1, <2>2
  <2>3. CASE j = q + 1 BY <1>2, <1>4, <1>6, <2>1, <2>3
  <2>. QED BY <1>5, <2>2, <2>3
<1>8. ASSUME NEW i \in 1..(q + 1), NEW j \in 1..(q + 1), j = i + 1
      PROVE  w[j] = IF new[j].kind = "cond1" THEN w[i] ELSE w[i] + 1
  <2>1. i \in 1..q BY <1>2, <1>8
  <2>2. CASE j \in 1..q BY <1>3, <1>4, <1>6, <1>8, <2>1, <2>2
  <2>3. CASE j = q + 1
    <3>1. i = q BY <1>2, <1>8, <2>1, <2>3
    <3>. QED BY <1>3, <1>4, <1>6, <2>1, <2>3, <3>1
  <2>. QED BY <1>5, <2>2, <2>3
<1>9. new # <<>> => w[Len(new)] = n BY <1>4, <1>6
<1>10. Aligned(w, n, new) BY <1>4, <1>6, <1>7, <1>8, <1>9 DEF Aligned
<1>11. h = [i \in 1..(q + 1) |-> scopes[w[i]]]
  <2>1. \A i \in 1..q : g[i] = scopes[d[i]] BY <1>1
  <2>2. \A i \in 1..(q + 1) : (IF i = q + 1 THEN g[q] ELSE g[i]) = scopes[w[i]]
    BY <1>3, <1>5, <1>6, <2>1
  <2>3. h = [i \in 1..(q + 1) |-> IF i = q + 1 THEN g[q] ELSE g[i]] BY DEF q
  <2>. QED BY <2>2, <2>3
<1>12. w \in [1..Len(new) -> 1..Len(scopes)] /\ Aligned(w, Len(scopes), new)
       /\ h = [i \in 1..Len(new) |-> scopes[w[i]]]
  BY <1>4, <1>6, <1>10, <1>11 DEF n
<1>. QED BY <1>12 DEF Tells
-----------------------------------------------------------------------------
(* Where control may be.  S is a set of blocks, closed under branches,     *)
(* that holds all that is reached from the entry of the function being     *)
(* written - and, for a function inside a loop of another, what break_ and *)
(* continue_ may name: it need not be the least such set.                  *)

Leads(S) ==
  /\ S \in SUBSET Block /\ entry[function_] \in S
  /\ \A b \in S : b <= blocks /\ Targets(code[b]) \subseteq S

Here(S) ==
  /\ exited_block_ => ~Reader.live
  /\ insert \in S => Reader.live \/ (exited_block_ /\ Ends(code[insert]))

(* What a lambda's brace says of the blocks it owes, if S may be reached.  *)
Covers(f, s, S) ==
  /\ f.kind = "function" => s.brace = "function"
  /\ f.kind = "then_else" => /\ s.brace = "if"
                             /\ f.next_block \in S => s.before
                             /\ f.exit_block \notin S
  /\ f.kind = "then" => /\ s.brace = "if"
                        /\ f.exit_block \in S => s.before
  /\ f.kind = "else" => /\ s.brace = "else"
                        /\ f.exit_block \in S => s.joined
                        /\ s.joined => s.before
  /\ IsLoop(f) => /\ s.brace = "while"
                  /\ s.before => f.head_block \in S
                  /\ f.exit_block \in S <=> s.before
  /\ f.kind = "cond2" => f.next_block \notin S

(* The lambdas from p on, which write to one function.                     *)
Reads(g, p, live, frames, S) ==
  /\ \A i \in p..Len(frames) : frames[i].kind # "cond1" => Covers(frames[i], g[i], S)
  /\ live => g[Len(frames)].before
  /\ \A i, j \in p..Len(frames) : i < j /\ g[j].before => g[i].before
  /\ \A i \in 1..(p - 1) : IsLoop(frames[i]) =>
       frames[i].head_block \in S /\ frames[i].exit_block \in S

Shown(g, p, S) == Leads(S) /\ Here(S) /\ Reads(g, p, Reader.live, stack, S)
ShowsAt(g, p)  == stack[p].fn = function_ => \E S \in SUBSET Block : Shown(g, p, S)
Shows(g)       == \A p \in FunctionFrames : ShowsAt(g, p)
ShownInv       == \E g : Tells(g, Reader.scopes, stack) /\ Shows(g)

(* The frame of the function being written is the innermost function       *)
(* frame, or the text shows another function.                              *)
OpenOnce ==
  /\ stack # <<>> => stack[1].kind = "function"
  /\ \A i \in FunctionFrames : stack[i].fn \in Function /\ entry[stack[i].fn] # 0
  /\ \A i, j \in FunctionFrames : i # j => stack[i].fn # stack[j].fn
  /\ \A i, j \in FunctionFrames : stack[i].fn = function_ => j <= i

(* What is branched to, or may be, exists.                                 *)
CodeMade == \A b \in Block : \A i \in DOMAIN code[b] : \A t \in code[b][i].to : t <= blocks
Made ==
  /\ \A i \in DOMAIN stack : IsLoop(stack[i]) => stack[i].head_block <= blocks
  /\ \A f \in Function : entry[f] <= blocks
  /\ CodeMade

(* The inductive invariant.                                                *)
HideInv == /\ IInv /\ LoopsSaved /\ ReaderTyped
           /\ OpenOnce /\ Made /\ ShownInv

-----------------------------------------------------------------------------
(* S grows by blocks that are not in place yet.                            *)

LEMMA Spread ==
  ASSUME IInv, stack # <<>>, NEW S, Leads(S), NEW T \in SUBSET Block,
         \A t \in T : parent[t] = 0 /\ t <= blocks',
         blocks <= blocks', blocks' \in Nat, UNCHANGED <<function_, entry>>,
         NEW i \in Instr, code' = code \/ code' = Emitted(i),
         code' = Emitted(i) /\ insert \in S /\ ~Ends(code[insert]) /\ i.op \in Terminators =>
           i.to \subseteq S \cup T
  PROVE  Leads(S \cup T)'
<1> DEFINE U == S \cup T
<1>1. /\ code \in [Block -> Seq(Instr)] /\ blocks \in Nat
      /\ insert \in Block /\ parent[insert] # 0
  BY BoundsAssumption DEF IInv, TypeOK, InsertionPlaced
<1>2. S \in SUBSET Block /\ \A b \in S : b <= blocks /\ Targets(code[b]) \subseteq S
  BY DEF Leads
<1>3. \A b \in Block : b \in Nat BY DEF Block
<1>4. \A b \in U : b <= blocks' BY <1>1, <1>2, <1>3
<1>5. \A t \in T : Targets(code[t]) = {} /\ t # insert
  <2>1. \A t \in T : code[t] = <<>> BY DEF IInv, UnplacedEmpty
  <2>2. DOMAIN <<>> = {} OBVIOUS
  <2>. QED BY <1>1, <2>1, <2>2, NoTargets DEF Ends
<1>6. ASSUME NEW b \in U, code'[b] = code[b] PROVE Targets(code'[b]) \subseteq U
  BY <1>2, <1>5, <1>6
<1>7. ASSUME NEW b \in U, code' = Emitted(i) PROVE Targets(code'[b]) \subseteq U
  <2>1. CASE b # insert
    <3>1. code'[b] = code[b] BY <1>1, <1>2, <1>7, <2>1 DEF Emitted
    <3>. QED BY <1>6, <3>1
  <2>2. CASE b = insert
    <3>1. code'[b] = Append(code[b], i) BY <1>1, <1>7, <2>2 DEF Emitted
    <3>2. b \in S BY <1>5, <2>2
    <3>3. Targets(code'[b]) = IF ~Ends(code[b]) /\ i.op \in Terminators THEN i.to
                              ELSE Targets(code[b])
      BY <1>1, <2>2, <3>1, TargetsGrow
    <3>. QED BY <1>2, <1>7, <2>2, <3>2, <3>3
  <2>. QED BY <2>1, <2>2
<1>8. U \in SUBSET Block /\ entry'[function_'] \in U BY <1>2 DEF Leads
<1>9. \A b \in U : b <= blocks' /\ Targets(code'[b]) \subseteq U
  <2>1. CASE code' = code BY <1>4, <1>6, <2>1
  <2>2. CASE code' = Emitted(i) BY <1>4, <1>7, <2>2
  <2>. QED BY <2>1, <2>2
<1>. QED BY <1>8, <1>9 DEF Leads

LEMMA StillLeads ==
  ASSUME NEW S, Leads(S), UNCHANGED <<function_, entry, blocks>>,
         \A b \in Block : Targets(code'[b]) = Targets(code[b])
  PROVE  Leads(S)'
  BY DEF Leads

(* A brace tells of the blocks its lambda owes, and of a loop's head.      *)
LEMMA OthersCover ==
  ASSUME IInv, NEW i \in 1..Len(stack), NEW S, NEW T \in SUBSET Block, OwnOrNew(T, i),
         NEW s, Covers(stack[i], s, S)
  PROVE  Covers(stack[i], s, S \cup T)
<1>1. /\ stack \in Seq(Frame) /\ DOMAIN stack = 1..Len(stack) /\ Len(stack) \in Nat
      /\ blocks \in Nat
  BY LenProperties, BoundsAssumption DEF IInv, TypeOK
<1>2. stack[i] \in Frame /\ FrameShape(stack[i]) BY <1>1, ElementOfSeq DEF IInv, FramesShaped
<1>3. Len(stack) \in DOMAIN stack BY <1>1
<1>4. \A b \in Block : b \in Nat BY DEF Block
<1>5. Owed(stack[i]) \subseteq Block BY <1>2, OwedBlocks
<1>6. ASSUME NEW b \in Owed(stack[i]) PROVE b \notin T
  <2>1. b <= blocks /\ b \in Nat BY <1>1, <1>4, <1>5 DEF IInv, OwedUnplaced
  <2>2. ~(b > blocks)
    <3>1. blocks \in Nat BY <1>1
    <3>. QED BY <2>1, <3>1
  <2>3. i # Len(stack) => b \notin Owed(Top) BY <1>1, <1>3 DEF IInv, OwedOnce, Top
  <2>. QED BY <2>2, <2>3 DEF OwnOrNew
<1>7. /\ stack[i].kind \in {"then_else", "cond2"} =>
           stack[i].next_block \notin T /\ stack[i].exit_block \notin T
      /\ stack[i].kind \in {"then", "else", "body"} => stack[i].exit_block \notin T
  BY <1>2, <1>6 DEF FrameShape, Owed
<1>. QED BY <1>7 DEF Covers, IsLoop

(* The lambdas up to q and the braces they have stay as they are.          *)
SameUpTo(q, new, h, g) == \A i \in 1..q : new[i] = stack[i] /\ h[i] = g[i]

(* No lambda up to q owes a block of T.                                    *)
NoneOwes(q, T) == \A i \in 1..q : OwnOrNew(T, i)

(* Another lambda on top: started, or the next of the same statement.      *)
LEMMA ReadsOn ==
  ASSUME IInv, NEW p \in Nat \ {0}, NEW g, NEW live \in BOOLEAN, NEW S,
         p <= Len(stack), Reads(g, p, live, stack, S),
         NEW q \in Nat, p <= q, q <= Len(stack),
         NEW new \in Seq(Frame), Len(new) = q + 1,
         NEW h, SameUpTo(q, new, h, g),
         NEW T \in SUBSET Block, NoneOwes(q, T),
         new[q + 1].kind # "cond1" => Covers(new[q + 1], h[q + 1], S \cup T),
         h[q + 1].before => g[Len(stack)].before,
         NEW after, after => h[q + 1].before
  PROVE  Reads(h, p, after, new, S \cup T)
<1>. USE DEF SameUpTo, NoneOwes
<1> DEFINE n == Len(stack)
<1>1. /\ n \in Nat /\ n \in p..n
      /\ \A i \in p..(q + 1) : i = q + 1 \/ (i \in 1..q /\ i \in p..n /\ i \in 1..n)
      /\ \A i \in 1..(p - 1) : i \in 1..q
  BY LenProperties DEF IInv, TypeOK
<1>2. /\ \A i \in p..n : stack[i].kind # "cond1" => Covers(stack[i], g[i], S)
      /\ \A i, j \in p..n : i < j /\ g[j].before => g[i].before
      /\ \A i \in 1..(p - 1) : IsLoop(stack[i]) =>
           stack[i].head_block \in S /\ stack[i].exit_block \in S
  BY DEF Reads
<1>3. \A i \in p..(q + 1) : new[i].kind # "cond1" => Covers(new[i], h[i], S \cup T)
  <2>1. ASSUME NEW i \in 1..q, i \in p..n, i \in 1..n, new[i].kind # "cond1"
        PROVE  Covers(new[i], h[i], S \cup T)
    <3>1. Covers(stack[i], g[i], S) BY <1>2, <2>1
    <3>2. Covers(stack[i], g[i], S \cup T) BY <2>1, <3>1, OthersCover
    <3>. QED BY <2>1, <3>2
  <2>. QED BY <1>1, <2>1
<1>4. ASSUME NEW i \in p..(q + 1), NEW j \in p..(q + 1), i < j, h[j].before
      PROVE  h[i].before
  <2>1. i \in 1..q /\ i \in p..n BY <1>1, <1>4
  <2>2. CASE j = q + 1
    <3>1. g[n].before BY <1>4, <2>2
    <3>2. i = n \/ i < n BY <1>1, <2>1
    <3>. QED BY <1>1, <1>2, <2>1, <3>1, <3>2
  <2>3. CASE j # q + 1
    <3>1. j \in 1..q /\ j \in p..n BY <1>1, <2>3
    <3>. QED BY <1>2, <1>4, <2>1, <3>1
  <2>. QED BY <2>2, <2>3
<1>5. \A i \in 1..(p - 1) : IsLoop(new[i]) =>
        new[i].head_block \in S \cup T /\ new[i].exit_block \in S \cup T
  BY <1>1, <1>2
<1>6. Len(new) = q + 1 OBVIOUS
<1>. QED BY <1>3, <1>4, <1>5, <1>6 DEF Reads

(* The innermost lambda, not a function's, returns.                        *)
LEMMA ReadsOff ==
  ASSUME IInv, NEW p \in Nat \ {0}, NEW g, NEW live \in BOOLEAN, NEW S,
         p < Len(stack), Reads(g, p, live, stack, S),
         NEW new \in Seq(Frame), Len(new) = Len(stack) - 1,
         NEW h, SameUpTo(Len(stack) - 1, new, h, g),
         NEW T \in SUBSET Block, T \subseteq Owed(Top),
         NEW after, after => g[Len(stack)].before
  PROVE  Reads(h, p, after, new, S \cup T)
<1>. USE DEF SameUpTo
<1> DEFINE n == Len(stack)
           q == n - 1
<1>1. /\ n \in Nat /\ n \in p..n /\ q \in Nat /\ q \in p..n /\ q < n
      /\ \A i \in p..q : i \in 1..q /\ i \in p..n /\ i \in 1..n /\ i # n
      /\ \A i \in 1..(p - 1) : i \in 1..q
  BY LenProperties DEF IInv, TypeOK
<1>2. /\ \A i \in p..n : stack[i].kind # "cond1" => Covers(stack[i], g[i], S)
      /\ \A i, j \in p..n : i < j /\ g[j].before => g[i].before
      /\ \A i \in 1..(p - 1) : IsLoop(stack[i]) =>
           stack[i].head_block \in S /\ stack[i].exit_block \in S
  BY DEF Reads
<1>3. ASSUME NEW i \in p..q, new[i].kind # "cond1" PROVE Covers(new[i], h[i], S \cup T)
  <2>1. i \in 1..q /\ i \in p..n /\ i \in 1..n /\ i # n BY <1>1
  <2>2. Covers(stack[i], g[i], S) BY <1>2, <1>3, <2>1
  <2>3. OwnOrNew(T, i) BY <2>1 DEF OwnOrNew
  <2>4. Covers(stack[i], g[i], S \cup T) BY <2>1, <2>2, <2>3, OthersCover
  <2>. QED BY <2>1, <2>4
<1>4. \A i, j \in p..q : i < j /\ h[j].before => h[i].before BY <1>1, <1>2
<1>5. \A i \in 1..(p - 1) : IsLoop(new[i]) =>
        new[i].head_block \in S \cup T /\ new[i].exit_block \in S \cup T
  BY <1>1, <1>2
<1>6. after => h[q].before
  <2>1. q \in p..q BY <1>1
  <2>. QED BY <1>1, <1>2, <2>1
<1>7. Len(new) = q OBVIOUS
<1>. HIDE DEF n, q
<1>. QED BY <1>3, <1>4, <1>5, <1>6, <1>7 DEF Reads

LEMMA ReadsLess ==
  ASSUME NEW p, NEW g, NEW live, NEW frames, NEW S, Reads(g, p, live, frames, S),
         NEW after, after => live
  PROVE  Reads(g, p, after, frames, S)
  BY DEF Reads
-----------------------------------------------------------------------------
(* What is branched to has been created.                                   *)

LEMMA MadeCode ==
  ASSUME IInv, stack # <<>>, CodeMade, blocks <= blocks', blocks' \in Nat,
         \/ UNCHANGED code
         \/ Declares
         \/ \E i \in Instr : Adds(i) /\ \A t \in i.to : t <= blocks'
  PROVE  CodeMade'
<1>1. /\ TypeOK /\ blocks \in Nat /\ code \in [Block -> Seq(Instr)]
      /\ insert \in Block /\ entry[function_] \in Block
  BY BoundsAssumption DEF IInv, TypeOK, InsertionPlaced
<1>2. ASSUME NEW b \in Block, NEW k \in DOMAIN code[b], NEW t \in code[b][k].to
      PROVE  t <= blocks'
  <2>1. code[b][k] \in Instr BY <1>1, ElementOfSeq, LenProperties
  <2>2. t \in Nat BY <2>1 DEF Instr, Block
  <2>3. t <= blocks BY DEF CodeMade
  <2>. QED BY <1>1, <2>2, <2>3
<1>3. CASE UNCHANGED code BY <1>2, <1>3 DEF CodeMade
<1>4. CASE Declares
  <2>1. Alloca.to = {} BY <1>1, AllocaFacts
  <2>2. ASSUME NEW b \in Block, NEW j \in DOMAIN code'[b], NEW t \in code'[b][j].to
        PROVE  t <= blocks'
    <3>1. code'[b][j] = Alloca \/ \E k \in DOMAIN code[b] : code'[b][j] = code[b][k]
      BY <1>1, <1>4, DeclaresOne
    <3>. QED BY <1>2, <2>1, <2>2, <3>1
  <2>. QED BY <2>2 DEF CodeMade
<1>5. ASSUME NEW i \in Instr, Adds(i), \A t \in i.to : t <= blocks' PROVE CodeMade'
  <2>1. ASSUME NEW b \in Block, NEW j \in DOMAIN code'[b], NEW t \in code'[b][j].to
        PROVE  t <= blocks'
    <3>1. (b = insert /\ code'[b][j] = i) \/ \E k \in DOMAIN code[b] : code'[b][j] = code[b][k]
      BY <1>1, <1>5, AddsOne
    <3>. QED BY <1>2, <1>5, <2>1, <3>1
  <2>. QED BY <2>1 DEF CodeMade
<1>. QED BY <1>3, <1>4, <1>5

(* The blocks of the loop break_ and continue_ are in.                     *)
LEMMA LoopMade ==
  ASSUME IInv, LoopsSaved, Made
  PROVE  /\ current_loop_.break_block_ <= blocks
         /\ current_loop_.continue_block_ <= blocks
<1>1. /\ DOMAIN stack = 1..Len(stack) /\ stack \in Seq(Frame) /\ blocks \in Nat
  BY LenProperties, BoundsAssumption DEF IInv, TypeOK
<1>2. CASE current_loop_ = NoLoop BY <1>1, <1>2 DEF NoLoop
<1>3. ASSUME NEW i \in 1..Len(stack), IsLoop(stack[i]), current_loop_ = BlocksOf(stack[i])
      PROVE  /\ current_loop_.break_block_ <= blocks
             /\ current_loop_.continue_block_ <= blocks
  <2>1. stack[i].exit_block \in Owed(stack[i])
    BY <1>1, <1>3 DEF IInv, FramesShaped, FrameShape, IsLoop, Owed
  <2>2. stack[i].exit_block <= blocks BY <1>1, <2>1 DEF IInv, OwedUnplaced
  <2>3. stack[i].head_block <= blocks BY <1>1, <1>3 DEF Made
  <2>. QED BY <1>3, <2>2, <2>3 DEF BlocksOf
<1>. QED BY <1>2, <1>3 DEF LoopsSaved, InnermostLoop

LEMMA MadeStep ==
  ASSUME IInv, LoopsSaved, Made, Next
  PROVE  Made'
<1>1. /\ TypeOK /\ blocks \in Nat /\ loc \in Location /\ line_no_ \in Nat
      /\ At(line_no_) \in Location
  BY BoundsAssumption, LineFacts DEF IInv, TypeOK
<1>2. \A op, to, at : Instruction(op, to, at).to = to BY DEF Instruction
<1>3. CASE Abort BY <1>3 DEF Abort, Made, CodeMade
<1> DEFINE Grows == \/ UNCHANGED code
                    \/ Declares
                    \/ \E i \in Instr : Adds(i) /\ \A t \in i.to : t <= blocks'
           Loop1 == IsLoop(Top) \/ UNCHANGED current_loop_
                    \/ current_loop_'.continue_block_ <= blocks'
           Effect == /\ stack # <<>> /\ blocks <= blocks' /\ blocks' \in Nat
                     /\ UNCHANGED entry /\ Grows /\ Loop1
<1>4. ASSUME EndFunction \/ WhileBegin PROVE Effect
  <2>1. stack # <<>> BY <1>4 DEF EndFunction, Returns, WhileBegin, MayNest, MayCall
  <2>. QED BY <1>1, <1>4, <2>1 DEF EndFunction, WhileBegin
<1>5. ASSUME Statement PROVE Effect
  <2>1. stack # <<>> BY <1>5 DEF Statement, MayAdd, MayCall
  <2>2. Instruction("op", {}, At(line_no_)) \in Instr BY <1>1, EmittedType
  <2>. QED BY <1>1, <1>2, <1>5, <2>1, <2>2 DEF Statement, Adds
<1>6. ASSUME VariableGet PROVE Effect
  <2>1. stack # <<>> BY <1>6 DEF VariableGet, MayAdd, MayCall
  <2>2. Instruction("get", {}, loc) \in Instr BY <1>1, EmittedType
  <2>. QED BY <1>1, <1>2, <1>6, <2>1, <2>2 DEF VariableGet, Adds
<1>7. ASSUME VariableDecl PROVE Effect
  <2>1. stack # <<>> BY <1>7 DEF VariableDecl, MayCall
  <2>. QED BY <1>1, <1>7, <2>1 DEF VariableDecl, Declares
<1>8. ASSUME MayExit, NEW kind, NEW op \in Terminators, NEW to \in SUBSET Block,
             Exit(kind, op, to), \A t \in to : t <= blocks
      PROVE  Effect
  <2>1. stack # <<>> BY <1>8 DEF MayExit, MayCall
  <2>2. Instruction(op, to, At(line_no_)) \in Instr BY <1>1, EmittedType
  <2>. QED BY <1>1, <1>2, <1>8, <2>1, <2>2 DEF Exit, Adds
<1>9. ASSUME Return PROVE Effect
  <2>1. {} \in SUBSET Block /\ "ret" \in Terminators BY DEF Terminators
  <2>. HIDE DEF Effect
  <2>. QED BY <1>8, <1>9, <2>1 DEF Return
<1>10. ASSUME (Break \/ Continue), ~Abort PROVE Effect
  <2>1. ASSUME NEW kind, NEW t, t \in {current_loop_.break_block_, current_loop_.continue_block_},
               MayExit, t # 0, Exit(kind, "br", {t})
        PROVE  Effect
    <3>1. t <= blocks BY <2>1, LoopMade
    <3>2. {t} \in SUBSET Block /\ "br" \in Terminators
      BY <1>1, <2>1, BoundsAssumption DEF TypeOK, Loop, Block, Terminators
    <3>. HIDE DEF Effect
    <3>. QED BY <1>8, <2>1, <3>1, <3>2
  <2>. HIDE DEF Effect
  <2>2. CASE Break BY <1>10, <2>1, <2>2 DEF Break
  <2>3. CASE Continue BY <1>10, <2>1, <2>3 DEF Continue
  <2>. QED BY <1>10, <2>2, <2>3
<1>11. ASSUME (IfElse \/ IfOnly), ~Abort PROVE Effect
  <2>1. PICK kind \in {"then_else", "then"}, pending \in {1, 2} : IfBegin(kind, pending)
    BY <1>11 DEF IfElse, IfOnly
  <2>2. /\ stack # <<>> /\ ~exited_block_ /\ blocks + 1 + pending <= MaxBlocks
    BY <1>11, <2>1 DEF IfBegin, MayNest, MayCall
  <2> DEFINE i == Instruction("condbr", {blocks + 1, blocks + 2}, At(line_no_))
  <2>3. code' = Emitted(i)
        /\ blocks' = blocks + 1 + pending /\ UNCHANGED <<entry, current_loop_>>
    BY <2>1, <2>2 DEF IfBegin, FalseBlock
  <2>4. {blocks + 1, blocks + 2} \in SUBSET Block /\ blocks + 1 <= blocks' /\ blocks + 2 <= blocks'
        /\ blocks <= blocks' /\ blocks' \in Nat
    BY <1>1, <2>2, <2>3, BoundsAssumption DEF Block
  <2>5. i \in Instr /\ i.to = {blocks + 1, blocks + 2}
    BY <1>1, <2>4, EmittedType DEF Instruction, Terminators
  <2>. HIDE DEF i
  <2>6. Adds(i) /\ \A t \in i.to : t <= blocks' BY <2>3, <2>4, <2>5 DEF Adds
  <2>. QED BY <2>2, <2>3, <2>4, <2>5, <2>6
<1>12. ASSUME stack # <<>>, NEW target \in Block, NEW at \in Location, CloseBranch(target, at),
              target <= blocks, UNCHANGED blocks
       PROVE  Grows
  <2> DEFINE i == Instruction("br", {target}, at)
  <2>1. i \in Instr /\ i.to = {target} BY <1>1, <1>2, EmittedType DEF Terminators
  <2>2. code' = code \/ code' = Emitted(i) BY <1>12 DEF CloseBranch
  <2>. HIDE DEF i
  <2>. QED BY <1>12, <2>1, <2>2 DEF Adds
<1>13. ASSUME Else \/ EndIf PROVE Effect
  <2>1. stack # <<>> /\ Top.kind \in {"then_else", "then", "else"}
    BY <1>13 DEF Else, EndIf, Returns
  <2>2. Top.exit_block \in Owed(Top) BY <2>1, TopOwed
  <2>3. Top.exit_block \in Block /\ Top.exit_block <= blocks BY <2>1, <2>2, TopOwed
  <2>4. [line |-> line_no_, scope |-> Top.parent_scope] \in Location
    BY <1>1, <2>1, ReturnLocation
  <2>5. Grows /\ UNCHANGED <<blocks, entry, current_loop_>>
    BY <1>12, <1>13, <2>1, <2>3, <2>4 DEF Else, EndIf
  <2>. HIDE DEF Grows
  <2>. QED BY <1>1, <2>1, <2>5
<1>14. ASSUME WhileTest PROVE Effect
  <2>1. stack # <<>> /\ blocks + 3 <= MaxBlocks BY <1>14 DEF WhileTest, Returns
  <2> DEFINE i == Instruction("br", {blocks + 1}, loc)
  <2>2. code' = Emitted(i) /\ blocks' = blocks + 3
        /\ UNCHANGED entry /\ current_loop_'.continue_block_ = blocks + 1
    BY <1>14 DEF WhileTest
  <2>3. {blocks + 1} \in SUBSET Block /\ blocks + 1 <= blocks' /\ blocks <= blocks' /\ blocks' \in Nat
    BY <1>1, <2>1, <2>2, BoundsAssumption DEF Block
  <2>4. i \in Instr /\ i.to = {blocks + 1}
    BY <1>1, <1>2, <2>3, EmittedType DEF Terminators
  <2>. HIDE DEF i
  <2>5. Adds(i) /\ \A t \in i.to : t <= blocks' BY <2>2, <2>3, <2>4 DEF Adds
  <2>. QED BY <2>1, <2>2, <2>3, <2>4, <2>5
<1>15. ASSUME WhileBody, ~Abort PROVE Effect
  <2>1. stack # <<>> /\ Top.kind = "cond2" /\ ~exited_block_
    BY <1>15 DEF WhileBody, Returns
  <2>2. Top.next_block \in Owed(Top) /\ Top.exit_block \in Owed(Top) BY <2>1, TopOwed
  <2>3. {Top.next_block, Top.exit_block} \in SUBSET Block
        /\ Top.next_block <= blocks /\ Top.exit_block <= blocks
    BY <2>1, <2>2, TopOwed
  <2> DEFINE i == Instruction("condbr", {Top.next_block, Top.exit_block}, loc)
  <2>4. code' = Emitted(i)
        /\ UNCHANGED <<blocks, entry, current_loop_>>
    BY <1>15, <2>1 DEF WhileBody
  <2>5. i \in Instr /\ i.to = {Top.next_block, Top.exit_block}
    BY <1>1, <1>2, <2>3, EmittedType DEF Terminators
  <2>. HIDE DEF i
  <2>6. Adds(i) /\ \A t \in i.to : t <= blocks' BY <2>3, <2>4, <2>5 DEF Adds
  <2>. QED BY <1>1, <2>1, <2>4, <2>5, <2>6
<1>16. ASSUME EndWhile PROVE Effect
  <2>1. stack # <<>> /\ Top.kind = "body" BY <1>16 DEF EndWhile, Returns
  <2>2. Top.head_block \in Block BY <2>1, TopOwed
  <2>3. Top.head_block <= blocks
    <3>1. Len(stack) \in DOMAIN stack BY <2>1, TopFacts DEF IInv, TypeOK
    <3>. QED BY <2>1, <3>1 DEF Made, IsLoop, Top
  <2>4. [line |-> line_no_, scope |-> Top.parent_scope] \in Location
    BY <1>1, <2>1, ReturnLocation
  <2>5. Grows /\ UNCHANGED <<blocks, entry>>
    BY <1>12, <1>16, <2>1, <2>2, <2>3, <2>4 DEF EndWhile
  <2>. HIDE DEF Grows
  <2>. QED BY <1>1, <2>1, <2>5 DEF IsLoop
<1>17. CASE CreateFunction
  <2>1. PICK fn \in Function : entry' = [entry EXCEPT ![fn] = blocks + 1]
    BY <1>17 DEF CreateFunction
  <2>2. blocks' = blocks + 1 /\ UNCHANGED <<code, current_loop_>> BY <1>17 DEF CreateFunction
  <2>3. \A f \in Function : entry'[f] <= blocks'
    <3>1. ASSUME NEW f \in Function PROVE entry'[f] <= blocks'
      <4>1. entry[f] \in Nat /\ entry[f] <= blocks
        BY <1>1, BoundsAssumption DEF Made, TypeOK
      <4>2. entry'[f] = entry[f] \/ entry'[f] = blocks + 1 BY <1>1, <2>1 DEF TypeOK
      <4>. QED BY <1>1, <2>2, <4>1, <4>2
    <3>. QED BY <3>1
  <2>4. CodeMade'
    <3>1. ASSUME NEW b \in Block, NEW k \in DOMAIN code[b], NEW t \in code[b][k].to
          PROVE  t <= blocks'
      <4>1. code[b] \in Seq(Instr) BY <1>1 DEF TypeOK
      <4>2. code[b][k] \in Instr BY <4>1, ElementOfSeq, LenProperties
      <4>3. t \in Nat BY <4>2 DEF Instr, Block
      <4>4. t <= blocks BY DEF Made, CodeMade
      <4>. QED BY <1>1, <2>2, <4>3, <4>4
    <3>. QED BY <2>2, <3>1 DEF CodeMade
  <2>5. PICK f \in Frame : ~IsLoop(f) /\ stack' = Append(stack, f)
    <3>1. PICK fn1 \in Function : stack' = Append(stack, [NewFrame("function") EXCEPT !.fn = fn1])
      BY <1>17 DEF CreateFunction, Push
    <3>2. NewFrame("function") \in Frame BY <1>1, NewFrameType DEF FrameKind
    <3>3. fn1 \in 0..MaxFunctions BY BoundsAssumption DEF Function
    <3>. QED BY <3>1, <3>2, <3>3 DEF Frame, NewFrame, IsLoop
  <2>6. \A i \in DOMAIN stack' : IsLoop(stack'[i]) => stack'[i].head_block <= blocks'
    <3>1. stack \in Seq(Frame) BY <1>1 DEF TypeOK
    <3>2. /\ DOMAIN stack' = 1..(Len(stack) + 1) /\ stack'[Len(stack) + 1] = f
          /\ \A i \in 1..Len(stack) : stack'[i] = stack[i]
          /\ DOMAIN stack = 1..Len(stack) /\ Len(stack) \in Nat
      BY <2>5, <3>1, PushFacts
    <3>3. ASSUME NEW i \in DOMAIN stack', IsLoop(stack'[i])
          PROVE  stack'[i].head_block <= blocks'
      <4>1. i \in 1..Len(stack) \/ i = Len(stack) + 1 BY <3>2
      <4>2. i \in DOMAIN stack /\ stack'[i] = stack[i] BY <2>5, <3>2, <3>3, <4>1
      <4>3. stack[i] \in Frame BY <3>1, <4>2, ElementOfSeq, LenProperties
      <4>4. stack[i].head_block \in Nat BY <4>3, BoundsAssumption DEF Frame
      <4>5. stack[i].head_block <= blocks BY <3>3, <4>2 DEF Made
      <4>. QED BY <1>1, <2>2, <4>2, <4>4, <4>5
    <3>. QED BY <3>3
  <2>. QED BY <2>3, <2>4, <2>6 DEF Made
<1>18. ASSUME Effect, StackEffect PROVE Made'
  <2>1. CodeMade' BY <1>18, MadeCode DEF Made
  <2>2. \A f \in Function : entry'[f] <= blocks'
    <3>1. \A f \in Function : entry[f] \in Nat /\ entry[f] <= blocks
      BY <1>1, BoundsAssumption DEF Made, TypeOK
    <3>. QED BY <1>1, <1>18, <3>1
  <2>3. stack \in Seq(Frame) /\ DOMAIN stack = 1..Len(stack) /\ Len(stack) \in Nat
    BY <1>1, LenProperties DEF TypeOK
  <2>4. ASSUME NEW i \in 1..Len(stack), IsLoop(stack[i]) PROVE stack[i].head_block <= blocks'
    <3>1. stack[i] \in Frame BY <2>3, ElementOfSeq
    <3>2. stack[i].head_block \in Nat BY <3>1, BoundsAssumption DEF Frame
    <3>3. stack[i].head_block <= blocks BY <2>3, <2>4 DEF Made
    <3>. QED BY <1>1, <1>18, <3>2, <3>3
  <2>5. CASE Stays BY <2>1, <2>2, <2>3, <2>4, <2>5 DEF Stays, Made
  <2>6. CASE Pops
    <3>1. /\ DOMAIN stack' = 1..(Len(stack) - 1)
          /\ \A i \in 1..(Len(stack) - 1) : stack'[i] = stack[i]
      BY <2>3, <2>6, PopFacts DEF Pops, Outer
    <3>2. \A i \in 1..(Len(stack) - 1) : i \in 1..Len(stack) BY <2>3
    <3>. QED BY <2>1, <2>2, <2>4, <3>1, <3>2 DEF Made
  <2>7. ASSUME NEW f \in Frame, Pushes(f) PROVE Made'
    <3>1. /\ DOMAIN stack' = 1..(Len(stack) + 1) /\ stack'[Len(stack) + 1] = f
          /\ \A i \in 1..Len(stack) : stack'[i] = stack[i]
      BY <2>3, <2>7, PushFacts DEF Pushes
    <3>2. \A i \in 1..(Len(stack) + 1) : i \in 1..Len(stack) \/ i = Len(stack) + 1 BY <2>3
    <3>. QED BY <2>1, <2>2, <2>4, <2>7, <3>1, <3>2 DEF Made, Pushes
  <2>8. ASSUME NEW f \in Frame, GoesOn(f) PROVE Made'
    <3>1. stack # <<>> /\ stack' = [stack EXCEPT ![Len(stack)] = f] BY <2>8 DEF GoesOn
    <3>2. /\ DOMAIN stack' = 1..Len(stack) /\ stack'[Len(stack)] = f
          /\ \A i \in 1..(Len(stack) - 1) : stack'[i] = stack[i]
          /\ Len(stack) \in 1..Len(stack) /\ Top = stack[Len(stack)]
      <4> DEFINE t == [stack EXCEPT ![Len(stack)] = f]
      <4>1. /\ DOMAIN t = DOMAIN stack /\ t[Len(stack)] = f
            /\ \A i \in 1..(Len(stack) - 1) : t[i] = stack[i]
        <5>1. stack \in Seq(Frame) /\ stack # <<>> /\ f \in Frame BY <2>3, <2>8, <3>1
        <5>. QED BY <5>1, ReplaceFacts
      <4>2. stack' = t BY <3>1
      <4>. HIDE DEF t
      <4>3. Len(stack) \in 1..Len(stack) BY <2>3, <3>1, TopFacts
      <4>. QED BY <2>3, <4>1, <4>2, <4>3 DEF Top
    <3>3. IsLoop(f) => f.head_block <= blocks'
      <4>1. CASE (IsLoop(f) <=> IsLoop(Top)) /\ BlocksOf(f) = BlocksOf(Top)
        <5>1. f.head_block = Top.head_block BY <4>1 DEF BlocksOf
        <5>. QED BY <2>4, <3>2, <4>1, <5>1
      <4>2. CASE ~IsLoop(Top) /\ IsLoop(f) /\ current_loop_' = BlocksOf(f)
        <5>1. f.head_block = current_loop_'.continue_block_ BY <4>2 DEF BlocksOf
        <5>2. CASE UNCHANGED current_loop_
          <6>1. f.head_block <= blocks BY <5>1, <5>2, LoopMade
          <6>2. f.head_block \in Nat BY BoundsAssumption DEF Frame
          <6>. QED BY <1>1, <1>18, <6>1, <6>2
        <5>. QED BY <1>18, <4>2, <5>1, <5>2
      <4>. QED BY <2>8, <4>1, <4>2 DEF GoesOn
    <3>4. \A n \in Nat : \A i \in 1..n : i \in 1..(n - 1) \/ i = n OBVIOUS
    <3>. QED BY <2>1, <2>2, <2>4, <3>2, <3>3, <3>4 DEF Made
  <2>. QED BY <1>18, <2>5, <2>6, <2>7, <2>8 DEF StackEffect
<1>19. StackEffect BY StackStep DEF IInv
<1>. HIDE DEF Effect
<1>. QED
  BY <1>3, <1>4, <1>5, <1>6, <1>7, <1>9, <1>10, <1>11, <1>13, <1>14, <1>15, <1>16, <1>17,
     <1>18, <1>19 DEF Next
-----------------------------------------------------------------------------
(* What a step starts from, and what it has to show.                       *)

LEMMA HideFacts ==
  ASSUME HideInv, stack # <<>>
  PROVE  /\ TypeOK /\ IInv /\ stack \in Seq(Frame) /\ blocks \in Nat
         /\ Len(stack) \in Nat \ {0} /\ Top = stack[Len(stack)] /\ Top \in Frame
         /\ function_ \in Function /\ insert \in Block /\ entry[function_] \in Block
         /\ Reader.live \in BOOLEAN /\ Reader.scopes \in Seq(Brace)
         /\ Reader = [live |-> Reader.live, scopes |-> Reader.scopes]
         /\ exited_block_ \in BOOLEAN /\ (Ends(code[insert]) => exited_block_)
<1>1. /\ TypeOK /\ IInv /\ stack \in Seq(Frame) /\ blocks \in Nat
      /\ exited_block_ \in BOOLEAN
  BY BoundsAssumption DEF HideInv, IInv, TypeOK
<1>2. /\ Len(stack) \in Nat \ {0} /\ Top = stack[Len(stack)] /\ Top \in Frame
  BY <1>1, TopFacts DEF Top
<1>3. function_ \in Function /\ insert \in Block /\ entry[function_] \in Block
  BY <1>1 DEF IInv, InsertionPlaced
<1>4. /\ Reader.live \in BOOLEAN /\ Reader.scopes \in Seq(Brace)
      /\ Reader = [live |-> Reader.live, scopes |-> Reader.scopes]
  BY DEF HideInv, ReaderTyped
<1>5. Ends(code[insert]) => exited_block_
  BY <1>1 DEF IInv, ExitFlagTracksTerminator, HasTerminator, Ends
<1>. QED BY <1>1, <1>2, <1>3, <1>4, <1>5

(* The function being written, if its lambda runs.                         *)
Runs(p) == p \in FunctionFrames /\ stack[p].fn = function_

LEMMA ShownFacts ==
  ASSUME HideInv, NEW g, Tells(g, Reader.scopes, stack), NEW p, Runs(p),
         NEW S, Shown(g, p, S)
  PROVE  /\ stack # <<>> /\ p \in Nat \ {0} /\ p <= Len(stack)
         /\ g \in [1..Len(stack) -> Brace]
         /\ Top.kind # "function" => p < Len(stack) /\ p <= Len(stack) - 1
         /\ S \in SUBSET Block /\ \A b : b > blocks => b \notin S
         /\ Top.kind # "cond1" => Covers(Top, g[Len(stack)], S)
         /\ Reader.live => g[Len(stack)].before /\ ~exited_block_
         /\ insert \in S /\ ~exited_block_ => Reader.live
         /\ insert \in S /\ ~Ends(code[insert]) => Reader.live
         /\ Leads(S) /\ Here(S) /\ Reads(g, p, Reader.live, stack, S)
<1>1. stack \in Seq(Frame) /\ blocks \in Nat /\ Reader.scopes \in Seq(Brace)
  BY BoundsAssumption DEF HideInv, IInv, TypeOK, ReaderTyped
<1>2. p \in DOMAIN stack /\ stack[p].kind = "function" BY DEF Runs, FunctionFrames
<1>3. DOMAIN stack = 1..Len(stack) /\ Len(stack) \in Nat BY <1>1, LenProperties
<1>4. stack # <<>>
  <2>1. DOMAIN <<>> = {} OBVIOUS
  <2>. QED BY <1>2, <2>1
<1>5. p \in Nat \ {0} /\ p <= Len(stack) /\ Len(stack) \in p..Len(stack)
  <2>1. p \in 1..Len(stack) BY <1>2, <1>3
  <2>2. Len(stack) \in Nat BY <1>3
  <2>. QED BY <2>1, <2>2
<1>6. Top.kind # "function" => p < Len(stack) /\ p <= Len(stack) - 1
  <2>. SUFFICES ASSUME Top.kind # "function" PROVE p < Len(stack) /\ p <= Len(stack) - 1
    OBVIOUS
  <2>1. p # Len(stack) BY <1>2 DEF Top
  <2>2. \A m, n \in Nat : m <= n /\ m # n => m < n /\ m <= n - 1 OBVIOUS
  <2>3. p \in Nat BY <1>5
  <2>. QED BY <1>3, <1>5, <2>1, <2>2, <2>3
<1>7. g \in [1..Len(stack) -> Brace] BY <1>1, TellsBraces
<1>8. Leads(S) /\ Here(S) /\ Reads(g, p, Reader.live, stack, S) BY DEF Shown
<1>9. S \in SUBSET Block /\ \A b \in S : b \in Nat /\ b <= blocks BY <1>8 DEF Leads, Block
<1>10. \A b : b > blocks => b \notin S
  <2>. SUFFICES ASSUME NEW b \in S, b > blocks PROVE FALSE OBVIOUS
  <2>. QED BY <1>1, <1>9
<1>11. Top.kind # "cond1" => Covers(Top, g[Len(stack)], S) BY <1>5, <1>8 DEF Reads, Top
<1>12. Reader.live => g[Len(stack)].before BY <1>8 DEF Reads
<1>13. exited_block_ => ~Reader.live BY <1>8 DEF Here
<1>14. insert \in S => Reader.live \/ (exited_block_ /\ Ends(code[insert])) BY <1>8 DEF Here
<1>. QED BY <1>4, <1>5, <1>6, <1>7, <1>8, <1>9, <1>10, <1>11, <1>12, <1>13, <1>14

LEMMA FirstIndex ==
  ASSUME NEW n \in Nat \ {0}
  PROVE  1 \in 1..n
  OBVIOUS

LEMMA LengthsNest ==
  ASSUME NEW q \in Nat, NEW m \in Nat, NEW n, q <= m, n = q \/ n = q + 1, NEW i \in 1..q
  PROVE  i \in 1..m /\ i \in 1..n
  OBVIOUS

(* Lambdas other than a function's come and go.                            *)
LEMMA OpenKept ==
  ASSUME OpenOnce, stack # <<>>, stack \in Seq(Frame), stack' \in Seq(Frame),
         NEW q \in Nat, q <= Len(stack), Len(stack') = q \/ Len(stack') = q + 1,
         \A i \in 1..q : stack'[i] = stack[i],
         \A i \in 1..Len(stack) : i > q => stack[i].kind # "function",
         Len(stack') = q + 1 => stack'[q + 1].kind # "function",
         UNCHANGED <<function_, entry>>
  PROVE  /\ OpenOnce' /\ FunctionFrames' = FunctionFrames
         /\ \A p \in FunctionFrames : stack'[p] = stack[p]
<1>1. /\ Len(stack) \in Nat \ {0} /\ DOMAIN stack = 1..Len(stack)
      /\ DOMAIN stack' = 1..Len(stack')
  BY TopFacts, LenProperties
<1>2. \A i \in 1..q : i \in DOMAIN stack /\ i \in DOMAIN stack' BY <1>1, LengthsNest, Zenon
<1>3. \A i \in DOMAIN stack : i \in 1..q \/ stack[i].kind # "function"
  <2>1. \A m, n \in Nat : \A i \in 1..n : i \in 1..m \/ i > m OBVIOUS
  <2>. QED BY <1>1, <2>1
<1>4. \A i \in DOMAIN stack' : i \in 1..q \/ stack'[i].kind # "function"
  <2>1. CASE Len(stack') = q BY <1>1, <2>1
  <2>2. CASE Len(stack') = q + 1
    <3>1. \A i \in 1..(q + 1) : i \in 1..q \/ i = q + 1 OBVIOUS
    <3>. QED BY <1>1, <2>2, <3>1
  <2>. QED BY <2>1, <2>2
<1>5. FunctionFrames' = FunctionFrames /\ \A i \in FunctionFrames : i \in 1..q
  BY <1>2, <1>3, <1>4 DEF FunctionFrames
<1>6. \A i \in FunctionFrames : stack'[i] = stack[i] BY <1>5
<1>7. stack'[1].kind = "function"
  <2>1. 1 \in FunctionFrames
    <3>1. stack[1].kind = "function" BY DEF OpenOnce
    <3>2. 1 \in 1..Len(stack) BY <1>1, FirstIndex, Zenon
    <3>. QED BY <1>1, <3>1, <3>2, Zenon DEF FunctionFrames
  <2>2. stack'[1] = stack[1] BY <1>6, <2>1
  <2>. QED BY <2>1, <2>2 DEF FunctionFrames
<1>8. OpenOnce'
  <2>1. /\ \A i \in FunctionFrames : stack[i].fn \in Function /\ entry[stack[i].fn] # 0
        /\ \A i, j \in FunctionFrames : i # j => stack[i].fn # stack[j].fn
        /\ \A i, j \in FunctionFrames : stack[i].fn = function_ => j <= i
    BY DEF OpenOnce
  <2>2. UNCHANGED <<function_, entry>> OBVIOUS
  <2>3. \A i \in FunctionFrames' : stack'[i].fn \in Function /\ entry'[stack'[i].fn] # 0
    BY <1>5, <1>6, <2>1, <2>2
  <2>4. \A i, j \in FunctionFrames' : i # j => stack'[i].fn # stack'[j].fn
    BY <1>5, <1>6, <2>1
  <2>5. \A i, j \in FunctionFrames' : stack'[i].fn = function_' => j <= i
    BY <1>5, <1>6, <2>1, <2>2
  <2>. QED BY <1>7, <2>3, <2>4, <2>5 DEF OpenOnce
<1>. QED BY <1>5, <1>6, <1>8, Zenon

LEMMA HideKept ==
  ASSUME HideInv, Next
  PROVE  IInv' /\ LoopsSaved' /\ Made'
<1>1. IInv' BY Inductive DEF HideInv
<1>2. LoopsSaved'
  <2>1. TypeOK /\ FramesShaped BY DEF HideInv, IInv
  <2>. QED BY <2>1, StackStep, LoopsKept DEF HideInv
<1>3. Made' BY MadeStep DEF HideInv
<1>. QED BY <1>1, <1>2, <1>3

(* A step that leaves the functions that run as they are.                  *)
LEMMA HideIf ==
  ASSUME HideInv, IInv', LoopsSaved', Made', OpenOnce', FunctionFrames' = FunctionFrames,
         \A p \in FunctionFrames : stack'[p] = stack[p], UNCHANGED function_,
         NEW g, Shows(g), NEW live \in BOOLEAN, NEW scopes \in Seq(Brace),
         Reader' = [live |-> live, scopes |-> scopes], NEW h, Tells(h, scopes, stack'),
         \A p \in FunctionFrames : \A S \in SUBSET Block :
           Runs(p) /\ Shown(g, p, S) =>
             \E U \in SUBSET Block : Leads(U)' /\ Here(U)' /\ Reads(h, p, live, stack', U)
  PROVE  HideInv'
<1>1. Reader'.live = live /\ Reader'.scopes = scopes OBVIOUS
<1>2. ReaderTyped' BY DEF ReaderTyped
<1>3. ASSUME NEW p \in FunctionFrames, stack[p].fn = function_
      PROVE  \E U \in SUBSET Block : Shown(h, p, U)'
  <2>1. PICK S \in SUBSET Block : Shown(g, p, S) BY <1>3 DEF Shows, ShowsAt
  <2>2. PICK U \in SUBSET Block : Leads(U)' /\ Here(U)' /\ Reads(h, p, live, stack', U)
    BY <1>3, <2>1 DEF Runs
  <2>. QED BY <1>1, <2>2 DEF Shown
<1>4. Shows(h)'
  <2>1. ASSUME NEW p \in FunctionFrames PROVE ShowsAt(h, p)'
    BY <1>3, <2>1 DEF ShowsAt
  <2>. QED BY <2>1 DEF Shows
<1>5. ShownInv' BY <1>1, <1>4 DEF ShownInv
<1>. QED BY <1>2, <1>5 DEF HideInv
-----------------------------------------------------------------------------
(* Steps that open and close no brace.                                     *)

LEMMA StopShown ==
  ASSUME HideInv, Abort \/ UNCHANGED vars
  PROVE  HideInv'
<1>1. /\ UNCHANGED <<stack, source_code_, insert, exited_block_, current_loop_>>
      /\ UNCHANGED <<function_, entry, code, blocks>>
  BY DEF Abort, vars
<1>2. IInv' BY AbortStep, StutterStep DEF HideInv
<1>3. Reader' = Reader BY <1>1 DEF Reader
<1>4. LoopsSaved' BY <1>1 DEF HideInv, LoopsSaved, InnermostLoop
<1>5. ReaderTyped' BY <1>3 DEF HideInv, ReaderTyped
<1>6. FunctionFrames' = FunctionFrames BY <1>1 DEF FunctionFrames
<1>7. OpenOnce' BY <1>1, <1>6 DEF HideInv, OpenOnce
<1>8. Made' BY <1>1 DEF HideInv, Made, CodeMade
<1>9. PICK g : Tells(g, Reader.scopes, stack) /\ Shows(g) BY DEF HideInv, ShownInv
<1>10. ASSUME NEW p \in FunctionFrames, stack[p].fn = function_
       PROVE  \E S \in SUBSET Block : Shown(g, p, S)'
  <2>1. PICK S \in SUBSET Block : Shown(g, p, S) BY <1>9, <1>10 DEF Shows, ShowsAt
  <2>2. Leads(S)' BY <1>1, <2>1 DEF Shown, Leads
  <2>3. Here(S)' BY <1>1, <1>3, <2>1 DEF Shown, Here
  <2>4. Reads(g, p, Reader.live, stack, S)' BY <1>1, <1>3, <2>1 DEF Shown
  <2>. QED BY <2>2, <2>3, <2>4 DEF Shown
<1>11. Shows(g)'
  <2>1. ASSUME NEW p \in FunctionFrames PROVE ShowsAt(g, p)' BY <1>1, <1>10, <2>1 DEF ShowsAt
  <2>. QED BY <1>6, <2>1 DEF Shows
<1>12. ShownInv'
  <2>1. Tells(g, Reader'.scopes, stack') BY <1>1, <1>3, <1>9
  <2>. QED BY <1>11, <2>1 DEF ShownInv
<1>. QED BY <1>2, <1>4, <1>5, <1>7, <1>8, <1>12 DEF HideInv

LEMMA SameFrames ==
  ASSUME HideInv, UNCHANGED <<stack, function_, entry>>
  PROVE  /\ OpenOnce' /\ FunctionFrames' = FunctionFrames
         /\ \A p \in FunctionFrames : stack'[p] = stack[p]
<1>1. FunctionFrames' = FunctionFrames BY DEF FunctionFrames
<1>. QED BY <1>1 DEF HideInv, OpenOnce

LEMMA PlainShown ==
  ASSUME HideInv, Next, stack # <<>>,
         UNCHANGED <<stack, insert, exited_block_, function_, entry, blocks>>,
         Reader' = Reader,
         \A b \in Block : Targets(code'[b]) = Targets(code[b]),
         Ends(code[insert]) => Ends(code'[insert])
  PROVE  HideInv'
<1>1. /\ Reader.live \in BOOLEAN /\ Reader.scopes \in Seq(Brace)
      /\ Reader = [live |-> Reader.live, scopes |-> Reader.scopes]
  BY HideFacts
<1>2. PICK g : Tells(g, Reader.scopes, stack) /\ Shows(g) BY DEF HideInv, ShownInv
<1>3. ASSUME NEW p \in FunctionFrames, NEW S \in SUBSET Block, Runs(p), Shown(g, p, S)
      PROVE  Leads(S)' /\ Here(S)' /\ Reads(g, p, Reader.live, stack', S)
  <2>1. Leads(S)' BY <1>3, StillLeads DEF Shown
  <2>2. Here(S)' BY <1>3 DEF Shown, Here
  <2>3. Reads(g, p, Reader.live, stack', S) BY <1>3 DEF Shown
  <2>. QED BY <2>1, <2>2, <2>3
<1>4. \A p \in FunctionFrames : \A S \in SUBSET Block :
        Runs(p) /\ Shown(g, p, S) =>
          \E U \in SUBSET Block : Leads(U)' /\ Here(U)' /\ Reads(g, p, Reader.live, stack', U)
  BY <1>3
<1>5. Tells(g, Reader.scopes, stack') BY <1>2
<1>6. Reader' = [live |-> Reader.live, scopes |-> Reader.scopes] BY <1>1
<1>. QED BY <1>1, <1>2, <1>4, <1>5, <1>6, HideKept, SameFrames, HideIf

LEMMA StatementShown ==
  ASSUME HideInv, Next, Statement \/ VariableGet
  PROVE  HideInv'
<1>1. stack # <<>> BY DEF Statement, VariableGet, MayAdd, MayCall
<1>2. /\ TypeOK /\ IInv /\ loc \in Location /\ code \in [Block -> Seq(Instr)]
      /\ insert \in Block
  BY <1>1, HideFacts DEF TypeOK
<1>3. PICK op \in {"op", "get"}, at \in Location : code' = Emitted(Instruction(op, {}, at))
  BY <1>2, LineFacts DEF Statement, VariableGet
<1> DEFINE i == Instruction(op, {}, at)
<1>4. i \in Instr /\ i.to = {} /\ i.op \notin Terminators
  BY <1>2, EmittedType DEF Instruction, Terminators
<1>5. code' = Emitted(i) BY <1>3
<1>. HIDE DEF i
<1>6. UNCHANGED <<function_, entry, stack, insert, exited_block_, blocks>>
  BY DEF Statement, VariableGet
<1>7. /\ code'[insert] = Append(code[insert], i)
      /\ \A b \in Block : b # insert => code'[b] = code[b]
  BY <1>2, <1>5 DEF Emitted
<1>8. \A b \in Block : Targets(code'[b]) = Targets(code[b])
  <2>1. Targets(code'[insert]) = Targets(code[insert]) BY <1>2, <1>4, <1>7, TargetsGrow
  <2>. QED BY <1>7, <2>1
<1>9. Ends(code[insert]) => Ends(code'[insert])
  <2>1. code[insert] \in Seq(Instr) BY <1>2
  <2>. QED BY <1>4, <1>7, <2>1, EndsAppend
<1>10. Reader' = Reader
  <2>1. CASE Statement BY <1>2, <2>1, StatementRead DEF Statement
  <2>2. CASE VariableGet BY <2>2 DEF VariableGet, Reader
  <2>. QED BY <2>1, <2>2
<1>. QED BY <1>1, <1>6, <1>8, <1>9, <1>10, PlainShown

LEMMA VariableDeclShown ==
  ASSUME HideInv, Next, VariableDecl
  PROVE  HideInv'
<1> DEFINE e == entry[function_]
           a == Alloca
<1>1. stack # <<>> BY DEF VariableDecl, MayCall
<1>2. TypeOK /\ e \in Block /\ insert \in Block /\ code \in [Block -> Seq(Instr)]
  BY <1>1, HideFacts DEF TypeOK
<1>4. a \in Instr /\ a.op \notin Terminators BY <1>2, AllocaFacts
<1>5. code' = [code EXCEPT ![e] = <<a>> \o @] BY DEF VariableDecl
<1>6. UNCHANGED <<function_, entry, stack, insert, exited_block_, blocks>>
      /\ add_line("declaration")
  BY DEF VariableDecl
<1>. HIDE DEF a, e
<1>7. /\ code'[e] = <<a>> \o code[e]
      /\ \A b \in Block : b # e => code'[b] = code[b]
  BY <1>2, <1>5
<1>8. code[e] \in Seq(Instr) BY <1>2
<1>9. \A b \in Block : Targets(code'[b]) = Targets(code[b])
  <2>1. Targets(code'[e]) = Targets(code[e]) BY <1>4, <1>7, <1>8, TargetsBehind
  <2>. QED BY <1>7, <2>1
<1>10. Ends(code[insert]) => Ends(code'[insert])
  <2>1. CASE insert = e
    <3>1. Ends(<<a>> \o code[e]) <=> Ends(code[e]) BY <1>4, <1>8, EndsPrepend
    <3>. QED BY <1>7, <2>1, <3>1
  <2>2. CASE insert # e BY <1>2, <1>7, <2>2
  <2>. QED BY <2>1, <2>2
<1>. QED BY <1>1, <1>2, <1>6, <1>9, <1>10, PlainShown, StatementRead

(* The blocks break_ and continue_ go to, if they can run.                 *)
LEMMA LoopShown ==
  ASSUME HideInv, NEW g, Tells(g, Reader.scopes, stack), NEW p, Runs(p),
         NEW S, Shown(g, p, S), Reader.live
  PROVE  /\ current_loop_.break_block_ # 0 => current_loop_.break_block_ \in S
         /\ current_loop_.continue_block_ # 0 => current_loop_.continue_block_ \in S
<1>1. /\ stack # <<>> /\ p \in Nat \ {0} /\ p <= Len(stack)
      /\ Reads(g, p, Reader.live, stack, S) /\ g[Len(stack)].before
  BY ShownFacts
<1>2. CASE current_loop_ = NoLoop BY <1>2 DEF NoLoop
<1>3. ASSUME NEW i \in 1..Len(stack), IsLoop(stack[i]), current_loop_ = BlocksOf(stack[i])
      PROVE  /\ current_loop_.break_block_ \in S
             /\ current_loop_.continue_block_ \in S
  <2>1. Len(stack) \in Nat BY LenProperties DEF HideInv, IInv, TypeOK
  <2>2. CASE i \in p..Len(stack)
    <3>1. g[i].before
      <4>1. i = Len(stack) \/ i < Len(stack) BY <2>1
      <4>2. Len(stack) \in p..Len(stack) BY <1>1, <2>1
      <4>. QED BY <1>1, <2>2, <4>1, <4>2 DEF Reads
    <3>2. Covers(stack[i], g[i], S) BY <1>1, <1>3, <2>2 DEF Reads, IsLoop
    <3>. QED BY <1>3, <3>1, <3>2 DEF Covers, BlocksOf
  <2>3. CASE i \in 1..(p - 1) BY <1>1, <1>3, <2>3 DEF Reads, BlocksOf
  <2>4. i \in p..Len(stack) \/ i \in 1..(p - 1) BY <1>1, <2>1
  <2>. QED BY <2>2, <2>3, <2>4
<1>. QED BY <1>2, <1>3 DEF HideInv, LoopsSaved, InnermostLoop

LEMMA ExitShown ==
  ASSUME HideInv, Next, MayExit,
         NEW kind \in {"return", "break", "continue"}, NEW op \in Terminators,
         NEW to \in SUBSET Block, Exit(kind, op, to),
         to # {} => \E t \in {current_loop_.break_block_, current_loop_.continue_block_} :
                      t # 0 /\ to = {t}
  PROVE  HideInv'
<1> DEFINE i == Instruction(op, to, At(line_no_))
<1>1. stack # <<>> BY DEF MayExit, MayCall
<1>2. /\ TypeOK /\ IInv /\ Reader.live \in BOOLEAN /\ Reader.scopes \in Seq(Brace)
      /\ Reader = [live |-> Reader.live, scopes |-> Reader.scopes]
      /\ insert \in Block /\ code \in [Block -> Seq(Instr)] /\ blocks \in Nat
  BY <1>1, HideFacts DEF TypeOK
<1>3. At(line_no_) \in Location BY <1>2, LineFacts
<1>4. i \in Instr /\ i.to = to /\ i.op = op BY <1>2, <1>3, EmittedType DEF Instruction
<1>5. /\ UNCHANGED <<function_, entry, stack, insert, blocks>> /\ exited_block_' = TRUE
      /\ code' = Emitted(i) /\ add_line(kind)
  BY DEF Exit
<1>. HIDE DEF i
<1>6. Reader' = [live |-> FALSE, scopes |-> Reader.scopes]
  <2>1. kind \in LineKind BY DEF LineKind
  <2>2. Reader' = ReadLine(Reader, kind) BY <1>2, <1>5, <2>1, LineRead
  <2>3. ReadLine(Reader, kind) = [Reader EXCEPT !.live = FALSE] BY DEF ReadLine
  <2>. QED BY <2>2, <2>3 DEF HideInv, ReaderTyped
<1>7. Ends(code'[insert])
  <2>1. code[insert] \in Seq(Instr) BY <1>2
  <2>2. code'[insert] = Append(code[insert], i) BY <1>2, <1>5 DEF Emitted
  <2>. QED BY <1>4, <2>1, <2>2, EndsAppend
<1>8. PICK g : Tells(g, Reader.scopes, stack) /\ Shows(g) BY DEF HideInv, ShownInv
<1>9. ASSUME NEW p \in FunctionFrames, NEW S \in SUBSET Block, Runs(p), Shown(g, p, S)
      PROVE  Leads(S)' /\ Here(S)' /\ Reads(g, p, FALSE, stack', S)
  <2>1. Leads(S) /\ Reads(g, p, Reader.live, stack, S) BY <1>9 DEF Shown
  <2>2. Reader.live => to \subseteq S BY <1>8, <1>9, LoopShown
  <2>3. insert \in S /\ ~Ends(code[insert]) => Reader.live BY <1>8, <1>9, ShownFacts
  <2>4. Leads(S \cup {})'
    <3>1. code' = Emitted(i) /\ insert \in S /\ ~Ends(code[insert]) /\ i.op \in Terminators =>
            i.to \subseteq S \cup {}
      BY <1>4, <2>2, <2>3
    <3>2. {} \in SUBSET Block /\ \A t \in {} : parent[t] = 0 /\ t <= blocks' OBVIOUS
    <3>3. UNCHANGED <<function_, entry>> /\ blocks' = blocks BY <1>5
    <3>4. blocks <= blocks' /\ blocks' \in Nat BY <1>2, <3>3
    <3>5. code' = code \/ code' = Emitted(i) BY <1>5
    <3>. QED BY <1>1, <1>2, <1>4, <2>1, <3>1, <3>2, <3>3, <3>4, <3>5, Spread
  <2>5. Leads(S)'
    <3>1. S \cup {} = S OBVIOUS
    <3>. QED BY <2>4, <3>1
  <2>6. Here(S)' BY <1>5, <1>6, <1>7 DEF Here
  <2>7. Reads(g, p, FALSE, stack', S) BY <1>5, <2>1, ReadsLess
  <2>. QED BY <2>5, <2>6, <2>7
<1>10. \A p \in FunctionFrames : \A S \in SUBSET Block :
         Runs(p) /\ Shown(g, p, S) =>
           \E U \in SUBSET Block : Leads(U)' /\ Here(U)' /\ Reads(g, p, FALSE, stack', U)
  BY <1>9
<1>11. Tells(g, Reader.scopes, stack') BY <1>5, <1>8
<1>12. /\ OpenOnce' /\ FunctionFrames' = FunctionFrames
       /\ \A p \in FunctionFrames : stack'[p] = stack[p]
  BY <1>5, SameFrames
<1>. QED BY <1>2, <1>5, <1>6, <1>8, <1>10, <1>11, <1>12, HideKept, HideIf

LEMMA ExitsShown ==
  ASSUME HideInv, Next, Return \/ Break \/ Continue
  PROVE  HideInv'
<1>1. current_loop_ \in Loop BY DEF HideInv, IInv, TypeOK
<1>2. CASE Return
  <2>1. {} \in SUBSET Block /\ "ret" \in Terminators BY DEF Terminators
  <2>. QED BY <1>2, <2>1, ExitShown DEF Return
<1>3. CASE Break
  <2> DEFINE t == current_loop_.break_block_
  <2>1. CASE t = 0 BY <1>3, <2>1, StopShown DEF Break
  <2>2. CASE t # 0
    <3>1. {t} \in SUBSET Block /\ "br" \in Terminators
      BY <1>1, <2>2, BoundsAssumption DEF Loop, Block, Terminators
    <3>2. MayExit /\ Exit("break", "br", {t}) BY <1>3, <2>2 DEF Break
    <3>3. \E u \in {current_loop_.break_block_, current_loop_.continue_block_} :
            u # 0 /\ {t} = {u}
      BY <2>2
    <3>. HIDE DEF t
    <3>. QED BY <3>1, <3>2, <3>3, ExitShown
  <2>. QED BY <2>1, <2>2
<1>4. CASE Continue
  <2> DEFINE t == current_loop_.continue_block_
  <2>1. CASE t = 0 BY <1>4, <2>1, StopShown DEF Continue
  <2>2. CASE t # 0
    <3>1. {t} \in SUBSET Block /\ "br" \in Terminators
      BY <1>1, <2>2, BoundsAssumption DEF Loop, Block, Terminators
    <3>2. MayExit /\ Exit("continue", "br", {t}) BY <1>4, <2>2 DEF Continue
    <3>3. \E u \in {current_loop_.break_block_, current_loop_.continue_block_} :
            u # 0 /\ {t} = {u}
      BY <2>2
    <3>. HIDE DEF t
    <3>. QED BY <3>1, <3>2, <3>3, ExitShown
  <2>. QED BY <2>1, <2>2
<1>. QED BY <1>2, <1>3, <1>4
-----------------------------------------------------------------------------
(* Steps that start a lambda, or the next one of the same statement.       *)

(* The innermost lambda is in the innermost brace.                         *)
LEMMA TellsTop ==
  ASSUME NEW scopes \in Seq(Brace), NEW frames \in Seq(Frame), frames # <<>>, NEW g,
         Tells(g, scopes, frames)
  PROVE  /\ scopes # <<>> /\ Len(scopes) \in Nat \ {0}
         /\ g[Len(frames)] = scopes[Len(scopes)] /\ Last(scopes) = scopes[Len(scopes)]
         /\ Last(scopes) \in Brace
<1>1. PICK d \in [1..Len(frames) -> 1..Len(scopes)] :
        /\ Aligned(d, Len(scopes), frames)
        /\ g = [i \in 1..Len(frames) |-> scopes[d[i]]]
  BY DEF Tells
<1>2. Len(scopes) \in Nat /\ Len(frames) \in 1..Len(frames) BY LenProperties, TopFacts
<1>3. d[Len(frames)] = Len(scopes) /\ d[Len(frames)] \in 1..Len(scopes)
  BY <1>1, <1>2 DEF Aligned
<1>4. Len(scopes) \in Nat \ {0} /\ scopes # <<>> BY <1>2, <1>3, EmptySeq
<1>5. g[Len(frames)] = scopes[Len(scopes)] BY <1>1, <1>2, <1>3
<1>6. scopes[Len(scopes)] \in Brace BY <1>4, TopFacts
<1>. QED BY <1>4, <1>5, <1>6, FrontFacts

(* The open lambdas after one is started, or replaced by the next.         *)
LEMMA OpenPushed ==
  ASSUME HideInv, stack # <<>>, NEW f \in Frame, f.kind # "function",
         stack' = Append(stack, f), UNCHANGED <<function_, entry>>
  PROVE  /\ OpenOnce' /\ FunctionFrames' = FunctionFrames
         /\ \A p \in FunctionFrames : stack'[p] = stack[p]
         /\ stack' \in Seq(Frame) /\ Len(stack') = Len(stack) + 1
         /\ stack'[Len(stack) + 1] = f
         /\ \A i \in 1..Len(stack) : stack'[i] = stack[i]
<1>1. stack \in Seq(Frame) /\ OpenOnce BY DEF HideInv, IInv, TypeOK
<1>2. /\ stack' \in Seq(Frame) /\ Len(stack') = Len(stack) + 1 /\ Len(stack) \in Nat
      /\ stack'[Len(stack) + 1] = f
      /\ \A i \in 1..Len(stack) : stack'[i] = stack[i]
  BY <1>1, PushFacts
<1>3. \A n \in Nat : n <= n /\ \A i \in 1..n : ~(i > n) OBVIOUS
<1>4. /\ OpenOnce' /\ FunctionFrames' = FunctionFrames
      /\ \A p \in FunctionFrames : stack'[p] = stack[p]
  BY <1>1, <1>2, <1>3, OpenKept, Zenon
<1>. QED BY <1>2, <1>4

LEMMA OpenReplaced ==
  ASSUME HideInv, stack # <<>>, Top.kind # "function", NEW f \in Frame, f.kind # "function",
         stack' = [stack EXCEPT ![Len(stack)] = f], UNCHANGED <<function_, entry>>
  PROVE  LET q == Len(stack) - 1 IN
         /\ OpenOnce' /\ FunctionFrames' = FunctionFrames
         /\ \A p \in FunctionFrames : stack'[p] = stack[p]
         /\ stack' \in Seq(Frame) /\ Len(stack') = q + 1 /\ Len(stack) = q + 1
         /\ q \in Nat \ {0} /\ q <= Len(stack)
         /\ stack'[q + 1] = f /\ Top = stack[q + 1]
         /\ \A i \in 1..q : stack'[i] = stack[i] /\ i \in 1..Len(stack) /\ i # Len(stack)
<1> DEFINE q == Len(stack) - 1
<1>1. stack \in Seq(Frame) /\ OpenOnce BY DEF HideInv, IInv, TypeOK
<1>2. /\ stack' \in Seq(Frame) /\ Len(stack') = Len(stack)
      /\ stack'[Len(stack)] = f
      /\ \A i \in 1..(Len(stack) - 1) : stack'[i] = stack[i]
  BY <1>1, ReplaceFacts
<1>3. Len(stack) \in Nat \ {0} BY <1>1, TopFacts
<1>4. /\ q \in Nat /\ q <= Len(stack) /\ Len(stack) = q + 1
      /\ \A i \in 1..q : i \in 1..Len(stack) /\ i # Len(stack)
      /\ \A i \in 1..Len(stack) : i > q => i = Len(stack)
  BY <1>3
<1>5. q # 0
  <2>. SUFFICES ASSUME q = 0 PROVE FALSE OBVIOUS
  <2>1. Len(stack) = q + 1 BY <1>4
  <2>2. Len(stack) = 1 BY <2>1
  <2>. QED BY <1>1, <2>2 DEF OpenOnce, Top
<1>6. /\ Len(stack') = q + 1 /\ stack'[q + 1] = f /\ Top = stack[q + 1]
      /\ \A i \in 1..q : stack'[i] = stack[i]
      /\ \A i \in 1..Len(stack) : i > q => stack[i].kind # "function"
  BY <1>2, <1>4 DEF Top
<1>. HIDE DEF q
<1>7. /\ OpenOnce' /\ FunctionFrames' = FunctionFrames
      /\ \A p \in FunctionFrames : stack'[p] = stack[p]
  BY <1>1, <1>2, <1>4, <1>6, OpenKept, Zenon
<1>. QED BY <1>2, <1>4, <1>5, <1>6, <1>7, Zenon DEF q

LEMMA IfShown ==
  ASSUME HideInv, Next, IfElse \/ IfOnly
  PROVE  HideInv'
<1>1. PICK kind \in {"then_else", "then"}, pending \in {1, 2} :
        /\ IfBegin(kind, pending) /\ pending = IF kind = "then" THEN 1 ELSE 2
  BY DEF IfElse, IfOnly
<1>2. CASE exited_block_ BY <1>1, <1>2, StopShown DEF IfBegin
<1>3. CASE ~exited_block_
  <2> DEFINE next == blocks + 2
             merge == blocks + 1 + pending
             f == [NewFrame(kind) EXCEPT !.exit_block = merge,
                                         !.next_block = IF next = merge THEN 0 ELSE next]
             i == Instruction("condbr", {blocks + 1, next}, At(line_no_))
             s == [brace |-> "if", before |-> Reader.live, joined |-> FALSE]
             n == Len(stack)
  <2>1. stack # <<>> BY <1>1 DEF IfBegin, MayNest, MayCall
  <2>2. /\ TypeOK /\ IInv /\ Reader.live \in BOOLEAN /\ Reader.scopes \in Seq(Brace)
        /\ stack \in Seq(Frame) /\ blocks \in Nat /\ n \in Nat \ {0}
        /\ Reader = [live |-> Reader.live, scopes |-> Reader.scopes]
    BY <2>1, HideFacts
  <2>3. /\ add_line("if") /\ code' = Emitted(i) /\ insert' = blocks + 1
        /\ stack' = Append(stack, f) /\ UNCHANGED <<function_, exited_block_, entry>>
        /\ blocks' = blocks + 1 + pending
    BY <1>1, <1>3 DEF IfBegin, FalseBlock, PlaceAndInsert, Push
  <2>4. /\ merge \in Block /\ next \in Block /\ blocks + 1 \in Block
        /\ blocks + 1 > blocks /\ next > blocks /\ merge > blocks
        /\ merge # blocks + 1 /\ (kind = "then" => next = merge)
        /\ (kind = "then_else" => next # merge /\ next # 0 /\ next # blocks + 1)
        /\ blocks <= blocks' /\ blocks' \in Nat /\ blocks + 1 <= blocks' /\ next <= blocks'
    <3>1. /\ merge \in Block /\ next \in Block /\ blocks + 1 \in Block
          /\ blocks + 1 > blocks /\ next > blocks /\ merge > blocks
      BY <1>1, <2>2, IfBlocks
    <3>2. pending = 1 \/ pending = 2 OBVIOUS
    <3>. QED BY <1>1, <2>2, <2>3, <3>1, <3>2
  <2>5. At(line_no_) \in Location BY <2>2, LineFacts
  <2>6. i \in Instr /\ i.to = {blocks + 1, next} /\ i.op \in Terminators
    BY <2>2, <2>4, <2>5, EmittedType DEF Instruction, Terminators
  <2>7. f \in Frame
    <3>1. NewFrame(kind) \in Frame /\ 0 \in 0..MaxBlocks
      BY <2>2, NewFrameType, BoundsAssumption DEF FrameKind
    <3>2. merge \in 0..MaxBlocks /\ (IF next = merge THEN 0 ELSE next) \in 0..MaxBlocks
      BY <2>4, <3>1 DEF Block
    <3>3. \A g \in Frame : \A a, b \in 0..MaxBlocks :
            [g EXCEPT !.exit_block = a, !.next_block = b] \in Frame
      BY DEF Frame
    <3>. HIDE DEF next, merge
    <3>. QED BY <3>1, <3>2, <3>3
  <2>8. /\ f.kind = kind /\ f.exit_block = merge
        /\ f.next_block = IF next = merge THEN 0 ELSE next
    BY DEF NewFrame
  <2>9. s \in Brace /\ s.brace = "if" /\ (s.before <=> Reader.live)
    BY <2>2 DEF Brace, LineKind
  <2>10. Reader' = [live |-> Reader.live, scopes |-> Append(Reader.scopes, s)]
    <3>1. Reader' = ReadLine(Reader, "if") BY <2>2, <2>3, LineRead DEF LineKind
    <3>2. ReadLine(Reader, "if") = OpenBrace(Reader, "if") BY DEF ReadLine
    <3>. QED BY <3>1, <3>2 DEF OpenBrace, HideInv, ReaderTyped
  <2>. HIDE DEF i, f, s, next, merge
  <2>11. /\ OpenOnce' /\ FunctionFrames' = FunctionFrames
         /\ \A p \in FunctionFrames : stack'[p] = stack[p]
         /\ stack' \in Seq(Frame) /\ Len(stack') = n + 1 /\ stack'[n + 1] = f
         /\ \A j \in 1..n : stack'[j] = stack[j]
    <3>1. f.kind # "function" BY <2>8
    <3>. QED BY <2>1, <2>3, <2>7, <3>1, OpenPushed
  <2>12. PICK g : Tells(g, Reader.scopes, stack) /\ Shows(g) BY DEF HideInv, ShownInv
  <2> DEFINE h == [j \in 1..(n + 1) |-> IF j = n + 1 THEN s ELSE g[j]]
  <2>13. Tells(h, Append(Reader.scopes, s), stack')
    <3>1. stack'[n + 1].kind # "cond1" BY <2>8, <2>11
    <3>. HIDE DEF h
    <3>. QED BY <2>2, <2>9, <2>11, <2>12, <3>1, TellsOpen DEF h
  <2>14. h[n + 1] = s /\ \A j \in 1..n : h[j] = g[j]
    <3>1. n + 1 \in 1..(n + 1) /\ \A j \in 1..n : j \in 1..(n + 1) /\ j # n + 1 BY <2>2
    <3>. QED BY <3>1
  <2>15. Append(Reader.scopes, s) \in Seq(Brace) BY <2>2, <2>9, PushFacts
  <2>. HIDE DEF h
  <2>16. ASSUME NEW p \in FunctionFrames, NEW S \in SUBSET Block, Runs(p), Shown(g, p, S)
         PROVE  \E U \in SUBSET Block :
                  Leads(U)' /\ Here(U)' /\ Reads(h, p, Reader.live, stack', U)
    <3>1. PICK T \in SUBSET Block : T = IF Reader.live THEN {blocks + 1, next} ELSE {}
      BY <2>4
    <3>2. /\ p \in Nat \ {0} /\ p <= n /\ \A b : b > blocks => b \notin S
          /\ Reader.live => g[n].before /\ ~exited_block_
          /\ insert \in S /\ ~Ends(code[insert]) => Reader.live
          /\ Leads(S) /\ Reads(g, p, Reader.live, stack, S)
      BY <2>12, <2>16, ShownFacts
    <3>3. Leads(S \cup T)'
      <4>1. \A t \in T : parent[t] = 0 /\ t <= blocks'
        BY <2>2, <2>4, <3>1 DEF IInv, UncreatedUnplaced
      <4>2. code' = Emitted(i) /\ insert \in S /\ ~Ends(code[insert]) /\ i.op \in Terminators =>
              i.to \subseteq S \cup T
        BY <2>6, <3>1, <3>2
      <4>3. UNCHANGED <<function_, entry>> /\ (code' = code \/ code' = Emitted(i)) BY <2>3
      <4>. QED BY <2>1, <2>2, <2>4, <2>6, <3>2, <4>1, <4>2, <4>3, Spread
    <3>4. Here(S \cup T)'
      <4>1. insert' \in S \cup T => Reader.live BY <2>3, <2>4, <3>1, <3>2
      <4>2. ~exited_block_' /\ Reader'.live = Reader.live BY <1>3, <2>3, <2>10
      <4>. QED BY <4>1, <4>2 DEF Here
    <3>5. Covers(f, s, S \cup T)
      <4>1. kind = "then_else" => /\ next \in S \cup T => Reader.live
                                  /\ merge \notin S \cup T
        BY <2>4, <3>1, <3>2
      <4>2. kind = "then" => (merge \in S \cup T => Reader.live)
        BY <2>4, <3>1, <3>2
      <4>3. kind = "then_else" => f.next_block = next BY <2>4, <2>8
      <4>. QED BY <2>8, <2>9, <4>1, <4>2, <4>3 DEF Covers, IsLoop
    <3>6. NoneOwes(n, T) BY <2>4, <3>1 DEF OwnOrNew, NoneOwes
    <3>7. Reads(h, p, Reader.live, stack', S \cup T)
      <4>1. stack'[n + 1].kind # "cond1" => Covers(stack'[n + 1], h[n + 1], S \cup T)
        BY <2>11, <2>14, <3>5
      <4>2. /\ h[n + 1].before => g[Len(stack)].before
            /\ Reader.live => h[n + 1].before
        BY <2>9, <2>14, <3>2
      <4>3. SameUpTo(n, stack', h, g) BY <2>11, <2>14 DEF SameUpTo
      <4>4. n \in Nat /\ n <= Len(stack) BY <2>2
      <4>. QED BY <2>2, <2>11, <3>2, <3>6, <4>1, <4>2, <4>3, <4>4, ReadsOn
    <3>8. S \cup T \in SUBSET Block OBVIOUS
    <3>. QED BY <3>3, <3>4, <3>7, <3>8
  <2>17. UNCHANGED function_ BY <2>3
  <2>. QED BY <2>2, <2>10, <2>11, <2>12, <2>13, <2>15, <2>16, <2>17, HideKept, HideIf
<1>. QED BY <1>2, <1>3

LEMMA WhileBeginShown ==
  ASSUME HideInv, Next, WhileBegin
  PROVE  HideInv'
<1> DEFINE f == NewFrame("cond1")
           n == Len(stack)
<1>1. stack # <<>> BY DEF WhileBegin, MayNest, MayCall
<1>2. /\ TypeOK /\ IInv /\ Reader.live \in BOOLEAN /\ Reader.scopes \in Seq(Brace)
      /\ stack \in Seq(Frame) /\ n \in Nat \ {0}
      /\ Reader = [live |-> Reader.live, scopes |-> Reader.scopes]
  BY <1>1, HideFacts
<1>3. f \in Frame /\ f.kind = "cond1" BY <1>2, NewFrameType DEF FrameKind, NewFrame
<1>4. /\ stack' = Append(stack, f)
      /\ UNCHANGED <<function_, entry, code, blocks, insert, exited_block_, source_code_>>
  BY DEF WhileBegin, Push
<1>. HIDE DEF f
<1>5. Reader' = [live |-> Reader.live, scopes |-> Reader.scopes] BY <1>2, <1>4 DEF Reader
<1>6. /\ OpenOnce' /\ FunctionFrames' = FunctionFrames
      /\ \A p \in FunctionFrames : stack'[p] = stack[p]
      /\ stack' \in Seq(Frame) /\ Len(stack') = n + 1 /\ stack'[n + 1] = f
      /\ \A j \in 1..n : stack'[j] = stack[j]
  BY <1>1, <1>3, <1>4, OpenPushed
<1>7. PICK g : Tells(g, Reader.scopes, stack) /\ Shows(g) BY DEF HideInv, ShownInv
<1> DEFINE h == [j \in 1..(n + 1) |-> IF j = n + 1 THEN g[n] ELSE g[j]]
<1>8. Tells(h, Reader.scopes, stack') BY <1>1, <1>2, <1>3, <1>4, <1>7, TellsTest
<1>9. h[n + 1] = g[n] /\ \A j \in 1..n : h[j] = g[j]
  <2>1. n + 1 \in 1..(n + 1) /\ \A j \in 1..n : j \in 1..(n + 1) /\ j # n + 1 BY <1>2
  <2>. QED BY <2>1
<1>. HIDE DEF h
<1>10. ASSUME NEW p \in FunctionFrames, NEW S \in SUBSET Block, Runs(p), Shown(g, p, S)
       PROVE  \E U \in SUBSET Block :
                Leads(U)' /\ Here(U)' /\ Reads(h, p, Reader.live, stack', U)
  <2>1. /\ p \in Nat \ {0} /\ p <= n
        /\ Leads(S) /\ Here(S) /\ Reads(g, p, Reader.live, stack, S)
    BY <1>7, <1>10, ShownFacts
  <2>2. Leads(S)' BY <1>4, <2>1, StillLeads
  <2>3. Here(S)' BY <1>4, <1>5, <2>1 DEF Here
  <2>4. PICK T \in SUBSET Block : T = {} OBVIOUS
  <2>5. Reads(h, p, Reader.live, stack', S \cup T)
    <3>1. stack'[n + 1].kind # "cond1" => Covers(stack'[n + 1], h[n + 1], S \cup T)
      BY <1>3, <1>6
    <3>2. h[n + 1].before => g[Len(stack)].before BY <1>9
    <3>3. Reader.live => h[n + 1].before BY <1>7, <1>9, <1>10, ShownFacts
    <3>4. NoneOwes(n, T) BY <2>4 DEF OwnOrNew, NoneOwes
    <3>5. SameUpTo(n, stack', h, g) BY <1>6, <1>9 DEF SameUpTo
    <3>6. n \in Nat /\ n <= Len(stack) BY <1>2
    <3>. QED BY <1>2, <1>6, <2>1, <3>1, <3>2, <3>3, <3>4, <3>5, <3>6, ReadsOn
  <2>6. S \cup T = S BY <2>4
  <2>. QED BY <2>2, <2>3, <2>5, <2>6
<1>11. UNCHANGED function_ BY <1>4
<1>. QED BY <1>2, <1>5, <1>6, <1>7, <1>8, <1>10, <1>11, HideKept, HideIf

LEMMA WhileTestShown ==
  ASSUME HideInv, Next, WhileTest
  PROVE  HideInv'
<1> DEFINE head == blocks + 1
           out == blocks + 3
           f == [Top EXCEPT !.kind = "cond2", !.head_block = head,
                            !.next_block = blocks + 2, !.exit_block = out,
                            !.parent_loop = current_loop_]
           i == Instruction("br", {head}, loc)
           s == [brace |-> "while", before |-> Reader.live, joined |-> FALSE]
           q == Len(stack) - 1
<1>1. stack # <<>> /\ Top.kind = "cond1" BY DEF WhileTest, Returns
<1>2. /\ TypeOK /\ IInv /\ Reader.live \in BOOLEAN /\ Reader.scopes \in Seq(Brace)
      /\ stack \in Seq(Frame) /\ blocks \in Nat /\ Top \in Frame
      /\ Reader = [live |-> Reader.live, scopes |-> Reader.scopes]
  BY <1>1, HideFacts
<1>3. /\ add_line("while") /\ code' = Emitted(i) /\ insert' = head
      /\ stack' = [stack EXCEPT ![Len(stack)] = f] /\ blocks' = blocks + 3
      /\ UNCHANGED <<function_, exited_block_, entry>>
  BY DEF WhileTest, PlaceAndInsert, Replace
<1>4. /\ head \in Block /\ head > blocks /\ out > blocks /\ blocks + 2 > blocks
      /\ out \in Block /\ blocks + 2 # head /\ out # head /\ out # blocks + 2
      /\ blocks + 2 \in 0..MaxBlocks /\ out \in 0..MaxBlocks /\ head \in 0..MaxBlocks
      /\ blocks <= blocks' /\ blocks' \in Nat /\ head <= blocks' /\ out <= blocks'
  BY <1>2, <1>3, TestBlocks
<1>5. loc \in Location /\ current_loop_ \in Loop BY <1>2 DEF TypeOK
<1>6. i \in Instr /\ i.to = {head} /\ i.op \in Terminators
  BY <1>2, <1>4, <1>5, EmittedType DEF Instruction, Terminators
<1>7. f \in Frame /\ f.kind = "cond2" /\ f.head_block = head
      /\ f.next_block = blocks + 2 /\ f.exit_block = out
  BY <1>2, <1>4, <1>5 DEF Frame, FrameKind, TypeOK
<1>8. s \in Brace /\ s.brace = "while" /\ (s.before <=> Reader.live)
  BY <1>2 DEF Brace, LineKind
<1>9. Reader' = [live |-> Reader.live, scopes |-> Append(Reader.scopes, s)]
  <2>1. Reader' = ReadLine(Reader, "while") BY <1>2, <1>3, LineRead DEF LineKind
  <2>2. ReadLine(Reader, "while") = OpenBrace(Reader, "while") BY DEF ReadLine
  <2>. QED BY <2>1, <2>2 DEF OpenBrace, HideInv, ReaderTyped
<1>. HIDE DEF f, i, s, head, out
<1>10. /\ OpenOnce' /\ FunctionFrames' = FunctionFrames
       /\ \A p \in FunctionFrames : stack'[p] = stack[p]
       /\ stack' \in Seq(Frame) /\ Len(stack') = q + 1 /\ Len(stack) = q + 1
       /\ q \in Nat \ {0} /\ q <= Len(stack) /\ stack'[q + 1] = f /\ Top = stack[q + 1]
       /\ \A j \in 1..q : stack'[j] = stack[j] /\ j \in 1..Len(stack) /\ j # Len(stack)
  <2>1. Top.kind # "function" /\ f.kind # "function" BY <1>1, <1>7
  <2>2. UNCHANGED <<function_, entry>> /\ stack' = [stack EXCEPT ![Len(stack)] = f] BY <1>3
  <2>. QED BY <1>1, <1>7, <2>1, <2>2, OpenReplaced
<1>. HIDE DEF q
<1>11. PICK g : Tells(g, Reader.scopes, stack) /\ Shows(g) BY DEF HideInv, ShownInv
<1> DEFINE h == [j \in 1..(q + 1) |-> IF j = q + 1 THEN s ELSE g[j]]
<1>12. Tells(h, Append(Reader.scopes, s), stack')
  <2>1. stack'[q + 1].kind # "cond1" BY <1>7, <1>10
  <2>2. q + 1 = Len(stack) /\ q # 0 /\ stack[q + 1].kind = "cond1" BY <1>1, <1>10
  <2>3. q \in Nat /\ \A j \in 1..q : stack'[j] = stack[j] BY <1>10
  <2>. HIDE DEF h
  <2>. QED BY <1>2, <1>8, <1>10, <1>11, <2>1, <2>2, <2>3, TellsOpen DEF h
<1>13. h[q + 1] = s /\ \A j \in 1..q : h[j] = g[j]
  <2>1. q + 1 \in 1..(q + 1) /\ \A j \in 1..q : j \in 1..(q + 1) /\ j # q + 1 BY <1>10
  <2>. QED BY <2>1
<1>14. Append(Reader.scopes, s) \in Seq(Brace) BY <1>2, <1>8, PushFacts
<1>. HIDE DEF h
<1>15. ASSUME NEW p \in FunctionFrames, NEW S \in SUBSET Block, Runs(p), Shown(g, p, S)
       PROVE  \E U \in SUBSET Block :
                Leads(U)' /\ Here(U)' /\ Reads(h, p, Reader.live, stack', U)
  <2>1. PICK T \in SUBSET Block : T = IF Reader.live THEN {head, out} ELSE {} BY <1>4
  <2>2. /\ p \in Nat \ {0} /\ p <= Len(stack) /\ p <= Len(stack) - 1
        /\ \A b : b > blocks => b \notin S
        /\ Reader.live => g[Len(stack)].before /\ ~exited_block_
        /\ insert \in S /\ ~Ends(code[insert]) => Reader.live
        /\ Leads(S) /\ Reads(g, p, Reader.live, stack, S)
    <3>1. Top.kind # "function" BY <1>1
    <3>. QED BY <1>11, <1>15, <3>1, ShownFacts
  <2>3. Leads(S \cup T)'
    <3>1. \A t \in T : parent[t] = 0 /\ t <= blocks'
      BY <1>2, <1>4, <2>1 DEF IInv, UncreatedUnplaced
    <3>2. code' = Emitted(i) /\ insert \in S /\ ~Ends(code[insert]) /\ i.op \in Terminators =>
            i.to \subseteq S \cup T
      BY <1>6, <2>1, <2>2
    <3>3. UNCHANGED <<function_, entry>> /\ (code' = code \/ code' = Emitted(i)) BY <1>3
    <3>. QED BY <1>1, <1>2, <1>4, <1>6, <2>2, <3>1, <3>2, <3>3, Spread
  <2>4. Here(S \cup T)'
    <3>1. insert' \in S \cup T => Reader.live BY <1>3, <1>4, <2>1, <2>2
    <3>2. (exited_block_' <=> exited_block_) /\ Reader'.live = Reader.live BY <1>3, <1>9
    <3>. QED BY <2>2, <3>1, <3>2 DEF Here
  <2>5. Covers(f, s, S \cup T)
    <3>1. /\ Reader.live => head \in S \cup T
          /\ out \in S \cup T <=> Reader.live
          /\ blocks + 2 \notin S \cup T
      BY <1>4, <2>1, <2>2
    <3>. QED BY <1>7, <1>8, <3>1 DEF Covers, IsLoop
  <2>6. NoneOwes(q, T) BY <1>4, <2>1 DEF OwnOrNew, NoneOwes
  <2>7. Reads(h, p, Reader.live, stack', S \cup T)
    <3>1. stack'[q + 1].kind # "cond1" => Covers(stack'[q + 1], h[q + 1], S \cup T)
      BY <1>10, <1>13, <2>5
    <3>2. /\ h[q + 1].before => g[Len(stack)].before
          /\ Reader.live => h[q + 1].before
      BY <1>8, <1>13, <2>2
    <3>3. SameUpTo(q, stack', h, g) BY <1>10, <1>13 DEF SameUpTo
    <3>4. q \in Nat /\ q <= Len(stack) /\ p <= q BY <1>10, <2>2
    <3>. QED BY <1>2, <1>10, <2>2, <2>6, <3>1, <3>2, <3>3, <3>4, ReadsOn
  <2>8. S \cup T \in SUBSET Block OBVIOUS
  <2>. QED BY <2>3, <2>4, <2>7, <2>8
<1>16. UNCHANGED function_ BY <1>3
<1>. QED BY <1>2, <1>9, <1>10, <1>11, <1>12, <1>14, <1>15, <1>16, HideKept, HideIf

(* The innermost lambda's statement goes on: the text's innermost brace is *)
(* the last of others.                                                     *)
Retold(h, g, q, others, new) ==
  /\ Tells(h, others, new) /\ h[q + 1] = others[Len(others)]
  /\ \A j \in 1..q : h[j] = g[j]

LEMMA GoOnTells ==
  ASSUME NEW scopes \in Seq(Brace), NEW frames \in Seq(Frame), NEW g,
         Tells(g, scopes, frames), NEW q \in Nat, Len(frames) = q + 1,
         frames[q + 1].kind # "cond1",
         NEW new \in Seq(Frame), Len(new) = q + 1, new[q + 1].kind # "cond1",
         \A j \in 1..q : new[j] = frames[j],
         NEW others \in Seq(Brace), Len(others) = Len(scopes),
         \A k \in 1..(Len(scopes) - 1) : others[k] = scopes[k]
  PROVE  \E h : Retold(h, g, q, others, new)
<1>1. PICK h : h = [j \in 1..Len(frames) |->
                      IF j = Len(frames) THEN others[Len(scopes)] ELSE g[j]]
  OBVIOUS
<1>2. frames # <<>> /\ Len(frames) - 1 = q /\ Len(new) = Len(frames) BY EmptySeq
<1>3. h[q + 1] = others[Len(others)] /\ \A j \in 1..q : h[j] = g[j]
  <2>1. q + 1 \in 1..(q + 1) /\ \A j \in 1..q : j \in 1..(q + 1) /\ j # q + 1 OBVIOUS
  <2>. QED BY <1>1, <2>1
<1>4. Tells(h, others, new)
  <2>1. frames[Len(frames)].kind # "cond1" /\ new[Len(frames)].kind # "cond1" BY <1>2
  <2>2. \A j \in 1..(Len(frames) - 1) : new[j] = frames[j] BY <1>2
  <2>. QED BY <1>1, <1>2, <2>1, <2>2, TellsGoOn
<1>. QED BY <1>3, <1>4 DEF Retold

LEMMA WhileBodyShown ==
  ASSUME HideInv, Next, WhileBody
  PROVE  HideInv'
<1>1. stack # <<>> /\ Top.kind = "cond2" BY DEF WhileBody, Returns
<1>2. CASE exited_block_ BY <1>2, StopShown DEF WhileBody
<1>3. CASE ~exited_block_
  <2> DEFINE f == [Top EXCEPT !.kind = "body", !.next_block = 0, !.parent_scope = dbg_scope_]
             next == Top.next_block
             out == Top.exit_block
             i == Instruction("condbr", {next, out}, loc)
             q == Len(stack) - 1
             s == Last(Reader.scopes)
  <2>1. /\ TypeOK /\ IInv /\ Reader.live \in BOOLEAN /\ Reader.scopes \in Seq(Brace)
        /\ stack \in Seq(Frame) /\ blocks \in Nat /\ Top \in Frame
        /\ Reader = [live |-> Reader.live, scopes |-> Reader.scopes]
    BY <1>1, HideFacts
  <2>2. /\ next \in Owed(Top) /\ out \in Owed(Top) /\ next # out
        /\ next \in Block /\ out \in Block
        /\ next <= blocks /\ parent[next] = 0
    BY <1>1, <2>1, TopOwed
  <2>3. /\ f \in Frame /\ f.kind = "body" /\ f.exit_block = out
        /\ f.head_block = Top.head_block
    <3>1. 0 \in 0..MaxBlocks BY BoundsAssumption
    <3>. QED BY <2>1, <3>1 DEF Frame, FrameKind, TypeOK
  <2>4. /\ stack' = [stack EXCEPT ![Len(stack)] = f] /\ code' = Emitted(i)
        /\ insert' = next
        /\ UNCHANGED <<function_, entry, exited_block_, source_code_, blocks>>
    BY <1>3 DEF WhileBody, Replace, PlaceAndInsert
  <2>5. i \in Instr /\ i.to = {next, out} /\ i.op \in Terminators
    <3>1. {next, out} \in SUBSET Block /\ loc \in Location BY <2>1, <2>2 DEF TypeOK
    <3>. QED BY <2>1, <3>1, EmittedType DEF Instruction, Terminators
  <2>6. Reader' = [live |-> Reader.live, scopes |-> Reader.scopes] BY <2>1, <2>4 DEF Reader
  <2>. HIDE DEF f, i, next, out
  <2>7. /\ OpenOnce' /\ FunctionFrames' = FunctionFrames
        /\ \A p \in FunctionFrames : stack'[p] = stack[p]
        /\ stack' \in Seq(Frame) /\ Len(stack') = q + 1 /\ Len(stack) = q + 1
        /\ q \in Nat \ {0} /\ q <= Len(stack) /\ stack'[q + 1] = f /\ Top = stack[q + 1]
        /\ \A j \in 1..q : stack'[j] = stack[j] /\ j \in 1..Len(stack) /\ j # Len(stack)
    <3>1. Top.kind # "function" /\ f.kind # "function" BY <1>1, <2>3
    <3>2. UNCHANGED <<function_, entry>> /\ stack' = [stack EXCEPT ![Len(stack)] = f] BY <2>4
    <3>. QED BY <1>1, <2>3, <3>1, <3>2, OpenReplaced
  <2>8. PICK g : Tells(g, Reader.scopes, stack) /\ Shows(g) BY DEF HideInv, ShownInv
  <2>9. /\ g[Len(stack)] = s /\ s = Reader.scopes[Len(Reader.scopes)]
    BY <1>1, <2>1, <2>8, TellsTop
  <2>10. PICK h : /\ Tells(h, Reader.scopes, stack') /\ h[q + 1] = s
                  /\ \A j \in 1..q : h[j] = g[j]
    <3>1. stack[q + 1].kind # "cond1" /\ stack'[q + 1].kind # "cond1" BY <1>1, <2>3, <2>7
    <3>2. q \in Nat /\ \A j \in 1..q : stack'[j] = stack[j] BY <2>7
    <3>. HIDE DEF q
    <3>3. Reader.scopes \in Seq(Brace) /\ stack \in Seq(Frame) /\ stack' \in Seq(Frame)
          /\ Len(stack) = q + 1 /\ Len(stack') = q + 1
      BY <2>1, <2>7
    <3>4. PICK h : Retold(h, g, q, Reader.scopes, stack')
      BY <2>8, <3>1, <3>2, <3>3, GoOnTells
    <3>. QED BY <2>9, <3>4 DEF Retold
  <2>. HIDE DEF q, s
  <2>11. ASSUME NEW p \in FunctionFrames, NEW S \in SUBSET Block, Runs(p), Shown(g, p, S)
         PROVE  \E U \in SUBSET Block :
                  Leads(U)' /\ Here(U)' /\ Reads(h, p, Reader.live, stack', U)
    <3>1. PICK T \in SUBSET Block : T = IF Reader.live THEN {next} ELSE {} BY <2>2
    <3>2. /\ p \in Nat \ {0} /\ p <= Len(stack) /\ p <= Len(stack) - 1
          /\ Covers(Top, s, S)
          /\ Reader.live => s.before /\ ~exited_block_
          /\ insert \in S /\ ~Ends(code[insert]) => Reader.live
          /\ Leads(S) /\ Reads(g, p, Reader.live, stack, S)
      <4>1. Top.kind # "function" /\ Top.kind # "cond1" BY <1>1
      <4>. QED BY <2>8, <2>9, <2>11, <4>1, ShownFacts
    <3>3. /\ s.brace = "while" /\ next \notin S
          /\ s.before => Top.head_block \in S
          /\ out \in S <=> s.before
      BY <1>1, <3>2 DEF Covers, IsLoop, next, out
    <3>4. Leads(S \cup T)'
      <4>1. \A t \in T : parent[t] = 0 /\ t <= blocks' BY <2>2, <2>4, <3>1
      <4>2. code' = Emitted(i) /\ insert \in S /\ ~Ends(code[insert]) /\ i.op \in Terminators =>
              i.to \subseteq S \cup T
        BY <2>5, <3>1, <3>2, <3>3
      <4>3. UNCHANGED <<function_, entry>> /\ (code' = code \/ code' = Emitted(i)) BY <2>4
      <4>4. blocks <= blocks' /\ blocks' \in Nat BY <2>1, <2>4
      <4>. QED BY <1>1, <2>1, <2>5, <3>2, <4>1, <4>2, <4>3, <4>4, Spread
    <3>5. Here(S \cup T)'
      <4>1. insert' \in S \cup T => Reader.live BY <2>4, <3>1, <3>3
      <4>2. ~exited_block_' /\ Reader'.live = Reader.live BY <1>3, <2>4, <2>6
      <4>. QED BY <4>1, <4>2 DEF Here
    <3>6. Covers(f, s, S \cup T)
      <4>1. /\ s.before => Top.head_block \in S \cup T
            /\ out \in S \cup T <=> s.before
        BY <2>2, <3>1, <3>3
      <4>. QED BY <2>3, <3>3, <4>1 DEF Covers, IsLoop
    <3>7. NoneOwes(q, T) BY <2>2, <2>7, <3>1 DEF OwnOrNew, NoneOwes
    <3>8. Reads(h, p, Reader.live, stack', S \cup T)
      <4>1. stack'[q + 1].kind # "cond1" => Covers(stack'[q + 1], h[q + 1], S \cup T)
        BY <2>7, <2>10, <3>6
      <4>2. /\ h[q + 1].before => g[Len(stack)].before
            /\ Reader.live => h[q + 1].before
        BY <2>9, <2>10, <3>2
      <4>3. SameUpTo(q, stack', h, g) BY <2>7, <2>10 DEF SameUpTo
      <4>4. q \in Nat /\ q <= Len(stack) /\ p <= q BY <2>7, <3>2 DEF q
      <4>. QED BY <2>1, <2>7, <3>2, <3>7, <4>1, <4>2, <4>3, <4>4, ReadsOn
    <3>9. S \cup T \in SUBSET Block OBVIOUS
    <3>. QED BY <3>4, <3>5, <3>8, <3>9
  <2>12. UNCHANGED function_ BY <2>4
  <2>. QED BY <2>1, <2>6, <2>7, <2>8, <2>10, <2>11, <2>12, HideKept, HideIf
<1>. QED BY <1>2, <1>3

LEMMA ElseShown ==
  ASSUME HideInv, Next, Else
  PROVE  HideInv'
<1> DEFINE f == [Top EXCEPT !.kind = "else", !.next_block = 0]
           next == Top.next_block
           out == Top.exit_block
           at == [line |-> line_no_, scope |-> Top.parent_scope]
           i == Instruction("br", {out}, at)
           q == Len(stack) - 1
           s == Last(Reader.scopes)
           e == [brace |-> "else", before |-> s.before, joined |-> Reader.live]
           others == Append(Front(Reader.scopes), e)
<1>1. stack # <<>> /\ Top.kind = "then_else" BY DEF Else, Returns
<1>2. /\ TypeOK /\ IInv /\ Reader.live \in BOOLEAN /\ Reader.scopes \in Seq(Brace)
      /\ stack \in Seq(Frame) /\ blocks \in Nat /\ Top \in Frame
      /\ exited_block_ \in BOOLEAN
      /\ Reader = [live |-> Reader.live, scopes |-> Reader.scopes]
  BY <1>1, HideFacts
<1>3. /\ next \in Owed(Top) /\ out \in Owed(Top) /\ next # out
      /\ next \in Block /\ out \in Block
      /\ out <= blocks /\ parent[out] = 0
  BY <1>1, <1>2, TopOwed
<1>4. f \in Frame /\ f.kind = "else" /\ f.exit_block = out
  <2>1. 0 \in 0..MaxBlocks BY BoundsAssumption
  <2>. QED BY <1>2, <2>1 DEF Frame, FrameKind
<1>5. at \in Location BY <1>1, <1>2, ReturnLocation
<1>6. i \in Instr /\ i.to = {out} /\ i.op \in Terminators
  BY <1>2, <1>3, <1>5, EmittedType DEF Instruction, Terminators
<1>7. /\ add_line("else") /\ stack' = [stack EXCEPT ![Len(stack)] = f]
      /\ code' = IF exited_block_ THEN code ELSE Emitted(i)
      /\ insert' = next /\ exited_block_' = FALSE
      /\ UNCHANGED <<function_, entry, blocks>>
  BY DEF Else, Replace, PlaceAndInsert, CloseBranch
<1>8. PICK g : Tells(g, Reader.scopes, stack) /\ Shows(g) BY DEF HideInv, ShownInv
<1>9. /\ g[Len(stack)] = s /\ s = Reader.scopes[Len(Reader.scopes)] /\ s \in Brace
      /\ Reader.scopes # <<>> /\ Len(Reader.scopes) \in Nat \ {0}
  BY <1>1, <1>2, <1>8, TellsTop
<1>10. e \in Brace BY <1>2, <1>9 DEF Brace, LineKind
<1>11. Reader' = [live |-> s.before, scopes |-> others]
  <2>1. Reader' = ReadLine(Reader, "else") BY <1>2, <1>7, LineRead DEF LineKind
  <2>2. ReadLine(Reader, "else") = ElseBrace(Reader) BY DEF ReadLine
  <2>. QED BY <2>1, <2>2 DEF ElseBrace
<1>12. /\ e.brace = "else" /\ (e.before <=> s.before) /\ (e.joined <=> Reader.live)
       /\ s.before \in BOOLEAN
  BY <1>9 DEF Brace
<1>. HIDE DEF f, i, at, next, out, s, e
<1>13. /\ others \in Seq(Brace) /\ Len(others) = Len(Reader.scopes)
       /\ others[Len(others)] = e
       /\ \A k \in 1..(Len(Reader.scopes) - 1) : others[k] = Reader.scopes[k]
  <2> DEFINE less == Front(Reader.scopes)
  <2>1. /\ less \in Seq(Brace) /\ Len(less) = Len(Reader.scopes) - 1
        /\ \A k \in 1..(Len(Reader.scopes) - 1) : less[k] = Reader.scopes[k]
    BY <1>2, <1>9, FrontFacts
  <2>. HIDE DEF less
  <2>2. /\ others \in Seq(Brace) /\ Len(others) = Len(less) + 1
        /\ others[Len(less) + 1] = e
        /\ \A k \in 1..Len(less) : others[k] = less[k]
    BY <1>10, <2>1, PushFacts DEF less
  <2>. HIDE DEF others
  <2>. QED BY <1>9, <2>1, <2>2
<1>. HIDE DEF others
<1>14. /\ OpenOnce' /\ FunctionFrames' = FunctionFrames
       /\ \A p \in FunctionFrames : stack'[p] = stack[p]
       /\ stack' \in Seq(Frame) /\ Len(stack') = q + 1 /\ Len(stack) = q + 1
       /\ q \in Nat \ {0} /\ q <= Len(stack) /\ stack'[q + 1] = f /\ Top = stack[q + 1]
       /\ \A j \in 1..q : stack'[j] = stack[j] /\ j \in 1..Len(stack) /\ j # Len(stack)
  <2>1. Top.kind # "function" /\ f.kind # "function" BY <1>1, <1>4
  <2>2. UNCHANGED <<function_, entry>> /\ stack' = [stack EXCEPT ![Len(stack)] = f] BY <1>7
  <2>. QED BY <1>1, <1>4, <2>1, <2>2, OpenReplaced
<1>15. PICK h : Tells(h, others, stack') /\ h[q + 1] = e /\ \A j \in 1..q : h[j] = g[j]
  <2>1. stack[q + 1].kind # "cond1" /\ stack'[q + 1].kind # "cond1" BY <1>1, <1>4, <1>14
  <2>2. q \in Nat /\ \A j \in 1..q : stack'[j] = stack[j] BY <1>14
  <2>. HIDE DEF q
  <2>3. Reader.scopes \in Seq(Brace) /\ stack \in Seq(Frame) /\ stack' \in Seq(Frame)
        /\ Len(stack) = q + 1 /\ Len(stack') = q + 1
    BY <1>2, <1>14
  <2>4. PICK h : Retold(h, g, q, others, stack')
    BY <1>8, <1>13, <2>1, <2>2, <2>3, GoOnTells
  <2>. QED BY <1>13, <2>4 DEF Retold
<1>. HIDE DEF q
<1>16. ASSUME NEW p \in FunctionFrames, NEW S \in SUBSET Block, Runs(p), Shown(g, p, S)
       PROVE  \E U \in SUBSET Block :
                Leads(U)' /\ Here(U)' /\ Reads(h, p, s.before, stack', U)
  <2>1. PICK T \in SUBSET Block : T = IF Reader.live THEN {out} ELSE {} BY <1>3
  <2>2. /\ p \in Nat \ {0} /\ p <= Len(stack) /\ p <= Len(stack) - 1
        /\ Covers(Top, s, S)
        /\ Reader.live => s.before /\ ~exited_block_
        /\ insert \in S /\ ~Ends(code[insert]) => Reader.live
        /\ Leads(S) /\ Reads(g, p, Reader.live, stack, S)
    <3>1. Top.kind # "function" /\ Top.kind # "cond1" BY <1>1
    <3>. QED BY <1>8, <1>9, <1>16, <3>1, ShownFacts
  <2>3. out \notin S /\ (next \in S => s.before)
    BY <1>1, <2>2 DEF Covers, next, out
  <2>4. Leads(S \cup T)'
    <3>1. \A t \in T : parent[t] = 0 /\ t <= blocks' BY <1>3, <1>7, <2>1
    <3>2. code' = Emitted(i) /\ insert \in S /\ ~Ends(code[insert]) /\ i.op \in Terminators =>
            i.to \subseteq S \cup T
      BY <1>6, <2>1, <2>2
    <3>3. UNCHANGED <<function_, entry>> /\ (code' = code \/ code' = Emitted(i)) BY <1>7
    <3>4. blocks <= blocks' /\ blocks' \in Nat BY <1>2, <1>7
    <3>. QED BY <1>1, <1>2, <1>6, <2>2, <3>1, <3>2, <3>3, <3>4, Spread
  <2>5. Here(S \cup T)'
    <3>1. insert' \in S \cup T => s.before BY <1>3, <1>7, <2>1, <2>3
    <3>2. ~exited_block_' /\ Reader'.live = s.before BY <1>7, <1>11
    <3>. QED BY <3>1, <3>2 DEF Here
  <2>6. Covers(f, e, S \cup T)
    <3>1. out \in S \cup T => e.joined BY <1>12, <2>1, <2>3
    <3>2. e.joined => e.before BY <1>12, <2>2
    <3>. QED BY <1>4, <1>12, <3>1, <3>2 DEF Covers, IsLoop
  <2>7. NoneOwes(q, T) BY <1>3, <1>14, <2>1 DEF OwnOrNew, NoneOwes
  <2>8. Reads(h, p, s.before, stack', S \cup T)
    <3>1. stack'[q + 1].kind # "cond1" => Covers(stack'[q + 1], h[q + 1], S \cup T)
      BY <1>14, <1>15, <2>6
    <3>2. /\ h[q + 1].before => g[Len(stack)].before
          /\ s.before => h[q + 1].before
      BY <1>9, <1>12, <1>15
    <3>3. SameUpTo(q, stack', h, g) BY <1>14, <1>15 DEF SameUpTo
    <3>4. q \in Nat /\ q <= Len(stack) /\ p <= q BY <1>14, <2>2 DEF q
    <3>. QED BY <1>2, <1>14, <2>2, <2>7, <3>1, <3>2, <3>3, <3>4, ReadsOn
  <2>9. S \cup T \in SUBSET Block OBVIOUS
  <2>. QED BY <2>4, <2>5, <2>8, <2>9
<1>17. UNCHANGED function_ BY <1>7
<1>. QED BY <1>8, <1>11, <1>12, <1>13, <1>14, <1>15, <1>16, <1>17, HideKept, HideIf
-----------------------------------------------------------------------------
(* Steps that end a lambda with its brace.                                 *)

LEMMA OpenPopped ==
  ASSUME HideInv, stack # <<>>, Top.kind # "function", Pop, UNCHANGED <<function_, entry>>
  PROVE  LET q == Len(stack) - 1 IN
         /\ OpenOnce' /\ FunctionFrames' = FunctionFrames
         /\ \A p \in FunctionFrames : stack'[p] = stack[p]
         /\ stack' \in Seq(Frame) /\ Len(stack') = q
         /\ \A j \in 1..q : stack'[j] = stack[j]
<1> DEFINE q == Len(stack) - 1
<1>1. stack \in Seq(Frame) /\ OpenOnce BY DEF HideInv, IInv, TypeOK
<1>2. /\ stack' \in Seq(Frame) /\ Len(stack') = q
      /\ \A j \in 1..q : stack'[j] = stack[j]
  BY <1>1, PopFacts DEF Pop, Outer
<1>3. Len(stack) \in Nat \ {0} BY <1>1, TopFacts
<1>4. /\ q \in Nat /\ q <= Len(stack) /\ Len(stack') # q + 1
      /\ \A i \in 1..Len(stack) : i > q => i = Len(stack)
  BY <1>2, <1>3
<1>5. \A i \in 1..Len(stack) : i > q => stack[i].kind # "function" BY <1>4 DEF Top
<1>. HIDE DEF q
<1>6. /\ OpenOnce' /\ FunctionFrames' = FunctionFrames
      /\ \A p \in FunctionFrames : stack'[p] = stack[p]
  BY <1>1, <1>2, <1>4, <1>5, OpenKept
<1>. QED BY <1>2, <1>6 DEF q

LEMMA BraceEndsShown ==
  ASSUME HideInv, Next, stack # <<>>, Top.kind \in {"then", "else", "body"},
         Pop, add_line("end"), exited_block_' = FALSE,
         NEW target \in Block, NEW at \in Location, CloseBranch(target, at),
         UNCHANGED <<function_, entry, blocks>>, insert' = Top.exit_block,
         Top.kind = "body" => target = Top.head_block,
         Top.kind # "body" => target = Top.exit_block
  PROVE  HideInv'
<1> DEFINE q == Len(stack) - 1
           s == Last(Reader.scopes)
           i == Instruction("br", {target}, at)
           out == Top.exit_block
           less == Front(Reader.scopes)
<1>1. /\ TypeOK /\ IInv /\ Reader.live \in BOOLEAN /\ Reader.scopes \in Seq(Brace)
      /\ stack \in Seq(Frame) /\ blocks \in Nat /\ Len(stack) \in Nat \ {0}
      /\ Top = stack[Len(stack)]
      /\ Reader = [live |-> Reader.live, scopes |-> Reader.scopes]
  BY HideFacts
<1>2. out \in Owed(Top) /\ out \in Block /\ out <= blocks /\ parent[out] = 0
  BY <1>1, TopOwed
<1>3. i \in Instr /\ i.to = {target} /\ i.op \in Terminators
  BY <1>1, EmittedType DEF Instruction, Terminators
<1>4. code' = IF exited_block_ THEN code ELSE Emitted(i) BY DEF CloseBranch
<1>5. PICK g : Tells(g, Reader.scopes, stack) /\ Shows(g) BY DEF HideInv, ShownInv
<1>6. /\ g[Len(stack)] = s /\ s = Reader.scopes[Len(Reader.scopes)] /\ s \in Brace
      /\ Reader.scopes # <<>>
  BY <1>1, <1>5, TellsTop
<1>7. s.before \in BOOLEAN /\ s.joined \in BOOLEAN BY <1>6 DEF Brace
<1>8. /\ OpenOnce' /\ FunctionFrames' = FunctionFrames
      /\ \A p \in FunctionFrames : stack'[p] = stack[p]
      /\ stack' \in Seq(Frame) /\ Len(stack') = q
      /\ \A j \in 1..q : stack'[j] = stack[j]
  <2>1. Top.kind # "function" OBVIOUS
  <2>. QED BY <2>1, OpenPopped
<1>9. Reader' = ReadLine(Reader, "end") BY <1>1, LineRead DEF LineKind
<1>. HIDE DEF i, out, s
<1>10. PICK h : h = [j \in 1..q |-> g[j]] OBVIOUS
<1>11. Tells(h, less, stack') /\ \A j \in 1..q : h[j] = g[j]
  <2>1. stack[Len(stack)].kind # "cond1" BY <1>1
  <2>. QED BY <1>1, <1>5, <1>8, <1>10, <2>1, TellsClose
<1>12. less \in Seq(Brace) BY <1>1, <1>6, FrontFacts
<1>13. PICK after \in BOOLEAN :
         /\ Reader' = [live |-> after, scopes |-> less]
         /\ s.brace = "else" => (after <=> Reader.live \/ s.joined)
         /\ s.brace \in {"if", "while"} => (after <=> Reader.live \/ s.before)
  <2> DEFINE v == CASE s.brace = "else"            -> Reader.live \/ s.joined
                    [] s.brace \in {"if", "while"} -> Reader.live \/ s.before
                    [] OTHER                       -> FALSE
  <2>1. Reader' = [live |-> v, scopes |-> less]
    <3>1. Reader' = CloseBrace(Reader) BY <1>9 DEF ReadLine
    <3>. QED BY <3>1 DEF CloseBrace, s
  <2>2. s.brace = "else" => v = (Reader.live \/ s.joined) OBVIOUS
  <2>3. s.brace \in {"if", "while"} => v = (Reader.live \/ s.before) OBVIOUS
  <2>4. s.brace \notin {"if", "while", "else"} => v = FALSE OBVIOUS
  <2>. HIDE DEF v
  <2>5. v \in BOOLEAN BY <1>1, <1>7, <2>2, <2>3, <2>4
  <2>. QED BY <1>1, <1>7, <2>1, <2>2, <2>3, <2>5
<1>. HIDE DEF less, q
<1>14. ASSUME NEW p \in FunctionFrames, NEW S \in SUBSET Block, Runs(p), Shown(g, p, S)
       PROVE  \E U \in SUBSET Block :
                Leads(U)' /\ Here(U)' /\ Reads(h, p, after, stack', U)
  <2>1. PICK T \in SUBSET Block :
          T = IF Reader.live /\ Top.kind # "body" THEN {out} ELSE {}
    BY <1>2
  <2>2. /\ p \in Nat \ {0} /\ p < Len(stack)
        /\ Covers(Top, s, S)
        /\ Reader.live => s.before
        /\ insert \in S /\ ~Ends(code[insert]) => Reader.live
        /\ Leads(S) /\ Reads(g, p, Reader.live, stack, S)
    <3>1. Top.kind # "function" /\ Top.kind # "cond1" OBVIOUS
    <3>. QED BY <1>5, <1>6, <1>14, <3>1, ShownFacts
  <2>3. /\ Top.kind = "then" => s.brace = "if" /\ (out \in S => s.before)
        /\ Top.kind = "else" => /\ s.brace = "else" /\ (out \in S => s.joined)
                                /\ s.joined => s.before
        /\ Top.kind = "body" => /\ s.brace = "while"
                                /\ s.before => target \in S
                                /\ out \in S <=> s.before
    BY <2>2 DEF Covers, IsLoop, out
  <2>4. /\ after => s.before
        /\ out \in S \cup T => after
    <3>1. CASE Top.kind = "else"
      <4>1. (after <=> Reader.live \/ s.joined) BY <1>13, <2>3, <3>1
      <4>. QED BY <2>1, <2>2, <2>3, <3>1, <4>1
    <3>2. CASE Top.kind \in {"then", "body"}
      <4>1. (after <=> Reader.live \/ s.before) BY <1>13, <2>3, <3>2
      <4>. QED BY <2>1, <2>2, <2>3, <3>2, <4>1
    <3>. QED BY <3>1, <3>2
  <2>5. Leads(S \cup T)'
    <3>1. \A t \in T : parent[t] = 0 /\ t <= blocks' BY <1>2, <2>1
    <3>2. code' = Emitted(i) /\ insert \in S /\ ~Ends(code[insert]) /\ i.op \in Terminators =>
            i.to \subseteq S \cup T
      <4>1. Reader.live => target \in S \cup T
        <5>1. CASE Top.kind = "body" BY <2>2, <2>3, <5>1
        <5>2. CASE Top.kind # "body" BY <2>1, <5>2 DEF out
        <5>. QED BY <5>1, <5>2
      <4>. QED BY <1>3, <2>2, <4>1
    <3>3. UNCHANGED <<function_, entry>> /\ (code' = code \/ code' = Emitted(i)) BY <1>4
    <3>4. blocks <= blocks' /\ blocks' \in Nat BY <1>1
    <3>. QED BY <1>1, <1>3, <2>2, <3>1, <3>2, <3>3, <3>4, Spread
  <2>6. Here(S \cup T)'
    <3>1. insert' \in S \cup T => after BY <2>4 DEF out
    <3>2. ~exited_block_' /\ Reader'.live = after BY <1>13
    <3>. QED BY <3>1, <3>2 DEF Here
  <2>7. Reads(h, p, after, stack', S \cup T)
    <3>1. T \subseteq Owed(Top) BY <1>2, <2>1
    <3>2. after => g[Len(stack)].before BY <1>6, <2>4
    <3>3. Len(stack') = Len(stack) - 1 /\ SameUpTo(Len(stack) - 1, stack', h, g)
      BY <1>8, <1>11 DEF q, SameUpTo
    <3>. QED BY <1>1, <1>8, <2>2, <3>1, <3>2, <3>3, ReadsOff
  <2>8. S \cup T \in SUBSET Block OBVIOUS
  <2>. QED BY <2>5, <2>6, <2>7, <2>8
<1>. QED BY <1>1, <1>5, <1>8, <1>11, <1>12, <1>13, <1>14, HideKept, HideIf

LEMMA EndIfShown ==
  ASSUME HideInv, Next, EndIf
  PROVE  HideInv'
<1> DEFINE at == [line |-> line_no_, scope |-> Top.parent_scope]
<1>1. stack # <<>> /\ Top.kind \in {"then", "else"} BY DEF EndIf, Returns
<1>2. TypeOK /\ IInv BY <1>1, HideFacts
<1>3. Top.exit_block \in Block BY <1>1, <1>2, TopOwed
<1>4. at \in Location BY <1>1, <1>2, ReturnLocation
<1>5. /\ Pop /\ add_line("end") /\ CloseBranch(Top.exit_block, at)
      /\ insert' = Top.exit_block /\ UNCHANGED <<function_, entry, blocks>>
  BY DEF EndIf, PlaceAndInsert
<1>6. exited_block_' = FALSE BY <1>5 DEF CloseBranch
<1>. HIDE DEF at
<1>. QED BY <1>1, <1>3, <1>4, <1>5, <1>6, BraceEndsShown

LEMMA EndWhileShown ==
  ASSUME HideInv, Next, EndWhile
  PROVE  HideInv'
<1> DEFINE at == [line |-> line_no_, scope |-> Top.parent_scope]
<1>1. stack # <<>> /\ Top.kind = "body" BY DEF EndWhile, Returns
<1>2. TypeOK /\ IInv BY <1>1, HideFacts
<1>3. Top.head_block \in Block BY <1>1, <1>2, TopOwed
<1>4. at \in Location BY <1>1, <1>2, ReturnLocation
<1>5. /\ Pop /\ add_line("end") /\ CloseBranch(Top.head_block, at)
      /\ insert' = Top.exit_block /\ UNCHANGED <<function_, entry, blocks>>
  BY DEF EndWhile, PlaceAndInsert
<1>6. exited_block_' = FALSE BY <1>5 DEF CloseBranch
<1>. HIDE DEF at
<1>. QED BY <1>1, <1>3, <1>4, <1>5, <1>6, BraceEndsShown
-----------------------------------------------------------------------------
(* A function starts or ends, wherever the client writes it.               *)

LEMMA OpenEntered ==
  ASSUME HideInv, stack' \in Seq(Frame), Len(stack') = Len(stack) + 1,
         \A i \in 1..Len(stack) : stack'[i] = stack[i],
         stack'[Len(stack) + 1].kind = "function",
         NEW fn \in Function, stack'[Len(stack) + 1].fn = fn, function_' = fn,
         entry[fn] = 0, entry' = [entry EXCEPT ![fn] = blocks + 1]
  PROVE  /\ OpenOnce'
         /\ \A p \in FunctionFrames' : stack'[p].fn = function_' => p = Len(stack) + 1
<1> DEFINE n == Len(stack)
<1>1. /\ stack \in Seq(Frame) /\ n \in Nat /\ blocks \in Nat /\ OpenOnce
      /\ entry \in [Function -> 0..MaxBlocks]
      /\ DOMAIN stack = 1..n /\ DOMAIN stack' = 1..(n + 1)
  BY LenProperties, BoundsAssumption DEF HideInv, IInv, TypeOK
<1>2. \A i \in 1..(n + 1) : i \in 1..n \/ i = n + 1 BY <1>1
<1>3. \A i \in 1..n : i \in 1..(n + 1) /\ i # n + 1 /\ i <= n + 1 BY <1>1
<1>4. \A i \in FunctionFrames' : (i \in FunctionFrames /\ i \in 1..n) \/ i = n + 1
  BY <1>1, <1>2 DEF FunctionFrames
<1>5. \A i \in FunctionFrames : i \in 1..n /\ stack'[i] = stack[i] BY <1>1 DEF FunctionFrames
<1>6. \A i \in FunctionFrames : /\ stack[i].fn \in Function /\ entry[stack[i].fn] # 0
                                /\ stack[i].fn # fn
  BY <1>1 DEF OpenOnce
<1>7. blocks + 1 # 0 BY <1>1
<1>8. \A f \in Function : entry'[f] = IF f = fn THEN blocks + 1 ELSE entry[f] BY <1>1
<1>9. \A i \in FunctionFrames' : stack'[i].fn = fn <=> i = n + 1 BY <1>4, <1>5, <1>6
<1>10. stack'[1].kind = "function"
  <2>1. CASE stack = <<>>
    <3>1. n + 1 = 1 BY <2>1
    <3>. QED BY <3>1
  <2>2. CASE stack # <<>>
    <3>1. 1 \in 1..n BY <1>1, <2>2, EmptySeq
    <3>. QED BY <1>1, <2>2, <3>1 DEF OpenOnce
  <2>. QED BY <2>1, <2>2
<1>. HIDE DEF n
<1>11. \A i \in FunctionFrames' : stack'[i].fn \in Function /\ entry'[stack'[i].fn] # 0
  BY <1>4, <1>5, <1>6, <1>7, <1>8 DEF n
<1>12. \A i, j \in FunctionFrames' : i # j => stack'[i].fn # stack'[j].fn
  <2>1. \A i, j \in FunctionFrames : i # j => stack[i].fn # stack[j].fn
    BY <1>1 DEF OpenOnce
  <2>. QED BY <1>4, <1>5, <1>6, <1>9, <2>1
<1>13. \A i, j \in FunctionFrames' : stack'[i].fn = function_' => j <= i
  <2>1. \A j \in FunctionFrames' : j <= n + 1 BY <1>1, <1>3, <1>4
  <2>. QED BY <1>9, <2>1
<1>. QED BY <1>9, <1>10, <1>11, <1>12, <1>13 DEF OpenOnce, n

LEMMA CreateFunctionShown ==
  ASSUME HideInv, Next, CreateFunction
  PROVE  HideInv'
<1> DEFINE n == Len(stack)
           s == [brace |-> "function", before |-> TRUE, joined |-> FALSE]
           more == Append(Reader.scopes, s)
<1>1. PICK fn \in Function :
        /\ entry[fn] = 0 /\ function_' = fn
        /\ entry' = [entry EXCEPT ![fn] = blocks + 1]
        /\ stack' = Append(stack, [NewFrame("function") EXCEPT !.fn = fn])
  BY DEF CreateFunction, FunctionToFill, Push
<1>2. /\ blocks' = blocks + 1 /\ insert' = blocks + 1 /\ exited_block_' = FALSE
      /\ add_line("function") /\ UNCHANGED code
  BY DEF CreateFunction
<1>3. PICK f : f = [NewFrame("function") EXCEPT !.fn = fn] OBVIOUS
<1>4. /\ TypeOK /\ IInv /\ stack \in Seq(Frame) /\ blocks \in Nat /\ n \in Nat
      /\ entry \in [Function -> 0..MaxBlocks]
      /\ Reader.live \in BOOLEAN /\ Reader.scopes \in Seq(Brace)
      /\ Reader = [live |-> Reader.live, scopes |-> Reader.scopes]
  BY LenProperties, BoundsAssumption DEF HideInv, IInv, TypeOK, ReaderTyped
<1>5. f \in Frame /\ f.kind = "function" /\ f.fn = fn
  <2>1. NewFrame("function") \in Frame BY <1>4, NewFrameType DEF FrameKind
  <2>2. fn \in 0..MaxFunctions BY BoundsAssumption DEF Function
  <2>. QED BY <1>3, <2>1, <2>2 DEF Frame, NewFrame
<1>6. /\ stack' \in Seq(Frame) /\ Len(stack') = n + 1 /\ stack'[n + 1] = f
      /\ \A i \in 1..n : stack'[i] = stack[i]
  BY <1>1, <1>3, <1>4, <1>5, PushFacts
<1>7. IInv' /\ LoopsSaved' /\ Made' BY HideKept
<1>8. /\ OpenOnce'
      /\ \A p \in FunctionFrames' : stack'[p].fn = function_' => p = n + 1
  BY <1>1, <1>5, <1>6, OpenEntered
<1>9. s \in Brace BY DEF Brace, LineKind
<1>10. more \in Seq(Brace) BY <1>4, <1>9, PushFacts
<1>11. Reader' = [live |-> TRUE, scopes |-> more]
  <2>1. Reader' = ReadLine(Reader, "function") BY <1>2, <1>4, LineRead DEF LineKind
  <2>2. ReadLine(Reader, "function") = OpenBrace([Reader EXCEPT !.live = TRUE], "function")
    BY DEF ReadLine
  <2>3. \A v \in BOOLEAN : [Reader EXCEPT !.live = v] = [live |-> v, scopes |-> Reader.scopes]
    BY DEF HideInv, ReaderTyped
  <2>4. \A v \in BOOLEAN : \A braces :
          OpenBrace([live |-> v, scopes |-> braces], "function") =
            [live |-> v,
             scopes |-> Append(braces, [brace |-> "function", before |-> v, joined |-> FALSE])]
    <3>. SUFFICES ASSUME NEW v \in BOOLEAN, NEW braces
                  PROVE  OpenBrace([live |-> v, scopes |-> braces], "function") =
                           [live |-> v,
                            scopes |-> Append(braces, [brace |-> "function", before |-> v,
                                                       joined |-> FALSE])]
      OBVIOUS
    <3>1. PICK r : r = [live |-> v, scopes |-> braces] OBVIOUS
    <3>2. r.live = v /\ r.scopes = braces BY <3>1
    <3>3. PICK e : e = [brace |-> "function", before |-> v, joined |-> FALSE] OBVIOUS
    <3>4. \A q : [r EXCEPT !.scopes = q] = [live |-> v, scopes |-> q] BY <3>1
    <3>5. OpenBrace(r, "function") = [r EXCEPT !.scopes = Append(braces, e)]
      BY <3>2, <3>3 DEF OpenBrace
    <3>. QED BY <3>1, <3>3, <3>4, <3>5
  <2>5. TRUE \in BOOLEAN OBVIOUS
  <2>6. OpenBrace([Reader EXCEPT !.live = TRUE], "function") = [live |-> TRUE, scopes |-> more]
    BY <2>3, <2>4, <2>5
  <2>. QED BY <2>1, <2>2, <2>6
<1>12. Reader'.live = TRUE /\ Reader'.scopes = more BY <1>11
<1>13. ReaderTyped' BY <1>10, <1>11 DEF ReaderTyped
<1>14. s.brace = "function" /\ s.before = TRUE OBVIOUS
<1>15. PICK g : Tells(g, Reader.scopes, stack) BY DEF HideInv, ShownInv
<1>. HIDE DEF n, s
<1>16. PICK h : h = [i \in 1..(n + 1) |-> IF i = n + 1 THEN s ELSE g[i]] OBVIOUS
<1>17. h[n + 1] = s
  <2>1. n + 1 \in 1..(n + 1) BY <1>4
  <2>. QED BY <1>16, <2>1
<1>18. Tells(h, more, stack')
  <2>1. stack'[n + 1].kind # "cond1" BY <1>5, <1>6
  <2>2. n = Len(stack) BY DEF n
  <2>. QED BY <1>4, <1>6, <1>9, <1>15, <1>16, <2>1, <2>2, TellsOpen
<1>. HIDE DEF more
<1>19. PICK S \in SUBSET Block : S = {b \in Block : b <= blocks'} OBVIOUS
<1>20. /\ code' \in [Block -> Seq(Instr)] /\ blocks' \in Nat /\ insert' \in Block
       /\ entry'[function_'] \in Block /\ function_' \in Function
       /\ DOMAIN stack' = 1..(n + 1)
  <2>1. stack' # <<>> BY <1>4, <1>6, EmptySeq
  <2>. QED BY <1>4, <1>6, <1>7, <2>1, LenProperties, BoundsAssumption
       DEF IInv, TypeOK, InsertionPlaced
<1>21. Leads(S)'
  <2>1. entry'[function_'] \in S BY <1>7, <1>19, <1>20 DEF Made
  <2>2. ASSUME NEW b \in S PROVE Targets(code'[b]) \subseteq S
    <3>1. code'[b] \in Seq(Instr) BY <1>20
    <3>2. \A t \in Targets(code'[b]) : t \in Block /\ t <= blocks'
      BY <1>7, <3>1, TargetsKnownTo DEF Made, CodeMade
    <3>. QED BY <1>19, <3>2
  <2>. QED BY <1>19, <2>1, <2>2 DEF Leads
<1>22. Here(S)' BY <1>2, <1>12 DEF Here
<1>23. Reads(h, n + 1, TRUE, stack', S)
  <2>1. \A i \in (n + 1)..(n + 1) : i = n + 1 BY <1>4
  <2>2. Covers(f, s, S) BY <1>5, <1>14 DEF Covers, IsLoop
  <2>3. \A i \in (n + 1)..(n + 1) : stack'[i].kind # "cond1" => Covers(stack'[i], h[i], S)
    BY <1>6, <1>17, <2>1, <2>2
  <2>4. \A i, j \in (n + 1)..(n + 1) : ~(i < j) BY <1>4
  <2>5. ASSUME NEW i \in 1..((n + 1) - 1), IsLoop(stack'[i])
        PROVE  stack'[i].head_block \in S /\ stack'[i].exit_block \in S
    <3>1. i \in 1..(n + 1) BY <1>4
    <3>2. stack'[i] \in Frame /\ FrameShape(stack'[i])
      BY <1>6, <1>7, <1>20, <3>1, ElementOfSeq DEF IInv, FramesShaped
    <3>3. stack'[i].exit_block \in Owed(stack'[i]) BY <2>5, <3>2 DEF FrameShape, IsLoop, Owed
    <3>4. stack'[i].exit_block <= blocks' BY <1>7, <1>20, <3>1, <3>3 DEF IInv, OwedUnplaced
    <3>5. stack'[i].head_block <= blocks' BY <1>7, <1>20, <2>5, <3>1 DEF Made
    <3>6. /\ stack'[i].exit_block \in 0..MaxBlocks /\ stack'[i].exit_block # 0
          /\ stack'[i].head_block \in 0..MaxBlocks /\ stack'[i].head_block # 0
      BY <2>5, <3>2 DEF Frame, FrameShape, IsLoop
    <3>7. \A b \in 0..MaxBlocks : b # 0 => b \in Block BY BoundsAssumption DEF Block
    <3>8. stack'[i].exit_block \in Block /\ stack'[i].head_block \in Block BY <3>6, <3>7
    <3>. QED BY <1>19, <3>4, <3>5, <3>8
  <2>6. h[n + 1].before BY <1>14, <1>17
  <2>. QED BY <1>6, <2>3, <2>4, <2>5, <2>6 DEF Reads
<1>24. ASSUME NEW p, p = n + 1 PROVE Shown(h, p, S)'
  <2>1. Reads(h, p, TRUE, stack', S) BY <1>23, <1>24
  <2>. QED BY <1>12, <1>21, <1>22, <2>1 DEF Shown
<1>25. Shows(h)'
  <2>1. ASSUME NEW p \in FunctionFrames', stack'[p].fn = function_'
        PROVE  \E U \in SUBSET Block : Shown(h, p, U)'
    <3>1. p = n + 1 BY <1>8, <2>1 DEF n
    <3>. QED BY <1>24, <3>1
  <2>2. ASSUME NEW p \in FunctionFrames' PROVE ShowsAt(h, p)' BY <2>1, <2>2 DEF ShowsAt
  <2>. QED BY <2>2 DEF Shows
<1>26. ShownInv' BY <1>12, <1>18, <1>25 DEF ShownInv
<1>. QED BY <1>7, <1>8, <1>13, <1>26 DEF HideInv

LEMMA EndFunctionShown ==
  ASSUME HideInv, Next, EndFunction
  PROVE  HideInv'
<1> DEFINE q == Len(stack) - 1
           less == Front(Reader.scopes)
<1>1. /\ stack # <<>> /\ Top.kind = "function" /\ add_line("end") /\ Pop
      /\ UNCHANGED <<function_, entry>>
  BY DEF EndFunction, Returns
<1>2. /\ TypeOK /\ IInv /\ Reader.live \in BOOLEAN /\ Reader.scopes \in Seq(Brace)
      /\ stack \in Seq(Frame) /\ Len(stack) \in Nat \ {0} /\ Top = stack[Len(stack)]
      /\ Reader = [live |-> Reader.live, scopes |-> Reader.scopes]
      /\ OpenOnce
  BY <1>1, HideFacts DEF HideInv
<1>3. IInv' /\ LoopsSaved' /\ Made' BY HideKept
<1>4. /\ stack' \in Seq(Frame) /\ Len(stack') = q
      /\ \A i \in 1..q : stack'[i] = stack[i]
  BY <1>1, <1>2, PopFacts DEF Pop, Outer
<1>5. /\ DOMAIN stack = 1..Len(stack) /\ DOMAIN stack' = 1..q /\ q \in Nat
      /\ Len(stack) \in 1..Len(stack)
      /\ \A i \in 1..q : i \in 1..Len(stack) /\ i < Len(stack)
  BY <1>2, <1>4, LenProperties
<1>6. PICK g : Tells(g, Reader.scopes, stack) BY DEF HideInv, ShownInv
<1>7. PICK h : h = [i \in 1..q |-> g[i]] OBVIOUS
<1>8. Reader.scopes # <<>> /\ Last(Reader.scopes) \in Brace BY <1>1, <1>2, <1>6, TellsTop
<1>9. Tells(h, less, stack')
  <2>1. stack[Len(stack)].kind # "cond1" BY <1>1, <1>2
  <2>. QED BY <1>1, <1>2, <1>4, <1>6, <1>7, <2>1, TellsClose
<1>10. less \in Seq(Brace) BY <1>2, <1>8, FrontFacts
<1>11. PICK live \in BOOLEAN : Reader' = [live |-> live, scopes |-> less]
  <2> DEFINE e == Last(Reader.scopes)
             v == CASE e.brace = "else"            -> Reader.live \/ e.joined
                    [] e.brace \in {"if", "while"} -> Reader.live \/ e.before
                    [] OTHER                       -> FALSE
  <2>1. Reader' = [live |-> v, scopes |-> less]
    <3>1. Reader' = ReadLine(Reader, "end") BY <1>1, <1>2, LineRead DEF LineKind
    <3>2. Reader' = CloseBrace(Reader) BY <3>1 DEF ReadLine
    <3>. QED BY <3>2 DEF CloseBrace
  <2>2. e.before \in BOOLEAN /\ e.joined \in BOOLEAN BY <1>8 DEF Brace
  <2>. HIDE DEF e
  <2>3. v \in BOOLEAN
    <3>1. e.brace = "else" => v = (Reader.live \/ e.joined) OBVIOUS
    <3>2. e.brace \in {"if", "while"} => v = (Reader.live \/ e.before) OBVIOUS
    <3>3. e.brace \notin {"if", "while", "else"} => v = FALSE OBVIOUS
    <3>. HIDE DEF v
    <3>. QED BY <1>2, <2>2, <3>1, <3>2, <3>3
  <2>. HIDE DEF v
  <2>. QED BY <2>1, <2>3
<1>. HIDE DEF less, q
<1>12. ReaderTyped' /\ Reader'.scopes = less BY <1>10, <1>11 DEF ReaderTyped
<1>13. \A i \in FunctionFrames' : /\ i \in FunctionFrames /\ i \in 1..q
                                  /\ stack'[i] = stack[i]
  BY <1>4, <1>5 DEF FunctionFrames
<1>14. Len(stack) \in FunctionFrames BY <1>1, <1>2, <1>5 DEF FunctionFrames
<1>15. \A p \in FunctionFrames' : stack'[p].fn # function_'
  <2>. SUFFICES ASSUME NEW p \in FunctionFrames', stack'[p].fn = function_' PROVE FALSE
    OBVIOUS
  <2>1. p \in FunctionFrames /\ stack[p].fn = function_ /\ p \in 1..q BY <1>1, <1>13
  <2>2. Len(stack) <= p BY <1>2, <1>14, <2>1 DEF OpenOnce
  <2>3. p < Len(stack) /\ p \in Nat BY <1>5, <2>1
  <2>. QED BY <1>2, <2>2, <2>3
<1>16. OpenOnce'
  <2>1. stack' # <<>> => stack'[1].kind = "function"
    <3>. SUFFICES ASSUME stack' # <<>> PROVE stack'[1].kind = "function" OBVIOUS
    <3>1. 1 \in 1..q BY <1>4, <1>5, EmptySeq
    <3>. QED BY <1>1, <1>2, <1>4, <3>1 DEF OpenOnce
  <2>2. \A i \in FunctionFrames' : stack'[i].fn \in Function /\ entry'[stack'[i].fn] # 0
    BY <1>1, <1>2, <1>13 DEF OpenOnce
  <2>3. \A i, j \in FunctionFrames' : i # j => stack'[i].fn # stack'[j].fn
    BY <1>2, <1>13 DEF OpenOnce
  <2>. QED BY <1>15, <2>1, <2>2, <2>3 DEF OpenOnce
<1>17. Shows(h)'
  <2>1. ASSUME NEW p \in FunctionFrames' PROVE ShowsAt(h, p)' BY <1>15, <2>1 DEF ShowsAt
  <2>. QED BY <2>1 DEF Shows
<1>18. ShownInv' BY <1>9, <1>12, <1>17 DEF ShownInv
<1>. QED BY <1>3, <1>12, <1>16, <1>18 DEF HideInv
-----------------------------------------------------------------------------
LEMMA HideInitially == Init => HideInv
<1>. SUFFICES ASSUME Init PROVE HideInv OBVIOUS
<1>1. /\ stack = <<>> /\ source_code_ = <<>> /\ current_loop_ = NoLoop
      /\ \A f \in Function : entry[f] = 0
      /\ \A b \in Block : code[b] = <<>>
      /\ blocks = 0
  BY DEF Init
<1>2. IInv BY Initially
<1>3. Len(stack) = 0 /\ DOMAIN stack = {} /\ DOMAIN <<>> = {} BY <1>1
<1>4. Reader = [live |-> FALSE, scopes |-> <<>>] BY <1>1, ReadNothing DEF Reader, Unread
<1>5. <<>> \in Seq(Brace) OBVIOUS
<1>6. ReaderTyped /\ Reader.scopes = <<>> BY <1>4, <1>5 DEF ReaderTyped
<1>7. LoopsSaved BY LoopsInitially
<1>8. FunctionFrames = {} BY <1>3 DEF FunctionFrames
<1>9. OpenOnce BY <1>1, <1>8 DEF OpenOnce
<1>10. Made
  <2>1. \A b \in Block : DOMAIN code[b] = {} BY <1>1, <1>3
  <2>2. CodeMade BY <2>1 DEF CodeMade
  <2>. QED BY <1>1, <1>3, <2>2 DEF Made
<1>11. ShownInv
  <2>1. PICK d : d = [i \in 1..0 |-> 0] OBVIOUS
  <2>2. PICK g : g = [i \in 1..0 |-> <<>>[d[i]]] OBVIOUS
  <2>3. 1..0 = {} OBVIOUS
  <2>4. d \in [1..0 -> 1..0] BY <2>1, <2>3
  <2>5. Len(<<>>) = 0 OBVIOUS
  <2>6. Aligned(d, 0, <<>>) BY <2>3, <2>4, <2>5 DEF Aligned
  <2>7. Tells(g, <<>>, <<>>) BY <2>2, <2>4, <2>5, <2>6 DEF Tells
  <2>8. Shows(g) BY <1>8 DEF Shows
  <2>. QED BY <1>1, <1>6, <2>7, <2>8 DEF ShownInv
<1>. QED BY <1>2, <1>6, <1>7, <1>9, <1>10, <1>11 DEF HideInv

LEMMA HideStep == HideInv /\ [Next]_vars => HideInv'
<1>. SUFFICES ASSUME HideInv, [Next]_vars PROVE HideInv' OBVIOUS
<1>1. CASE UNCHANGED vars BY <1>1, StopShown
<1>2. CASE Next
  <2>1. CASE CreateFunction BY <1>2, <2>1, CreateFunctionShown
  <2>2. CASE EndFunction BY <1>2, <2>2, EndFunctionShown
  <2>3. CASE Statement \/ VariableGet BY <1>2, <2>3, StatementShown
  <2>4. CASE VariableDecl BY <1>2, <2>4, VariableDeclShown
  <2>5. CASE Return \/ Break \/ Continue BY <1>2, <2>5, ExitsShown
  <2>6. CASE IfElse \/ IfOnly BY <1>2, <2>6, IfShown
  <2>7. CASE Else BY <1>2, <2>7, ElseShown
  <2>8. CASE EndIf BY <1>2, <2>8, EndIfShown
  <2>9. CASE WhileBegin BY <1>2, <2>9, WhileBeginShown
  <2>10. CASE WhileTest BY <1>2, <2>10, WhileTestShown
  <2>11. CASE WhileBody BY <1>2, <2>11, WhileBodyShown
  <2>12. CASE EndWhile BY <1>2, <2>12, EndWhileShown
  <2>. QED BY <1>2, <2>1, <2>2, <2>3, <2>4, <2>5, <2>6, <2>7, <2>8, <2>9, <2>10, <2>11, <2>12
           DEF Next
<1>. QED BY <1>1, <1>2

(* The text shows the function of the innermost function's lambda.         *)
LEMMA InnermostFunction ==
  ASSUME HideInv, WritesWhatIsOpen
  PROVE  \E p \in FunctionFrames : stack[p].fn = function_
<1> DEFINE n == Len(stack)
           D == {m \in Nat : \E i \in FunctionFrames : m = n - i}
<1>1. stack # <<>> /\ stack \in Seq(Frame) /\ OpenOnce
  BY DEF WritesWhatIsOpen, HideInv, IInv, TypeOK
<1>2. n \in Nat \ {0} /\ DOMAIN stack = 1..n BY <1>1, TopFacts, LenProperties
<1>3. \A i \in FunctionFrames : i \in 1..n BY <1>2 DEF FunctionFrames
<1>4. 1 \in FunctionFrames
  <2>1. 1 \in 1..n BY <1>2
  <2>. QED BY <1>1, <1>2, <2>1 DEF OpenOnce, FunctionFrames
<1>5. \A i \in FunctionFrames : i \in Nat /\ n - i \in Nat /\ n - i \in D BY <1>2, <1>3
<1>6. D # {} /\ D \subseteq Nat BY <1>4, <1>5
<1>7. PICK m \in D : \A k \in D : m <= k BY <1>6, LeastNatural
<1>8. PICK q \in FunctionFrames : m = n - q BY <1>7
<1>. HIDE DEF D
<1>9. \A j \in FunctionFrames : j <= q
  <2>1. \A j \in FunctionFrames : n - q <= n - j BY <1>5, <1>7, <1>8
  <2>. QED BY <1>2, <1>5, <1>8, <2>1
<1>10. (CHOOSE i \in FunctionFrames : \A j \in FunctionFrames : j <= i) \in FunctionFrames
  BY <1>8, <1>9
<1>. QED BY <1>10 DEF WritesWhatIsOpen

LEMMA HidesNothingIf ==
  ASSUME HideInv
  PROVE  TextNeverHidesLiveCode
<1>. SUFFICES ASSUME WritesWhatIsOpen, insert \in Reachable, ~exited_block_
              PROVE  Reader.live
  BY DEF TextNeverHidesLiveCode
<1>1. PICK p \in FunctionFrames : stack[p].fn = function_ BY InnermostFunction
<1>2. PICK g : Tells(g, Reader.scopes, stack) /\ Shows(g) BY DEF HideInv, ShownInv
<1>3. PICK S \in SUBSET Block : Shown(g, p, S) BY <1>1, <1>2 DEF Shows, ShowsAt
<1>4. Leads(S) /\ Here(S) BY <1>3 DEF Shown
<1>5. stack # <<>> BY DEF WritesWhatIsOpen
<1>6. /\ function_ \in Function /\ entry[function_] \in Block
      /\ code \in [Block -> Seq(Instr)] /\ (Ends(code[insert]) => exited_block_)
  BY <1>5, HideFacts DEF TypeOK
<1>7. Successors \in Graph BY <1>6, TargetsKnownTo DEF Successors, Graph
<1>8. \A b \in S : Successors[b] \subseteq S BY <1>4 DEF Leads, Successors
<1>9. Reachable = ReachedIn(Successors, entry[function_])
  <2>1. function_ # 0 BY <1>6 DEF Function
  <2>. QED BY <2>1 DEF Reachable
<1>10. Reachable \subseteq S BY <1>4, <1>6, <1>7, <1>8, <1>9, ReachedLeast DEF Leads
<1>. QED BY <1>4, <1>10 DEF Here

(* Whatever the client does - code after an exit, a condition lambda that  *)
(* leaves its block from inside an if_, functions inside functions - the   *)
(* text never calls dead what can run in the function it shows: for any    *)
(* number of functions, blocks and lines, any depth of nesting and any     *)
(* liberties.                                                              *)
THEOREM TextHidesNothing == Spec => []TextNeverHidesLiveCode
<1>1. HideInv => TextNeverHidesLiveCode BY HidesNothingIf
<1>. QED BY <1>1, HideInitially, HideStep, PTL DEF Spec
=============================================================================
