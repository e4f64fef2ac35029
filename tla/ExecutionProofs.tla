-------------------------- MODULE ExecutionProofs --------------------------
(***************************************************************************)
(* Why the blocks execute the calls as the structured program they are.    *)
(* Of every instruction that can be executed the call that emitted it is   *)
(* known, and where the call says control goes is where the instruction    *)
(* goes: to a point whose next instruction comes from that call, or, while *)
(* the bracket is open, to a block the lambda that opened it still owes.   *)
(* Once everything is closed nothing is owed.  Then going on in the code   *)
(* follows going on in the calls, and both come to rest at one call.       *)
(***************************************************************************)
EXTENDS Execution, ModuleBuilderProofs

-----------------------------------------------------------------------------
(* Going on and on until going on changes nothing.                         *)

RestsAt(R, O, V, N) ==
  \A p \in V : /\ O[R[p]] = R[p] /\ R[O[p]] = R[p]
               /\ \A T \in SUBSET V : p \in T /\ (\A q \in T : O[q] \in T) => R[p] \in T
               /\ \E g \in [0..N -> V] : /\ g[0] = p /\ g[N] = R[p]
                                         /\ \A n \in 1..N : g[n] = O[g[n - 1]]

LEMMA OrbitSettles ==
  ASSUME NEW V, IsFiniteSet(V), NEW N \in Nat, Cardinality(V) <= N + 1,
         NEW O \in [V -> V], NEW rank \in [V -> Nat],
         \A q \in V : O[q] # q => rank[O[q]] < rank[q]
  PROVE  \E R \in [V -> V] : RestsAt(R, O, V, N)
<1> DEFINE Orbit(p, g) == g \in [0..N -> V] /\ g[0] = p /\ \A n \in 1..N : g[n] = O[g[n - 1]]
<1>1. ASSUME NEW p \in V PROVE \E g : Orbit(p, g)
  <2>1. PICK G : G = [n \in 1..N |-> O] OBVIOUS
  <2>2. G \in [1..N -> [V -> V]] BY <2>1
  <2>3. PICK g \in [0..N -> V] : Stepwise(g, N, p, G) BY <1>1, <2>2, StepwiseFunction
  <2>4. Orbit(p, g) BY <2>1, <2>3 DEF Stepwise
  <2>. QED BY <2>4
<1>2. ASSUME NEW p \in V, NEW g, Orbit(p, g) PROVE O[g[N]] = g[N]
  <2>1. g \in [0..N -> V] /\ g[0] = p /\ \A n \in 1..N : g[n] = O[g[n - 1]] BY <1>2
  <2> DEFINE Above(q) == {r \in V : rank[r] >= rank[q]}
  <2>2. \A T \in SUBSET V : IsFiniteSet(T) /\ Cardinality(T) \in Nat /\ Cardinality(T) <= Cardinality(V)
    BY FS_Subset, FS_CardinalityType
  <2>3. ASSUME NEW q \in V, O[q] # q PROVE Cardinality(Above(q)) < Cardinality(Above(O[q]))
    <3>1. O[q] \in V /\ rank[O[q]] < rank[q] /\ rank[O[q]] \in Nat /\ rank[q] \in Nat BY <2>3
    <3>2. Above(q) \subseteq Above(O[q])
      <4>. SUFFICES ASSUME NEW r \in V, rank[r] >= rank[q] PROVE rank[r] >= rank[O[q]] OBVIOUS
      <4>1. rank[r] \in Nat OBVIOUS
      <4>. QED BY <3>1, <4>1
    <3>3. O[q] \in Above(O[q]) /\ O[q] \notin Above(q) BY <3>1
    <3>4. Above(q) \in SUBSET V /\ Above(O[q]) \in SUBSET V BY <3>1
    <3>. HIDE DEF Above
    <3>5. IsFiniteSet(Above(O[q])) /\ Above(q) \in SUBSET Above(O[q]) BY <2>2, <3>2, <3>4
    <3>6. /\ Cardinality(Above(q)) <= Cardinality(Above(O[q]))
          /\ Cardinality(Above(q)) = Cardinality(Above(O[q])) => Above(q) = Above(O[q])
      BY <3>5, FS_Subset
    <3>7. Cardinality(Above(q)) \in Nat /\ Cardinality(Above(O[q])) \in Nat BY <2>2, <3>4
    <3>. QED BY <3>3, <3>6, <3>7
  <2>4. \A q \in V : Above(q) \in SUBSET V OBVIOUS
  <2>5. Cardinality(Above(p)) >= 1
    <3>1. rank[p] \in Nat OBVIOUS
    <3>2. p \in Above(p) BY <1>2, <3>1
    <3>3. Above(p) # {} BY <3>2
    <3>. HIDE DEF Above
    <3>4. IsFiniteSet(Above(p)) /\ Cardinality(Above(p)) \in Nat BY <1>2, <2>2, <2>4
    <3>5. Cardinality(Above(p)) # 0 BY <3>3, <3>4, FS_EmptySet
    <3>. QED BY <3>4, <3>5
  <2>. HIDE DEF Above
  <2> DEFINE S == {m \in Nat : m <= N => O[g[m]] = g[m] \/ Cardinality(Above(g[m])) >= m + 1}
  <2>6. 0 \in S BY <2>1, <2>5
  <2>7. ASSUME NEW m \in Nat, m \in S PROVE m + 1 \in S
    <3>1. SUFFICES ASSUME m + 1 <= N, O[g[m + 1]] # g[m + 1]
                   PROVE  Cardinality(Above(g[m + 1])) >= (m + 1) + 1
      OBVIOUS
    <3>2. m + 1 \in 1..N /\ (m + 1) - 1 = m /\ m \in 0..N /\ m <= N BY <3>1
    <3>3. g[m + 1] = O[g[m]] /\ g[m] \in V BY <2>1, <3>2
    <3>4. O[g[m]] # g[m] BY <3>1, <3>3
    <3>5. Cardinality(Above(g[m])) >= m + 1 BY <2>7, <3>2, <3>4
    <3>6. Cardinality(Above(g[m])) < Cardinality(Above(g[m + 1])) BY <2>3, <3>3, <3>4
    <3>7. g[m + 1] \in V BY <2>1, <3>1
    <3>8. Cardinality(Above(g[m])) \in Nat /\ Cardinality(Above(g[m + 1])) \in Nat
      BY <2>2, <2>4, <3>3, <3>7
    <3>. QED BY <3>5, <3>6, <3>8
  <2>. HIDE DEF S
  <2>8. N \in S BY <2>6, <2>7, NatSetInduction
  <2>9. g[N] \in V /\ O[g[N]] \in V BY <2>1
  <2>10. SUFFICES ASSUME O[g[N]] # g[N] PROVE FALSE OBVIOUS
  <2>11. Cardinality(Above(g[N])) >= N + 1 BY <2>8, <2>10 DEF S
  <2>12. Cardinality(Above(g[N])) < Cardinality(Above(O[g[N]])) BY <2>3, <2>9, <2>10
  <2>13. /\ Cardinality(Above(g[N])) \in Nat /\ Cardinality(Above(O[g[N]])) \in Nat
         /\ Cardinality(Above(O[g[N]])) <= Cardinality(V) /\ Cardinality(V) \in Nat
    BY <2>2, <2>4, <2>9, FS_CardinalityType
  <2>. QED BY <2>11, <2>12, <2>13
<1>3. ASSUME NEW p \in V, NEW g, Orbit(p, g), NEW k, Orbit(O[p], k) PROVE k[N] = g[N]
  <2>1. /\ g \in [0..N -> V] /\ g[0] = p /\ \A n \in 1..N : g[n] = O[g[n - 1]]
        /\ k[0] = O[p] /\ \A n \in 1..N : k[n] = O[k[n - 1]]
    BY <1>3
  <2> DEFINE S == {m \in Nat : m <= N => k[m] = O[g[m]]}
  <2>2. 0 \in S BY <2>1
  <2>3. ASSUME NEW m \in Nat, m \in S PROVE m + 1 \in S
    <3>1. SUFFICES ASSUME m + 1 <= N PROVE k[m + 1] = O[g[m + 1]] OBVIOUS
    <3>2. m + 1 \in 1..N /\ (m + 1) - 1 = m /\ m <= N BY <3>1
    <3>. QED BY <2>1, <2>3, <3>2
  <2>. HIDE DEF S
  <2>4. N \in S BY <2>2, <2>3, NatSetInduction
  <2>5. k[N] = O[g[N]] BY <2>4 DEF S
  <2>. QED BY <1>2, <1>3, <2>5
<1>4. ASSUME NEW p \in V, NEW g, Orbit(p, g), NEW T \in SUBSET V, p \in T, \A q \in T : O[q] \in T
      PROVE  g[N] \in T
  <2>1. g[0] = p /\ \A n \in 1..N : g[n] = O[g[n - 1]] BY <1>4
  <2> DEFINE S == {m \in Nat : m <= N => g[m] \in T}
  <2>2. 0 \in S BY <1>4, <2>1
  <2>3. ASSUME NEW m \in Nat, m \in S PROVE m + 1 \in S
    <3>1. SUFFICES ASSUME m + 1 <= N PROVE g[m + 1] \in T OBVIOUS
    <3>2. m + 1 \in 1..N /\ (m + 1) - 1 = m /\ m <= N BY <3>1
    <3>. QED BY <1>4, <2>1, <2>3, <3>2
  <2>. HIDE DEF S
  <2>4. N \in S BY <2>2, <2>3, NatSetInduction
  <2>. QED BY <2>4 DEF S
<1>. HIDE DEF Orbit
<1> DEFINE G == [p \in V |-> CHOOSE g : Orbit(p, g)]
           R == [p \in V |-> G[p][N]]
<1>5. \A p \in V : Orbit(p, G[p]) /\ R[p] = G[p][N] BY <1>1
<1>. HIDE DEF G
<1>6. \A p \in V : G[p] \in [0..N -> V] /\ N \in 0..N BY <1>5 DEF Orbit
<1>7. R \in [V -> V] BY <1>6
<1>. HIDE DEF R
<1>8. ASSUME NEW p \in V
      PROVE  /\ O[R[p]] = R[p] /\ R[O[p]] = R[p]
             /\ \A T \in SUBSET V : p \in T /\ (\A q \in T : O[q] \in T) => R[p] \in T
             /\ \E g \in [0..N -> V] : /\ g[0] = p /\ g[N] = R[p]
                                       /\ \A n \in 1..N : g[n] = O[g[n - 1]]
  <2>1. Orbit(p, G[p]) /\ R[p] = G[p][N] BY <1>5
  <2>2. O[p] \in V OBVIOUS
  <2>3. Orbit(O[p], G[O[p]]) /\ R[O[p]] = G[O[p]][N] BY <1>5, <2>2
  <2>4. O[R[p]] = R[p] BY <1>2, <2>1
  <2>5. R[O[p]] = R[p] BY <1>3, <2>1, <2>3
  <2>6. \A T \in SUBSET V : p \in T /\ (\A q \in T : O[q] \in T) => R[p] \in T BY <1>4, <2>1
  <2>7. \E g \in [0..N -> V] : /\ g[0] = p /\ g[N] = R[p]
                               /\ \A n \in 1..N : g[n] = O[g[n - 1]]
    BY <2>1 DEF Orbit
  <2>. QED BY <2>4, <2>5, <2>6, <2>7
<1>9. RestsAt(R, O, V, N) BY <1>8 DEF RestsAt
<1>. QED BY <1>7, <1>9

LEMMA OneByOne ==
  ASSUME NEW N \in Nat, NEW g, NEW h, h[0] = {g[0]},
         \A n \in 1..N : h[n - 1] = {g[n - 1]} => h[n] = {g[n]}
  PROVE  h[N] = {g[N]}
<1> DEFINE S == {m \in Nat : m <= N => h[m] = {g[m]}}
<1>1. 0 \in S OBVIOUS
<1>2. ASSUME NEW m \in Nat, m \in S PROVE m + 1 \in S
  <2>1. SUFFICES ASSUME m + 1 <= N PROVE h[m + 1] = {g[m + 1]} OBVIOUS
  <2>2. m + 1 \in 1..N /\ (m + 1) - 1 = m /\ m <= N BY <2>1
  <2>. QED BY <1>2, <2>2
<1>. HIDE DEF S
<1>3. N \in S BY <1>1, <1>2, NatSetInduction
<1>. QED BY <1>3 DEF S

-----------------------------------------------------------------------------
(* Brackets.  What a call appended to the program changes about the depth  *)
(* of nesting.                                                             *)

DepthOf(s) ==
  [p \in 0..Len(s) |-> Cardinality({q \in 1..p : s[q] \in Calls!Openers})
                        - Cardinality({q \in 1..p : s[q] = "end"})]
AroundIn(s, p) ==
  {q \in 1..(p - 1) : /\ s[q] \in Calls!Openers
                      /\ \A r \in q..(p - 1) : DepthOf(s)[r] >= DepthOf(s)[q]}

Change(t) == IF t \in Calls!Openers THEN 1 ELSE IF t = "end" THEN -1 ELSE 0

LEMMA SameCount == \A S : Calls!Cardinality(S) = Cardinality(S)
  BY DEF Cardinality, Calls!Cardinality

LEMMA Counted ==
  ASSUME NEW p \in Nat, NEW holds
  PROVE  /\ Cardinality({q \in 1..p : holds[q]}) \in Nat
         /\ p # 0 => Cardinality({q \in 1..p : holds[q]}) =
                       Cardinality({q \in 1..(p - 1) : holds[q]}) + (IF holds[p] THEN 1 ELSE 0)
<1> DEFINE C(n) == {q \in 1..n : holds[q]}
<1>1. \A n \in Nat : IsFiniteSet(C(n)) /\ Cardinality(C(n)) \in Nat
  <2>. TAKE n \in Nat
  <2>1. C(n) \in SUBSET (1..n) OBVIOUS
  <2>2. IsFiniteSet(1..n) BY FS_Interval
  <2>. QED BY <2>1, <2>2, FS_Subset, FS_CardinalityType
<1>2. ASSUME p # 0
      PROVE  Cardinality(C(p)) = Cardinality(C(p - 1)) + (IF holds[p] THEN 1 ELSE 0)
  <2>1. p - 1 \in Nat /\ \A q \in 1..p : q = p \/ q \in 1..(p - 1) BY <1>2
  <2>2. p \notin C(p - 1) BY <2>1
  <2>3. CASE holds[p]
    <3>1. C(p) = C(p - 1) \cup {p} BY <1>2, <2>1, <2>3
    <3>. HIDE DEF C
    <3>2. Cardinality(C(p)) = Cardinality(C(p - 1)) + 1
      BY <1>1, <2>1, <2>2, <3>1, FS_AddElement
    <3>. QED BY <2>3, <3>2
  <2>4. CASE ~holds[p]
    <3>1. C(p) = C(p - 1) BY <1>2, <2>1, <2>4
    <3>. HIDE DEF C
    <3>. QED BY <1>1, <2>1, <2>4, <3>1
  <2>. QED BY <2>3, <2>4
<1>. QED BY <1>1, <1>2

LEMMA DepthSteps ==
  ASSUME NEW s \in Seq(Calls!Token)
  PROVE  /\ DOMAIN DepthOf(s) = 0..Len(s)
         /\ \A p \in 0..Len(s) : DepthOf(s)[p] \in Int
         /\ DepthOf(s)[0] = 0
         /\ \A p \in 1..Len(s) :
              DepthOf(s)[p] = DepthOf(s)[p - 1] + Change(s[p])
<1> DEFINE opens == [q \in Nat |-> s[q] \in Calls!Openers]
           ends == [q \in Nat |-> s[q] = "end"]
           O(p) == Cardinality({q \in 1..p : opens[q]})
           E(p) == Cardinality({q \in 1..p : ends[q]})
<1>1. Len(s) \in Nat BY LenProperties
<1>5. \A p \in Nat : /\ opens[p] <=> s[p] \in Calls!Openers
                     /\ ends[p] <=> s[p] = "end"
  OBVIOUS
<1>. HIDE DEF opens, ends
<1>2. ASSUME NEW p \in 0..Len(s) PROVE DepthOf(s)[p] = O(p) - E(p)
  <2>1. \A q \in 1..p : q \in Nat BY <1>1
  <2>2. {q \in 1..p : opens[q]} = {q \in 1..p : s[q] \in Calls!Openers} BY <1>5, <2>1
  <2>3. {q \in 1..p : ends[q]} = {q \in 1..p : s[q] = "end"} BY <1>5, <2>1
  <2>4. DepthOf(s)[p] = Cardinality({q \in 1..p : s[q] \in Calls!Openers})
                           - Cardinality({q \in 1..p : s[q] = "end"})
    BY DEF DepthOf
  <2>. QED BY <2>2, <2>3, <2>4
<1>3. \A p \in Nat : O(p) \in Nat /\ E(p) \in Nat BY Counted
<1>4. \A p \in Nat : p # 0 => /\ O(p) = O(p - 1) + (IF opens[p] THEN 1 ELSE 0)
                              /\ E(p) = E(p - 1) + (IF ends[p] THEN 1 ELSE 0)
  BY Counted
<1>6. O(0) = 0 /\ E(0) = 0
  <2>1. 1..0 = {} OBVIOUS
  <2>2. {q \in 1..0 : opens[q]} = {} /\ {q \in 1..0 : ends[q]} = {} BY <2>1
  <2>. QED BY <2>2, FS_EmptySet
<1>. HIDE DEF O, E
<1>7. DOMAIN DepthOf(s) = 0..Len(s) BY DEF DepthOf
<1>8. \A p \in 0..Len(s) : p \in Nat BY <1>1
<1>9. ASSUME NEW p \in 1..Len(s)
      PROVE  DepthOf(s)[p] = DepthOf(s)[p - 1] + Change(s[p])
  <2>1. p \in Nat /\ p # 0 /\ p - 1 \in Nat /\ p \in 0..Len(s) /\ p - 1 \in 0..Len(s)
    BY <1>1
  <2>2. DepthOf(s)[p] = O(p) - E(p) /\ DepthOf(s)[p - 1] = O(p - 1) - E(p - 1) BY <1>2, <2>1
  <2>3. O(p - 1) \in Nat /\ E(p - 1) \in Nat BY <1>3, <2>1
  <2>4. /\ O(p) = O(p - 1) + (IF s[p] \in Calls!Openers THEN 1 ELSE 0)
        /\ E(p) = E(p - 1) + (IF s[p] = "end" THEN 1 ELSE 0)
    BY <1>4, <1>5, <2>1
  <2>5. s[p] \in Calls!Openers => s[p] # "end" BY DEF Calls!Openers
  <2>. QED BY <2>2, <2>3, <2>4, <2>5 DEF Change
<1>10. \A p \in 0..Len(s) : DepthOf(s)[p] \in Int
  <2>. TAKE p \in 0..Len(s)
  <2>1. O(p) \in Nat /\ E(p) \in Nat BY <1>3, <1>8
  <2>. QED BY <1>2, <2>1
<1>11. DepthOf(s)[0] = 0
  <2>1. 0 \in 0..Len(s) BY <1>1
  <2>. QED BY <1>2, <1>6, <2>1
<1>. QED BY <1>7, <1>9, <1>10, <1>11

Tokens == Seq(Calls!Token)
Appends(u, s, t) == u = Append(s, t)

LEMMA Appended ==
  ASSUME NEW s \in Tokens, NEW t \in Calls!Token, NEW u, Appends(u, s, t)
  PROVE  /\ u \in Tokens /\ Len(u) = Len(s) + 1 /\ Len(s) \in Nat
         /\ \A p \in 1..Len(s) : u[p] = s[p]
         /\ u[Len(s) + 1] = t
         /\ \A p \in 0..Len(s) : DepthOf(u)[p] = DepthOf(s)[p]
         /\ DepthOf(u)[Len(s) + 1] = DepthOf(s)[Len(s)] + Change(t)
<1>1. /\ u \in Tokens /\ Len(u) = Len(s) + 1 /\ Len(s) \in Nat
      /\ \A p \in 1..Len(s) : u[p] = s[p]
      /\ u[Len(s) + 1] = t
  BY PushFacts DEF Tokens, Appends
<1>2. ASSUME NEW p \in 0..Len(s) PROVE DepthOf(u)[p] = DepthOf(s)[p]
  <2>1. \A q \in 1..p : u[q] = s[q] BY <1>1
  <2>2. /\ {q \in 1..p : u[q] \in Calls!Openers} = {q \in 1..p : s[q] \in Calls!Openers}
        /\ {q \in 1..p : u[q] = "end"} = {q \in 1..p : s[q] = "end"}
    BY <2>1
  <2>3. p \in 0..Len(u) BY <1>1
  <2>4. DepthOf(u)[p] = Cardinality({q \in 1..p : u[q] \in Calls!Openers})
                         - Cardinality({q \in 1..p : u[q] = "end"})
    BY <2>3 DEF DepthOf
  <2>5. DepthOf(s)[p] = Cardinality({q \in 1..p : s[q] \in Calls!Openers})
                         - Cardinality({q \in 1..p : s[q] = "end"})
    BY DEF DepthOf
  <2>. QED BY <2>2, <2>4, <2>5
<1>3. DepthOf(u)[Len(s) + 1] = DepthOf(s)[Len(s)] + Change(t)
  <2>1. /\ Len(s) + 1 \in 1..Len(u) /\ Len(s) \in 0..Len(s)
        /\ (Len(s) + 1) - 1 = Len(s)
    BY <1>1
  <2>2. DepthOf(u)[Len(s) + 1] = DepthOf(u)[(Len(s) + 1) - 1] + Change(u[Len(s) + 1])
    BY <1>1, <2>1, DepthSteps DEF Tokens
  <2>. QED BY <1>1, <1>2, <2>1, <2>2
<1>. QED BY <1>1, <1>2, <1>3

(* What is open around a call is what was open before it was made.         *)
LEMMA AroundStays ==
  ASSUME NEW s \in Tokens, NEW t \in Calls!Token, NEW u, Appends(u, s, t),
         NEW p \in 1..(Len(s) + 1)
  PROVE  AroundIn(u, p) = AroundIn(s, p)
<1>1. /\ Len(s) \in Nat
      /\ \A q \in 1..Len(s) : u[q] = s[q]
      /\ \A q \in 0..Len(s) : DepthOf(u)[q] = DepthOf(s)[q]
  BY Appended
<1>2. \A q \in 1..(p - 1) : /\ q \in 1..Len(s) /\ q \in 0..Len(s)
                            /\ \A r \in q..(p - 1) : r \in 0..Len(s)
  BY <1>1
<1>3. \A q \in 1..(p - 1) :
        /\ u[q] = s[q]
        /\ (\A r \in q..(p - 1) : DepthOf(u)[r] >= DepthOf(u)[q])
             <=> (\A r \in q..(p - 1) : DepthOf(s)[r] >= DepthOf(s)[q])
  BY <1>1, <1>2
<1>. QED BY <1>3 DEF AroundIn

(* ... and after it: it opens a bracket, closes one or neither.            *)
LEMMA AroundNext ==
  ASSUME NEW s \in Tokens, NEW t \in Calls!Token, NEW u, Appends(u, s, t)
  PROVE  /\ t \in Calls!Openers =>
              AroundIn(u, Len(u) + 1) = AroundIn(s, Len(s) + 1) \cup {Len(u)}
         /\ t \notin Calls!Openers =>
              AroundIn(u, Len(u) + 1) =
                {q \in AroundIn(s, Len(s) + 1) :
                   DepthOf(s)[q] <= DepthOf(s)[Len(s)] + Change(t)}
<1> DEFINE n == Len(s)
           D == DepthOf(s)
           A == AroundIn(s, n + 1)
<1>1. /\ n \in Nat /\ Len(u) = n + 1 /\ u[n + 1] = t
      /\ \A q \in 1..n : u[q] = s[q]
      /\ \A q \in 0..n : DepthOf(u)[q] = D[q]
      /\ DepthOf(u)[n + 1] = D[n] + Change(t)
  BY Appended
<1>2. \A q \in 0..n : D[q] \in Int BY DepthSteps DEF Tokens
<1>3. /\ (n + 1) - 1 = n /\ (n + 2) - 1 = n + 1 /\ (n + 1) + 1 = n + 2
      /\ \A q \in 1..n : q \in 0..n /\ q \in 1..(n + 1) /\ n \in q..n /\ q # n + 1
  BY <1>1
<1>4. A = {q \in 1..n : s[q] \in Calls!Openers /\ \A r \in q..n : D[r] >= D[q]}
  BY <1>3 DEF AroundIn
<1>5. AroundIn(u, n + 2) =
        {q \in 1..(n + 1) : /\ u[q] \in Calls!Openers
                            /\ \A r \in q..(n + 1) : DepthOf(u)[r] >= DepthOf(u)[q]}
  BY <1>3 DEF AroundIn
<1>. HIDE DEF A, D, n
<1>6. \A q \in 1..n : (q \in AroundIn(u, n + 2)) <=> (q \in A /\ D[n] + Change(t) >= D[q])
  <2>. TAKE q \in 1..n
  <2>1. \A r : r \in q..(n + 1) <=> r \in q..n \/ r = n + 1 BY <1>1
  <2>2. \A r \in q..n : r \in 0..n BY <1>1
  <2>. QED BY <1>1, <1>3, <1>4, <1>5, <2>1, <2>2
<1>7. (n + 1 \in AroundIn(u, n + 2)) <=> t \in Calls!Openers
  <2>1. \A r \in (n + 1)..(n + 1) : r = n + 1 BY <1>1
  <2>2. n + 1 \in 1..(n + 1) /\ D[n] + Change(t) \in Int
    <3>1. n \in 0..n BY <1>1
    <3>. QED BY <1>1, <1>2, <3>1 DEF Change
  <2>3. D[n] + Change(t) >= D[n] + Change(t) BY <2>2
  <2>. QED BY <1>1, <1>5, <2>1, <2>2, <2>3
<1>8. \A q \in AroundIn(u, n + 2) : q \in 1..n \/ q = n + 1
  <2>1. \A q \in 1..(n + 1) : q \in 1..n \/ q = n + 1 BY <1>1
  <2>. QED BY <1>5, <2>1
<1>9. A \subseteq 1..n /\ n + 1 \notin 1..n BY <1>1, <1>4
<1>10. \A q \in A : /\ D[q] \in Int /\ D[n] \in Int
                    /\ t \in Calls!Openers => D[n] + Change(t) >= D[q]
  <2>. TAKE q \in A
  <2>1. D[n] >= D[q] /\ D[n] \in Int /\ D[q] \in Int BY <1>2, <1>3, <1>4, <1>9
  <2>. QED BY <2>1 DEF Change
<1>11. CASE t \in Calls!Openers
  <2>1. \A q \in AroundIn(u, n + 2) : q \in A \/ q = n + 1 BY <1>6, <1>8
  <2>3. ASSUME NEW q \in A PROVE q \in 1..n /\ D[n] + Change(t) >= D[q]
    <3>1. q \in 1..n BY <1>9
    <3>2. D[n] + Change(t) >= D[q] BY <1>10, <1>11
    <3>. QED BY <3>1, <3>2
  <2>4. \A q \in A : q \in AroundIn(u, n + 2) BY <1>6, <2>3
  <2>5. n + 1 \in AroundIn(u, n + 2) BY <1>7, <1>11
  <2>2. AroundIn(u, n + 2) = A \cup {n + 1} BY <2>1, <2>4, <2>5
  <2>. QED BY <1>1, <1>3, <1>11, <2>2 DEF A, n
<1>12. CASE t \notin Calls!Openers
  <2>1. \A q \in A : D[n] + Change(t) >= D[q] <=> D[q] <= D[n] + Change(t)
    BY <1>10 DEF Change
  <2>2. AroundIn(u, n + 2) = {q \in A : D[q] <= D[n] + Change(t)}
    BY <1>6, <1>7, <1>8, <1>9, <1>12, <2>1
  <2>. QED BY <1>1, <1>3, <1>12, <2>2 DEF A, n, D
<1>. QED BY <1>11, <1>12

LEMMA AroundOpened ==
  ASSUME NEW s \in Tokens, NEW t \in Calls!Token, NEW u, Appends(u, s, t), t \in Calls!Openers
  PROVE  AroundIn(u, Len(u) + 1) = AroundIn(s, Len(s) + 1) \cup {Len(u)}
  BY AroundNext

(* Which call opens the bracket around a call, which the loop around it,   *)
(* which one ends a bracket, which is the first to go past the then-branch *)
(* of an if.                                                               *)
IsLast(S, q)      == q \in S /\ \A r \in S : r <= q
OpenerIs(s, p, q) == IsLast(AroundIn(s, p), q)
LoopIs(s, p, q)   == IsLast({r \in AroundIn(s, p) : s[r] = "while"}, q)
EndIs(s, q, e) ==
  /\ e \in (q + 1)..Len(s) /\ DepthOf(s)[e] < DepthOf(s)[q]
  /\ \A p \in (q + 1)..(e - 1) : DepthOf(s)[p] >= DepthOf(s)[q]
Divides(s, q, p)  == s[p] \in {"else", "end"} /\ OpenerIs(s, p, q)
Undivided(s, q)   == \A r \in q..Len(s) : ~Divides(s, q, r)
DivideIs(s, q, p) ==
  /\ p \in q..Len(s) /\ Divides(s, q, p)
  /\ \A r \in q..(p - 1) : ~Divides(s, q, r)

LEMMA BracketsStay ==
  ASSUME NEW s \in Tokens, NEW t \in Calls!Token, NEW u, Appends(u, s, t)
  PROVE  /\ \A p \in 1..Len(s) : \A q :
              /\ OpenerIs(s, p, q) => OpenerIs(u, p, q)
              /\ LoopIs(s, p, q) => LoopIs(u, p, q)
              /\ Divides(u, q, p) <=> Divides(s, q, p)
         /\ \A q \in 1..Len(s) : \A e : EndIs(s, q, e) => EndIs(u, q, e)
         /\ \A q \in 1..Len(s) : \A p : DivideIs(s, q, p) => DivideIs(u, q, p)
<1> DEFINE n == Len(s)
<1>1. /\ n \in Nat /\ Len(u) = n + 1
      /\ \A q \in 1..n : u[q] = s[q]
      /\ \A q \in 0..n : DepthOf(u)[q] = DepthOf(s)[q]
  BY Appended
<1>. HIDE DEF n
<1>2. \A p \in 1..n : p \in 1..(n + 1) BY <1>1
<1>3. \A p \in 1..n : AroundIn(u, p) = AroundIn(s, p) BY <1>2, AroundStays DEF n
<1>4. \A p \in 1..n : \A q \in AroundIn(s, p) : u[q] = s[q]
  <2>1. \A p \in 1..n : \A q \in 1..(p - 1) : q \in 1..n BY <1>1
  <2>. QED BY <1>1, <2>1 DEF AroundIn
<1>5. ASSUME NEW p \in 1..n, NEW q
      PROVE  /\ OpenerIs(s, p, q) => OpenerIs(u, p, q)
             /\ LoopIs(s, p, q) => LoopIs(u, p, q)
             /\ Divides(u, q, p) <=> Divides(s, q, p)
  <2>1. OpenerIs(u, p, q) <=> OpenerIs(s, p, q) BY <1>3, <1>5 DEF OpenerIs
  <2>2. {r \in AroundIn(u, p) : u[r] = "while"} = {r \in AroundIn(s, p) : s[r] = "while"}
    BY <1>3, <1>4, <1>5
  <2>3. LoopIs(s, p, q) => LoopIs(u, p, q) BY <2>2 DEF LoopIs
  <2>4. u[p] = s[p] BY <1>1, <1>5
  <2>. QED BY <2>1, <2>3, <2>4 DEF Divides
<1>6. ASSUME NEW q \in 1..n, NEW e, EndIs(s, q, e) PROVE EndIs(u, q, e)
  <2>1. e \in (q + 1)..n BY <1>6 DEF EndIs, n
  <2>2. e \in (q + 1)..(n + 1) /\ e \in 0..n /\ q \in 0..n BY <1>1, <1>6, <2>1
  <2>3. \A p \in (q + 1)..(e - 1) : p \in 0..n BY <1>1, <1>6, <2>1
  <2>. QED BY <1>1, <1>6, <2>2, <2>3 DEF EndIs
<1>7. ASSUME NEW q \in 1..n, NEW p, DivideIs(s, q, p) PROVE DivideIs(u, q, p)
  <2>1. p \in q..n BY <1>7 DEF DivideIs, n
  <2>2. p \in q..(n + 1) /\ p \in 1..n /\ \A r \in q..(p - 1) : r \in 1..n
    BY <1>1, <1>7, <2>1
  <2>. QED BY <1>1, <1>5, <1>7, <2>2 DEF DivideIs
<1>. QED BY <1>5, <1>6, <1>7 DEF n

LEMMA UndividedStays ==
  ASSUME NEW s \in Tokens, NEW t \in Calls!Token, NEW u, Appends(u, s, t),
         NEW q \in 1..Len(s), Undivided(s, q), ~Divides(u, q, Len(u))
  PROVE  Undivided(u, q)
<1>1. Len(u) = Len(s) + 1 /\ Len(s) \in Nat BY Appended
<1>2. \A r \in q..Len(u) : r = Len(u) \/ (r \in 1..Len(s) /\ r \in q..Len(s)) BY <1>1
<1>. QED BY <1>2, BracketsStay DEF Undivided

LEMMA DividedNow ==
  ASSUME NEW s \in Tokens, NEW t \in Calls!Token, NEW u, Appends(u, s, t),
         NEW q \in 1..Len(s), Undivided(s, q), Divides(u, q, Len(u))
  PROVE  DivideIs(u, q, Len(u))
<1>1. Len(u) = Len(s) + 1 /\ Len(s) \in Nat BY Appended
<1>2. \A r \in q..(Len(u) - 1) : r \in 1..Len(s) /\ r \in q..Len(s) BY <1>1
<1>3. Len(u) \in q..Len(u) BY <1>1
<1>. QED BY <1>2, <1>3, BracketsStay DEF Undivided, DivideIs

-----------------------------------------------------------------------------
(* The running lambdas and the open brackets.  All lambdas but those of    *)
(* while_'s first run of its condition have one: o says where it was       *)
(* opened, l how many are open inside of and with it.                      *)

Opens(k) == {i \in 1..Len(k) : k[i].kind # "cond1"}
Bracket(kind) ==
  IF kind = "function" THEN "function"
  ELSE IF kind \in {"cond2", "body"} THEN "while" ELSE "if"

Levels(l, k) ==
  /\ l[0] = 0 /\ \A i \in 0..Len(k) : l[i] \in Nat
  /\ \A i \in 1..Len(k) : l[i] = l[i - 1] + (IF k[i].kind = "cond1" THEN 0 ELSE 1)
  /\ \A i, j \in 0..Len(k) : i <= j => l[i] <= l[j]
OpenedAt(o, l, s, k) ==
  /\ \A i \in Opens(k) : /\ o[i] \in 1..Len(s) /\ s[o[i]] = Bracket(k[i].kind)
                         /\ DepthOf(s)[o[i]] = l[i]
  /\ \A i, j \in Opens(k) : i < j => o[i] < o[j]
Aligned(o, l, s, k) ==
  /\ Levels(l, k) /\ OpenedAt(o, l, s, k)
  /\ DepthOf(s)[Len(s)] = l[Len(k)]
  /\ AroundIn(s, Len(s) + 1) = {o[i] : i \in Opens(k)}

(* Neither opening nor closing.                                            *)
LEMMA AlignedStays ==
  ASSUME NEW s \in Tokens, NEW t \in Calls!Token, NEW u, Appends(u, s, t),
         t \notin Calls!Openers, t # "end",
         NEW k, NEW k2, NEW o, NEW l, Aligned(o, l, s, k), Len(k) \in Nat, Len(k2) = Len(k),
         \A i \in 1..Len(k) : /\ k2[i].kind = "cond1" <=> k[i].kind = "cond1"
                              /\ Bracket(k2[i].kind) = Bracket(k[i].kind)
  PROVE  Aligned(o, l, u, k2)
<1> DEFINE n == Len(s)
<1>1. /\ n \in Nat /\ Len(u) = n + 1
      /\ \A q \in 1..n : u[q] = s[q]
      /\ \A q \in 0..n : DepthOf(u)[q] = DepthOf(s)[q]
      /\ DepthOf(u)[n + 1] = DepthOf(s)[n] + Change(t)
  BY Appended
<1>. HIDE DEF n
<1>2. Change(t) = 0 BY DEF Change
<1>3. DepthOf(s)[n] = l[Len(k)] /\ l[Len(k)] \in Nat
  <2>1. Len(k) \in 0..Len(k) OBVIOUS
  <2>. QED BY <2>1 DEF Aligned, Levels, n
<1>4. DepthOf(u)[Len(u)] = l[Len(k2)] BY <1>1, <1>2, <1>3
<1>5. Opens(k2) = Opens(k) BY DEF Opens
<1>6. Levels(l, k2) BY DEF Aligned, Levels
<1>7. OpenedAt(o, l, u, k2)
  <2>1. \A i \in Opens(k) : i \in 1..Len(k) BY DEF Opens
  <2>2. \A q \in 1..n : q \in 1..Len(u) /\ q \in 0..n BY <1>1
  <2>. QED BY <1>1, <1>5, <2>1, <2>2 DEF OpenedAt, Aligned, n
<1>8. AroundIn(u, Len(u) + 1) = AroundIn(s, n + 1)
  <2>1. AroundIn(u, Len(u) + 1) = {q \in AroundIn(s, n + 1) : DepthOf(s)[q] <= DepthOf(s)[n] + Change(t)}
    BY AroundNext DEF n
  <2>2. \A i \in Opens(k) : DepthOf(s)[o[i]] <= DepthOf(s)[n] + Change(t)
    <3>. TAKE i \in Opens(k)
    <3>1. DepthOf(s)[o[i]] = l[i] BY DEF Aligned, OpenedAt
    <3>2. i \in 0..Len(k) /\ Len(k) \in 0..Len(k) /\ i <= Len(k) BY DEF Opens
    <3>3. l[i] <= l[Len(k)] /\ l[i] \in Nat BY <3>2 DEF Aligned, Levels
    <3>. QED BY <1>2, <1>3, <3>1, <3>3
  <2>3. AroundIn(s, n + 1) = {o[i] : i \in Opens(k)} BY DEF Aligned, n
  <2>. QED BY <2>1, <2>2, <2>3
<1>9. AroundIn(u, Len(u) + 1) = {o[i] : i \in Opens(k2)} BY <1>5, <1>8 DEF Aligned, n
<1>. QED BY <1>4, <1>6, <1>7, <1>9 DEF Aligned

(* The condition lambda's first run.                                       *)
LEMMA AlignedSilently ==
  ASSUME NEW s \in Tokens, NEW k, NEW k2, NEW o, NEW l, Aligned(o, l, s, k),
         Len(k) \in Nat, Len(k2) = Len(k) + 1,
         \A i \in 1..Len(k) : k2[i] = k[i], k2[Len(k) + 1].kind = "cond1"
  PROVE  \E l2 : Aligned(o, l2, s, k2)
<1> DEFINE m == Len(k)
           l2 == [i \in Nat |-> IF i = m + 1 THEN l[m] ELSE l[i]]
<1>1. /\ \A i \in 0..m : l2[i] = l[i]
      /\ l2[m + 1] = l[m]
  OBVIOUS
<1>. HIDE DEF l2, m
<1>2. m \in Nat /\ Len(k2) = m + 1 /\ k2[m + 1].kind = "cond1" BY DEF m
<1>3. \A i \in 0..(m + 1) : i \in 0..m \/ i = m + 1 BY <1>2
<1>4. Opens(k2) = Opens(k)
  <2>1. \A i \in 1..(m + 1) : i \in 1..m \/ i = m + 1 BY <1>2
  <2>2. \A i \in 1..m : i \in 1..(m + 1) /\ k2[i] = k[i] BY <1>2 DEF m
  <2>. QED BY <1>2, <2>1, <2>2 DEF Opens, m
<1>5. Levels(l2, k2)
  <2>1. \A i \in 1..(m + 1) : i \in 0..(m + 1) /\ i - 1 \in 0..m /\ (i \in 1..m \/ i = m + 1)
    BY <1>2
  <2>2. 0 \in 0..m /\ m \in 0..m /\ (m + 1) - 1 = m BY <1>2
  <2>3. l[0] = 0 /\ \A i \in 0..m : l[i] \in Nat BY DEF Aligned, Levels, m
  <2>4. ASSUME NEW i \in 1..(m + 1)
        PROVE  l2[i] = l2[i - 1] + (IF k2[i].kind = "cond1" THEN 0 ELSE 1)
    <3>1. CASE i \in 1..m
      <4>1. l[i] = l[i - 1] + (IF k[i].kind = "cond1" THEN 0 ELSE 1)
        BY <3>1 DEF Aligned, Levels, m
      <4>2. k2[i] = k[i] BY <3>1 DEF m
      <4>3. i \in 0..m BY <1>2, <3>1
      <4>. QED BY <1>1, <2>1, <4>1, <4>2, <4>3
    <3>2. CASE i = m + 1 BY <1>1, <1>2, <2>2, <2>3, <3>2
    <3>. QED BY <2>1, <3>1, <3>2
  <2>5. ASSUME NEW i \in 0..(m + 1), NEW j \in 0..(m + 1), i <= j PROVE l2[i] <= l2[j]
    <3>1. ASSUME NEW x \in 0..m PROVE l[x] <= l[m]
      <4>1. x <= m BY <1>2, <3>1
      <4>. QED BY <2>2, <3>1, <4>1 DEF Aligned, Levels, m
    <3>2. i = m + 1 => j = m + 1 BY <1>2, <2>5
    <3>3. \A x, y \in 0..m : x <= y => l[x] <= l[y] BY DEF Aligned, Levels, m
    <3>4. CASE i \in 0..m /\ j \in 0..m BY <1>1, <2>5, <3>3, <3>4
    <3>5. CASE i \in 0..m /\ j = m + 1 BY <1>1, <3>1, <3>5
    <3>6. CASE i = m + 1 BY <1>1, <2>2, <2>3, <3>2, <3>6
    <3>. QED BY <1>3, <3>4, <3>5, <3>6
  <2>6. \A i \in 0..(m + 1) : l2[i] \in Nat BY <1>1, <1>3, <2>2, <2>3
  <2>7. l2[0] = 0 BY <1>1, <2>2, <2>3
  <2>. QED BY <1>2, <2>4, <2>5, <2>6, <2>7 DEF Levels
<1>6. OpenedAt(o, l2, s, k2)
  <2>1. \A i \in Opens(k) : /\ i \in 1..m /\ i \in 0..m /\ k2[i] = k[i]
    <3>1. \A i \in 1..m : i \in 0..m BY <1>2
    <3>. QED BY <3>1 DEF Opens, m
  <2>. QED BY <1>1, <1>4, <2>1 DEF OpenedAt, Aligned
<1>7. DepthOf(s)[Len(s)] = l2[Len(k2)] BY <1>1, <1>2 DEF Aligned, m
<1>8. Aligned(o, l2, s, k2) BY <1>4, <1>5, <1>6, <1>7 DEF Aligned
<1>. QED BY <1>8

(* A lambda on top with a bracket of its own: it was called now, or it is  *)
(* the condition lambda called again, in the loop's head.                  *)
LEMMA AlignedOpens ==
  ASSUME NEW s \in Tokens, NEW t \in Calls!Openers, NEW u, Appends(u, s, t),
         NEW k, NEW k2, NEW o, NEW l, Aligned(o, l, s, k), Len(k) \in Nat,
         NEW m \in 1..(Len(k) + 1), Len(k2) = m, Len(k) <= m,
         m = Len(k) => k[m].kind = "cond1",
         \A i \in 1..(m - 1) : k2[i] = k[i],
         k2[m].kind # "cond1", Bracket(k2[m].kind) = t
  PROVE  \E o2, l2 : /\ Aligned(o2, l2, u, k2) /\ o2[m] = Len(u)
                     /\ \A i \in 1..(m - 1) : o2[i] = o[i]
<1> DEFINE n == Len(s)
           l2 == [i \in Nat |-> IF i = m THEN l[m - 1] + 1 ELSE l[i]]
           o2 == [i \in Nat |-> IF i = m THEN n + 1 ELSE o[i]]
<1>1. m \in Nat /\ m # 0 /\ m - 1 \in Nat /\ \A i \in 0..(m - 1) : i \in Nat /\ i # m
  OBVIOUS
<1>2. /\ \A i \in 0..(m - 1) : l2[i] = l[i] /\ o2[i] = o[i]
      /\ l2[m] = l[m - 1] + 1 /\ o2[m] = n + 1
  BY <1>1
<1>. HIDE DEF l2, o2, n
<1>3. t \in Calls!Token BY DEF Calls!Openers, Calls!Token
<1>4. /\ n \in Nat /\ Len(u) = n + 1 /\ u[n + 1] = t
      /\ \A q \in 1..n : u[q] = s[q]
      /\ \A q \in 0..n : DepthOf(u)[q] = DepthOf(s)[q]
      /\ DepthOf(u)[n + 1] = DepthOf(s)[n] + 1
  BY <1>3, Appended DEF n, Change
<1>5. l[m - 1] = l[Len(k)] /\ m - 1 \in 0..Len(k)
  <2>1. CASE m = Len(k)
    <3>1. m \in 1..Len(k) /\ m - 1 \in 0..Len(k) BY <2>1
    <3>2. l[m] = l[m - 1] + 0 /\ l[m - 1] \in Nat BY <2>1, <3>1 DEF Aligned, Levels
    <3>. QED BY <2>1, <3>1, <3>2
  <2>2. CASE m # Len(k)
    <3>1. m - 1 = Len(k) BY <2>2
    <3>. QED BY <3>1
  <2>. QED BY <2>1, <2>2
<1>6. /\ \A i \in 1..(m - 1) : i \in 1..Len(k) /\ i \in 0..(m - 1) /\ i - 1 \in 0..(m - 1)
      /\ \A i \in 0..(m - 1) : i \in 0..Len(k)
      /\ \A i \in 0..m : i \in 0..(m - 1) \/ i = m
      /\ \A i \in 1..m : i \in 1..(m - 1) \/ i = m
      /\ 0 \in 0..(m - 1) /\ m - 1 \in 0..(m - 1) /\ m \notin 1..(m - 1)
  OBVIOUS
<1>7. Opens(k2) = Opens(k) \cup {m} /\ Opens(k) \subseteq 1..(m - 1)
  <2>1. ASSUME NEW i \in Opens(k) PROVE i \in 1..(m - 1)
    <3>1. i \in 1..Len(k) /\ k[i].kind # "cond1" BY <2>1 DEF Opens
    <3>2. i # m
      <4>1. i = m => m = Len(k) BY <3>1
      <4>. QED BY <3>1, <4>1
    <3>. QED BY <3>1, <3>2
  <2>2. \A i \in 1..(m - 1) : i \in Opens(k2) <=> i \in Opens(k)
    <3>1. \A i \in 1..(m - 1) : i \in 1..m BY <1>1
    <3>. QED BY <1>6, <3>1 DEF Opens
  <2>3. m \in Opens(k2) BY <1>1 DEF Opens
  <2>4. \A i \in Opens(k2) : i \in 1..(m - 1) \/ i = m BY <1>6 DEF Opens
  <2>. QED BY <2>1, <2>2, <2>3, <2>4
<1>8. Levels(l2, k2)
  <2>1. \A i \in 0..(m - 1) : l[i] \in Nat /\ l[i] <= l[m - 1]
    <3>. TAKE i \in 0..(m - 1)
    <3>1. i \in 0..Len(k) /\ Len(k) \in 0..Len(k) /\ i <= Len(k) BY <1>6
    <3>. QED BY <1>5, <3>1 DEF Aligned, Levels
  <2>2. \A i \in 0..m : l2[i] \in Nat BY <1>2, <1>6, <2>1
  <2>3. l2[0] = 0 BY <1>2, <1>6 DEF Aligned, Levels
  <2>4. ASSUME NEW i \in 1..m
        PROVE  l2[i] = l2[i - 1] + (IF k2[i].kind = "cond1" THEN 0 ELSE 1)
    <3>1. CASE i \in 1..(m - 1)
      <4>1. l[i] = l[i - 1] + (IF k[i].kind = "cond1" THEN 0 ELSE 1)
        BY <1>6, <3>1 DEF Aligned, Levels
      <4>2. k2[i] = k[i] BY <3>1
      <4>. QED BY <1>2, <1>6, <3>1, <4>1, <4>2
    <3>2. CASE i = m BY <1>2, <1>6, <3>2
    <3>. QED BY <1>6, <3>1, <3>2
  <2>5. ASSUME NEW i \in 0..m, NEW j \in 0..m, i <= j PROVE l2[i] <= l2[j]
    <3>1. i = m => j = m BY <2>5
    <3>2. \A x, y \in 0..(m - 1) : x <= y => l[x] <= l[y] BY <1>6 DEF Aligned, Levels
    <3>3. CASE i \in 0..(m - 1) /\ j \in 0..(m - 1) BY <1>2, <2>5, <3>2, <3>3
    <3>4. CASE i \in 0..(m - 1) /\ j = m
      <4>1. l[i] \in Nat /\ l[i] <= l[m - 1] /\ l[m - 1] \in Nat BY <1>6, <2>1, <3>4
      <4>2. l2[i] = l[i] /\ l2[j] = l[m - 1] + 1 BY <1>2, <3>4
      <4>. QED BY <4>1, <4>2
    <3>5. CASE i = m
      <4>1. l2[i] = l2[j] /\ l2[i] \in Nat BY <2>2, <3>1, <3>5
      <4>. QED BY <4>1
    <3>. QED BY <1>6, <3>3, <3>4, <3>5
  <2>. QED BY <2>2, <2>3, <2>4, <2>5 DEF Levels
<1>9. OpenedAt(o2, l2, u, k2)
  <2>1. ASSUME NEW i \in Opens(k)
        PROVE  /\ o2[i] = o[i] /\ o[i] \in 1..n
               /\ u[o2[i]] = Bracket(k2[i].kind) /\ DepthOf(u)[o2[i]] = l2[i]
    <3>1. i \in 1..(m - 1) BY <1>7
    <3>2. /\ o[i] \in 1..n /\ s[o[i]] = Bracket(k[i].kind) /\ DepthOf(s)[o[i]] = l[i]
      BY DEF Aligned, OpenedAt, n
    <3>3. o2[i] = o[i] /\ l2[i] = l[i] /\ k2[i] = k[i] BY <1>2, <1>6, <3>1
    <3>4. o[i] \in 0..n BY <1>4, <3>2
    <3>. QED BY <1>4, <3>2, <3>3, <3>4
  <2>2. u[o2[m]] = Bracket(k2[m].kind) BY <1>2, <1>4
  <2>3. DepthOf(u)[o2[m]] = l2[m] BY <1>2, <1>4, <1>5 DEF Aligned, n
  <2>4. \A i \in Opens(k2) : /\ o2[i] \in 1..Len(u) /\ u[o2[i]] = Bracket(k2[i].kind)
                             /\ DepthOf(u)[o2[i]] = l2[i]
    <3>1. n + 1 \in 1..Len(u) /\ \A q \in 1..n : q \in 1..Len(u) BY <1>4
    <3>. QED BY <1>2, <1>7, <2>1, <2>2, <2>3, <3>1
  <2>5. ASSUME NEW i \in Opens(k2), NEW j \in Opens(k2), i < j PROVE o2[i] < o2[j]
    <3>1. \A x \in Opens(k2) : x \in 1..m BY DEF Opens
    <3>2. i # m
      <4>1. j <= m /\ i \in Nat /\ j \in Nat BY <3>1
      <4>. QED BY <2>5, <4>1
    <3>3. i \in Opens(k) BY <1>7, <3>2
    <3>4. CASE j = m
      <4>1. o2[i] \in 1..n BY <2>1, <3>3
      <4>. QED BY <1>2, <1>4, <3>4, <4>1
    <3>5. CASE j # m
      <4>1. j \in Opens(k) BY <1>7, <3>5
      <4>2. o[i] < o[j] BY <2>5, <3>3, <4>1 DEF Aligned, OpenedAt
      <4>. QED BY <2>1, <3>3, <4>1, <4>2
    <3>. QED BY <3>4, <3>5
  <2>. QED BY <2>4, <2>5 DEF OpenedAt
<1>10. DepthOf(u)[Len(u)] = l2[Len(k2)] BY <1>2, <1>4, <1>5 DEF Aligned, n
<1>11. AroundIn(u, Len(u) + 1) = {o2[i] : i \in Opens(k2)}
  <2>1. AroundIn(u, Len(u) + 1) = {o[i] : i \in Opens(k)} \cup {n + 1}
    <3>1. AroundIn(u, Len(u) + 1) = AroundIn(s, Len(s) + 1) \cup {Len(u)}
      BY <1>3, AroundOpened
    <3>2. AroundIn(s, Len(s) + 1) = {o[i] : i \in Opens(k)} BY DEF Aligned
    <3>3. Len(u) = n + 1 BY <1>4
    <3>. QED BY <3>1, <3>2, <3>3
  <2>2. \A i \in Opens(k) : o2[i] = o[i] BY <1>2, <1>6, <1>7
  <2>. QED BY <1>2, <1>7, <2>1, <2>2
<1>12. Aligned(o2, l2, u, k2) BY <1>8, <1>9, <1>10, <1>11 DEF Aligned
<1>. QED BY <1>2, <1>4, <1>6, <1>12

(* What is around the next call is around it when it has been made.        *)
LEMMA AroundNow ==
  ASSUME NEW s \in Tokens, NEW t \in Calls!Token, NEW u, Appends(u, s, t)
  PROVE  \A q : /\ OpenerIs(s, Len(s) + 1, q) => OpenerIs(u, Len(u), q)
                /\ LoopIs(s, Len(s) + 1, q) => LoopIs(u, Len(u), q)
<1> DEFINE n == Len(s)
<1>1. n \in Nat /\ Len(u) = n + 1 /\ n + 1 \in 1..(n + 1) /\ \A q \in 1..n : u[q] = s[q]
  BY Appended
<1>2. AroundIn(u, n + 1) = AroundIn(s, n + 1) BY <1>1, AroundStays
<1>3. \A q \in AroundIn(s, n + 1) : q \in 1..n
  <2>1. (n + 1) - 1 = n BY <1>1
  <2>. QED BY <2>1 DEF AroundIn
<1>. HIDE DEF n
<1>4. {r \in AroundIn(u, n + 1) : u[r] = "while"} = {r \in AroundIn(s, n + 1) : s[r] = "while"}
  BY <1>1, <1>2, <1>3
<1>. QED BY <1>1, <1>2, <1>4 DEF OpenerIs, LoopIs, n

LEMMA TopOpens ==
  ASSUME NEW s, NEW k, NEW o, NEW l, Aligned(o, l, s, k),
         Len(k) \in Nat \ {0}, k[Len(k)].kind # "cond1",
         \A i \in Opens(k) : o[i] \in Int
  PROVE  OpenerIs(s, Len(s) + 1, o[Len(k)])
<1>1. Len(k) \in Opens(k)
  <2>1. Len(k) \in 1..Len(k) OBVIOUS
  <2>. QED BY <2>1 DEF Opens
<1>2. \A i \in Opens(k) : i = Len(k) \/ i < Len(k) BY DEF Opens
<1>3. \A i \in Opens(k) : i < Len(k) => o[i] < o[Len(k)] BY <1>1 DEF Aligned, OpenedAt
<1>4. \A i \in Opens(k) : o[i] <= o[Len(k)]
  <2>. TAKE i \in Opens(k)
  <2>1. o[i] \in Int /\ o[Len(k)] \in Int BY <1>1
  <2>. QED BY <1>2, <1>3, <2>1
<1>. QED BY <1>1, <1>4 DEF Aligned, OpenerIs, IsLast

LEMMA AlignedEnds ==
  ASSUME NEW s \in Tokens, NEW u, Appends(u, s, "end"),
         NEW k, NEW k2, NEW o, NEW l, Aligned(o, l, s, k),
         Len(k) \in Nat \ {0}, k[Len(k)].kind # "cond1",
         Len(k2) = Len(k) - 1, \A i \in 1..(Len(k) - 1) : k2[i] = k[i]
  PROVE  /\ Aligned(o, l, u, k2)
         /\ EndIs(u, o[Len(k)], Len(u)) /\ OpenerIs(u, Len(u), o[Len(k)])
<1> DEFINE n == Len(s)
           m == Len(k)
<1>1. "end" \in Calls!Token /\ "end" \notin Calls!Openers /\ Change("end") = -1
  BY DEF Calls!Token, Calls!Openers, Change
<1>2. /\ n \in Nat /\ Len(u) = n + 1 /\ u[n + 1] = "end"
      /\ \A q \in 1..n : u[q] = s[q]
      /\ \A q \in 0..n : DepthOf(u)[q] = DepthOf(s)[q]
      /\ DepthOf(u)[n + 1] = DepthOf(s)[n] - 1
  <2>1. \A q \in 0..n : DepthOf(s)[q] \in Int BY DepthSteps DEF Tokens
  <2>2. n \in Nat /\ DepthOf(u)[n + 1] = DepthOf(s)[n] + Change("end") BY <1>1, Appended
  <2>3. DepthOf(s)[n] \in Int
    <3>1. n \in 0..n BY <2>2
    <3>. QED BY <2>1, <3>1
  <2>4. DepthOf(u)[n + 1] = DepthOf(s)[n] - 1 BY <1>1, <2>2, <2>3
  <2>. QED BY <1>1, <2>4, Appended
<1>. HIDE DEF n
<1>3. /\ m \in Nat /\ m # 0 /\ m \in 1..m /\ m - 1 \in 0..m /\ m \in 0..m /\ m - 1 \in Nat
      /\ \A i \in 1..m : i \in 1..(m - 1) \/ i = m
      /\ \A i \in 1..(m - 1) : i \in 1..m /\ i \in 0..m /\ i < m /\ i # m /\ i <= m - 1
      /\ \A i \in 0..(m - 1) : i \in 0..m
  OBVIOUS
<1>4. Len(k2) = m - 1 /\ \A i \in 1..(m - 1) : k2[i] = k[i] OBVIOUS
<1>5. k[m].kind # "cond1" OBVIOUS
<1>. HIDE DEF m
<1>6. /\ \A i \in 0..m : l[i] \in Nat
      /\ l[m] = l[m - 1] + 1
      /\ \A i, j \in 0..m : i <= j => l[i] <= l[j]
      /\ DepthOf(s)[n] = l[m]
  BY <1>3, <1>5 DEF Aligned, Levels, m, n
<1>7. Opens(k) = Opens(k2) \cup {m} /\ Opens(k2) \subseteq 1..(m - 1)
  <2>1. m \in Opens(k) BY <1>3, <1>5 DEF Opens, m
  <2>2. \A i \in 1..(m - 1) : i \in Opens(k2) <=> i \in Opens(k)
    BY <1>3, <1>4 DEF Opens, m
  <2>3. \A i \in Opens(k) : i \in 1..m BY DEF Opens, m
  <2>4. \A i \in Opens(k2) : i \in 1..(m - 1) BY <1>4 DEF Opens
  <2>. QED BY <1>3, <2>1, <2>2, <2>3, <2>4
<1>8. Levels(l, k2)
  <2>1. l[0] = 0 BY DEF Aligned, Levels
  <2>2. \A i \in 1..(m - 1) : l[i] = l[i - 1] + (IF k2[i].kind = "cond1" THEN 0 ELSE 1)
    BY <1>3, <1>4 DEF Aligned, Levels, m
  <2>. QED BY <1>3, <1>4, <1>6, <2>1, <2>2 DEF Levels
<1>9. \A i \in Opens(k) : /\ o[i] \in 1..n /\ o[i] \in 0..n /\ o[i] \in Int
                          /\ s[o[i]] = Bracket(k[i].kind)
                          /\ DepthOf(s)[o[i]] = l[i]
  <2>1. \A q \in 1..n : q \in 0..n BY <1>2
  <2>. QED BY <2>1 DEF Aligned, OpenedAt, n
<1>10. OpenedAt(o, l, u, k2)
  <2>1. \A i \in Opens(k2) : i \in Opens(k) /\ k2[i] = k[i] BY <1>4, <1>7
  <2>2. \A q \in 1..n : q \in 1..Len(u) BY <1>2
  <2>3. \A i, j \in Opens(k) : i < j => o[i] < o[j] BY DEF Aligned, OpenedAt
  <2>. QED BY <1>2, <1>9, <2>1, <2>2, <2>3 DEF OpenedAt
<1>11. DepthOf(u)[Len(u)] = l[Len(k2)]
  <2>1. l[m - 1] \in Nat BY <1>3, <1>6
  <2>. QED BY <1>2, <1>4, <1>6, <2>1
<1>12. AroundIn(u, Len(u) + 1) = {o[i] : i \in Opens(k2)}
  <2>1. AroundIn(u, Len(u) + 1) =
          {q \in AroundIn(s, n + 1) : DepthOf(s)[q] <= DepthOf(s)[n] + Change("end")}
    BY <1>1, AroundNext DEF n
  <2>2. AroundIn(s, n + 1) = {o[i] : i \in Opens(k)} BY DEF Aligned, n
  <2>3. \A i \in Opens(k2) : DepthOf(s)[o[i]] <= DepthOf(s)[n] + Change("end")
    <3>. TAKE i \in Opens(k2)
    <3>1. i \in 1..(m - 1) /\ i \in Opens(k) BY <1>7
    <3>2. l[i] <= l[m - 1] /\ l[i] \in Nat /\ l[m - 1] \in Nat BY <1>3, <1>6, <3>1
    <3>3. DepthOf(s)[o[i]] = l[i] BY <1>9, <3>1
    <3>. QED BY <1>1, <1>6, <3>2, <3>3
  <2>4. ~(DepthOf(s)[o[m]] <= DepthOf(s)[n] + Change("end"))
    <3>1. DepthOf(s)[o[m]] = l[m] /\ l[m] \in Nat BY <1>3, <1>6, <1>7, <1>9
    <3>. QED BY <1>1, <1>6, <3>1
  <2>. QED BY <1>7, <2>1, <2>2, <2>3, <2>4
<1>13. Aligned(o, l, u, k2) BY <1>8, <1>10, <1>11, <1>12 DEF Aligned
<1>14. OpenerIs(s, n + 1, o[m]) BY <1>3, <1>5, <1>9, TopOpens DEF m, n
<1>15. EndIs(u, o[m], Len(u))
  <2>1. o[m] \in 1..n /\ o[m] \in 0..n /\ DepthOf(s)[o[m]] = l[m] /\ l[m] \in Nat
    BY <1>3, <1>6, <1>7, <1>9
  <2>2. n + 1 \in (o[m] + 1)..(n + 1) /\ (n + 1) - 1 = n BY <1>2, <2>1
  <2>3. DepthOf(u)[n + 1] < DepthOf(u)[o[m]] BY <1>2, <1>6, <2>1
  <2>4. \A r \in o[m]..n : DepthOf(s)[r] >= DepthOf(s)[o[m]]
    BY <1>14, <2>2 DEF OpenerIs, IsLast, AroundIn
  <2>5. \A r \in (o[m] + 1)..n : r \in o[m]..n /\ r \in 0..n BY <1>2, <2>1
  <2>6. \A r \in (o[m] + 1)..n : DepthOf(u)[r] >= DepthOf(u)[o[m]] BY <1>2, <2>1, <2>4, <2>5
  <2>. QED BY <1>2, <2>2, <2>3, <2>6 DEF EndIs
<1>16. OpenerIs(u, Len(u), o[m]) BY <1>1, <1>14, AroundNow DEF n
<1>. QED BY <1>13, <1>15, <1>16 DEF m

LEMMA InnerLoop ==
  ASSUME NEW s \in Tokens, NEW k, NEW o, NEW l, Aligned(o, l, s, k), Len(k) \in Nat,
         NEW i \in 1..Len(k), IsLoop(k[i]),
         \A j \in 1..Len(k) : IsLoop(k[j]) => j <= i,
         \A j \in 1..Len(k) : k[j].kind \in FrameKind
  PROVE  LoopIs(s, Len(s) + 1, o[i])
<1>1. i \in Opens(k) BY DEF Opens, IsLoop
<1>2. \A j \in Opens(k) : /\ j \in 1..Len(k) /\ o[j] \in 1..Len(s)
                          /\ s[o[j]] = "while" <=> IsLoop(k[j])
  <2>. TAKE j \in Opens(k)
  <2>1. j \in 1..Len(k) /\ s[o[j]] = Bracket(k[j].kind) /\ o[j] \in 1..Len(s)
    BY DEF Aligned, OpenedAt, Opens
  <2>. QED BY <2>1 DEF Bracket, IsLoop
<1>3. AroundIn(s, Len(s) + 1) = {o[j] : j \in Opens(k)} BY DEF Aligned
<1>4. \A j \in Opens(k) : IsLoop(k[j]) => o[j] <= o[i]
  <2>. SUFFICES ASSUME NEW j \in Opens(k), IsLoop(k[j]) PROVE o[j] <= o[i] OBVIOUS
  <2>1. j <= i /\ j \in Nat /\ i \in Nat BY <1>2
  <2>2. j < i => o[j] < o[i] BY <1>1 DEF Aligned, OpenedAt
  <2>3. o[j] \in Nat /\ o[i] \in Nat BY <1>1, <1>2
  <2>4. CASE j = i BY <2>3, <2>4
  <2>5. CASE j # i BY <2>1, <2>2, <2>3, <2>5
  <2>. QED BY <2>4, <2>5
<1>. QED BY <1>1, <1>2, <1>3, <1>4 DEF LoopIs, IsLast

-----------------------------------------------------------------------------
(* The instructions that can be executed, and the call each of them comes  *)
(* from.  A point past the last instruction of a block that is not closed  *)
(* is where the next call writes.                                          *)

NextCall == Len(program) + (IF stack = <<>> THEN 0 ELSE 1)
CallIn(b, i) == IF i \in DOMAIN steps[b] THEN origin[b][i] ELSE NextCall
Live(b, i) ==
  /\ b \in Block /\ parent[b] # 0 /\ i \in 1..(Len(steps[b]) + 1)
  /\ \A j \in 1..(i - 1) : steps[b][j].op \notin Terminators
Comes(b, i, q) == Live(b, i) /\ CallIn(b, i) = q

(* Every step has its call, and a block is closed by a step of its own.    *)
Recorded ==
  /\ program \in Tokens
  /\ steps \in [Block -> Seq(Instr)]
  /\ \A b \in Block : /\ DOMAIN origin[b] = DOMAIN steps[b]
                      /\ Ends(steps[b]) <=> Ends(code[b])
                      /\ code[b] = <<>> => steps[b] = <<>>

(* The one function there is.                                              *)
Alone ==
  /\ function_ = 0 => stack = <<>> /\ program = <<>>
  /\ function_ # 0 => function_ = 1 /\ entry[1] # 0
  /\ \A i \in DOMAIN stack : stack[i].kind = "function" <=> i = 1

Grows(i) == steps' = [steps EXCEPT ![insert] = Append(@, i)]
Quietly  == UNCHANGED steps /\ (Ends(steps[insert]) \/ NextCall' = NextCall)
Notes ==
  \/ \E t \in Calls!Token : Written(t) /\ (Quietly \/ \E i \in Instr : Grows(i))
  \/ Silently /\ Quietly

LEMMA StepTypes ==
  ASSUME Recorded
  PROVE  /\ \A b \in Block : /\ steps[b] \in Seq(Instr) /\ Len(steps[b]) \in Nat
                             /\ DOMAIN steps[b] = 1..Len(steps[b])
         /\ DOMAIN steps = Block
  BY DEF Recorded

(* What a call adds to a sequence.                                         *)
LEMMA AddedFacts ==
  ASSUME NEW S, NEW s \in Seq(S)
  PROVE  /\ Added(s, s) = <<>>
         /\ \A e \in S : Added(Append(s, e), s) = <<e>>
<1>1. Len(s) \in Nat OBVIOUS
<1>2. Added(s, s) = <<>> BY <1>1, SubSeqEmpty DEF Added
<1>3. ASSUME NEW e \in S PROVE Added(Append(s, e), s) = <<e>>
  <2>1. PICK t, n : t = Append(s, e) /\ n = Len(s) + 1 OBVIOUS
  <2>2. Len(t) = n /\ t[n] = e /\ n \in Nat BY <1>1, <2>1, PushFacts
  <2>3. PICK u : u = SubSeq(t, n, n) OBVIOUS
  <2>4. \A i \in n..n : t[i] \in S BY <2>2
  <2>5. /\ u \in Seq(S)
        /\ Len(u) = IF n <= n THEN n - n + 1 ELSE 0
        /\ \A i \in 1..(n - n + 1) : u[i] = t[n + i - 1]
    BY <2>2, <2>3, <2>4, SubSeqProperties
  <2>6. Len(u) = 1 /\ u[1] = e BY <2>2, <2>5
  <2>7. u = <<e>> BY <2>5, <2>6
  <2>. QED BY <2>1, <2>2, <2>3, <2>7 DEF Added
<1>. QED BY <1>2, <1>3

(* The steps grow as the code does.                                        *)
LEMMA WrittenSteps ==
  ASSUME TypeOK, Recorded, NEW t, Written(t)
  PROVE  /\ UNCHANGED code => UNCHANGED steps
         /\ \A i \in Instr : insert \in Block /\ Adds(i) => Grows(i)
<1>1. code \in [Block -> Seq(Instr)] /\ steps \in [Block -> Seq(Instr)]
  BY DEF TypeOK, Recorded
<1>2. steps' = [b \in Block |-> steps[b] \o Added(code'[b], code[b])] BY DEF Written
<1>3. ASSUME NEW b \in Block, code'[b] = code[b]
      PROVE  steps[b] \o Added(code'[b], code[b]) = steps[b]
  <2>1. Added(code'[b], code[b]) = <<>> BY <1>1, <1>3, AddedFacts
  <2>2. steps[b] \in Seq(Instr) BY <1>1
  <2>. QED BY <2>1, <2>2, ConcatEmptySeq
<1>4. ASSUME UNCHANGED code PROVE UNCHANGED steps BY <1>1, <1>2, <1>3, <1>4
<1>5. ASSUME NEW i \in Instr, insert \in Block, Adds(i) PROVE Grows(i)
  <2>1. code'[insert] = Append(code[insert], i) BY <1>1, <1>5 DEF Adds, Emitted
  <2>2. \A b \in Block : b # insert => code'[b] = code[b] BY <1>1, <1>5 DEF Adds, Emitted
  <2>3. Added(code'[insert], code[insert]) = <<i>> BY <1>1, <1>5, <2>1, AddedFacts
  <2>4. steps[insert] \o <<i>> = Append(steps[insert], i) BY <1>1, <1>5, AppendIsConcat
  <2>5. \A b \in Block : steps'[b] = IF b = insert THEN Append(steps[insert], i) ELSE steps[b]
    BY <1>2, <1>3, <2>2, <2>3, <2>4
  <2>6. steps' = [b \in Block |-> steps'[b]] BY <1>2
  <2>. QED BY <1>1, <1>5, <2>5, <2>6 DEF Grows
<1>. QED BY <1>4, <1>5

LEMMA AddedAt ==
  ASSUME Recorded, insert \in Block, NEW i, Grows(i)
  PROVE  /\ \A b \in Block : b # insert => steps'[b] = steps[b]
         /\ Len(steps'[insert]) = Len(steps[insert]) + 1
         /\ DOMAIN steps'[insert] = 1..(Len(steps[insert]) + 1)
         /\ steps'[insert][Len(steps[insert]) + 1] = i
         /\ \A j \in 1..Len(steps[insert]) : steps'[insert][j] = steps[insert][j]
<1>1. PICK S : S = Instr \cup {i} OBVIOUS
<1>5. steps[insert] \in Seq(Instr) BY DEF Recorded
<1>6. steps[insert] \in Seq(S) /\ i \in S BY <1>1, <1>5
<1>2. steps' = [steps EXCEPT ![insert] = Append(steps[insert], i)] BY DEF Grows
<1>3. steps'[insert] = Append(steps[insert], i) BY <1>2 DEF Recorded
<1>4. \A b \in Block : b # insert => steps'[b] = steps[b] BY <1>2 DEF Recorded
<1>. QED BY <1>3, <1>4, <1>6, PushFacts

(* The block a call can still come to is the one that is written to.       *)
LEMMA LiveAtEnd ==
  ASSUME IInv, Alone, Recorded, stack # <<>>, NEW b, Live(b, Len(steps[b]) + 1)
  PROVE  b = insert /\ ~Ends(steps[insert])
<1>1. b \in Block /\ parent[b] # 0 /\ Len(steps[b]) \in Nat /\ DOMAIN steps[b] = 1..Len(steps[b])
  BY StepTypes DEF Live
<1>2. ~Ends(steps[b]) /\ ~Ends(code[b])
  <2>1. ~Ends(steps[b]) BY <1>1 DEF Live, Ends
  <2>. QED BY <1>1, <2>1 DEF Recorded
<1>3. parent[b] = function_
  <2>1. function_ \in 1..MaxFunctions /\ parent[b] \in 0..MaxFunctions
    BY <1>1 DEF IInv, InsertionPlaced, TypeOK, Function
  <2>. QED BY <1>1, <2>1, ExecutionAssumption
<1>4. b = insert BY <1>1, <1>2, <1>3 DEF IInv, OnlyInsertionBlockOpen, HasTerminator, Ends
<1>. QED BY <1>2, <1>4

LEMMA ComesStays ==
  ASSUME IInv, Alone, Recorded, stack # <<>>, Notes,
         \A b \in Block : parent[b] # 0 => parent'[b] = parent[b]
  PROVE  \A b, i, q : Comes(b, i, q) => Comes(b, i, q)'
<1>1. insert \in Block BY DEF IInv, InsertionPlaced
<1>2. \A b \in Block : /\ Len(steps[b]) \in Nat /\ DOMAIN steps[b] = 1..Len(steps[b])
                       /\ DOMAIN origin[b] = 1..Len(steps[b])
  BY <1>1, StepTypes DEF Recorded
<1>3. \A b \in Block : /\ Len(steps'[b]) \in Nat /\ Len(steps[b]) <= Len(steps'[b])
                       /\ DOMAIN steps'[b] = 1..Len(steps'[b])
                       /\ \A j \in 1..Len(steps[b]) : steps'[b][j] = steps[b][j]
                       /\ b # insert => Len(steps'[b]) = Len(steps[b])
  <2>1. CASE UNCHANGED steps BY <1>2, <2>1
  <2>2. CASE \E i \in Instr : Grows(i)
    <3>1. PICK i : Grows(i) BY <2>2
    <3>2. /\ \A b \in Block : b # insert => steps'[b] = steps[b]
          /\ Len(steps'[insert]) = Len(steps[insert]) + 1
          /\ DOMAIN steps'[insert] = 1..(Len(steps[insert]) + 1)
          /\ \A j \in 1..Len(steps[insert]) : steps'[insert][j] = steps[insert][j]
      BY <1>1, <3>1, AddedAt
    <3>3. TAKE b \in Block
    <3>4. CASE b = insert BY <1>2, <3>2, <3>4
    <3>5. CASE b # insert BY <1>2, <3>2, <3>5
    <3>. QED BY <3>4, <3>5
  <2>. QED BY <2>1, <2>2 DEF Notes, Quietly
<1>4. \A b \in Block : /\ DOMAIN origin'[b] = DOMAIN steps'[b]
                       /\ \A j \in 1..Len(steps[b]) : origin'[b][j] = origin[b][j]
  <2>1. CASE Silently /\ Quietly BY <1>2, <2>1 DEF Silently, record, Quietly, Recorded
  <2>2. ASSUME NEW t, Written(t)
        PROVE  \A b \in Block : /\ DOMAIN origin'[b] = DOMAIN steps'[b]
                                /\ \A j \in 1..Len(steps[b]) : origin'[b][j] = origin[b][j]
    <3>1. TAKE b \in Block
    <3>2. origin'[b] = [j \in DOMAIN steps'[b] |->
                          IF j \in DOMAIN origin[b] THEN origin[b][j] ELSE Len(program')]
      BY <2>2 DEF Written
    <3>3. \A j \in 1..Len(steps[b]) : j \in DOMAIN steps'[b] /\ j \in DOMAIN origin[b]
      BY <1>2, <1>3
    <3>. QED BY <3>2, <3>3
  <2>. QED BY <2>1, <2>2 DEF Notes
<1>5. ASSUME NEW b, NEW i, NEW q, Comes(b, i, q) PROVE Comes(b, i, q)'
  <2>1. /\ b \in Block /\ parent[b] # 0 /\ i \in 1..(Len(steps[b]) + 1)
        /\ \A j \in 1..(i - 1) : steps[b][j].op \notin Terminators
        /\ CallIn(b, i) = q
    BY <1>5 DEF Comes, Live
  <2>2. parent'[b] # 0 BY <2>1
  <2>3. i \in 1..(Len(steps'[b]) + 1) BY <1>2, <1>3, <2>1
  <2>4. \A j \in 1..(i - 1) : steps'[b][j].op \notin Terminators
    <3>1. \A j \in 1..(i - 1) : j \in 1..Len(steps[b]) BY <1>2, <2>1
    <3>. QED BY <1>3, <2>1, <3>1
  <2>5. Live(b, i)' BY <2>1, <2>2, <2>3, <2>4 DEF Live
  <2>6. CASE i \in 1..Len(steps[b])
    <3>1. i \in DOMAIN steps[b] /\ i \in DOMAIN steps'[b] BY <1>2, <1>3, <2>1, <2>6
    <3>2. origin'[b][i] = q BY <1>4, <2>1, <2>6, <3>1 DEF CallIn
    <3>3. CallIn(b, i)' = q BY <3>1, <3>2 DEF CallIn
    <3>. QED BY <2>5, <3>3 DEF Comes
  <2>7. CASE i = Len(steps[b]) + 1
    <3>1. Live(b, Len(steps[b]) + 1) BY <1>5, <2>7 DEF Comes
    <3>2. b = insert /\ ~Ends(steps[insert]) BY <3>1, LiveAtEnd
    <3>3. i \notin DOMAIN steps[b] BY <1>2, <2>1, <2>7
    <3>4. q = NextCall BY <2>1, <3>3 DEF CallIn
    <3>5. CASE Quietly
      <4>1. NextCall' = NextCall /\ UNCHANGED steps BY <3>2, <3>5 DEF Quietly
      <4>2. i \notin DOMAIN steps'[b] BY <3>3, <4>1
      <4>3. CallIn(b, i)' = q BY <3>4, <4>1, <4>2 DEF CallIn
      <4>. QED BY <2>5, <4>3 DEF Comes
    <3>6. ASSUME NEW t \in Calls!Token, Written(t), NEW j \in Instr, Grows(j)
          PROVE  Comes(b, i, q)'
      <4>1. i \in DOMAIN steps'[b] BY <1>1, <2>7, <3>2, <3>6, <1>2, AddedAt
      <4>2. i \notin DOMAIN origin[b] BY <1>2, <2>1, <2>7
      <4>3. origin'[b][i] = Len(program')
        BY <2>1, <3>6, <4>1, <4>2 DEF Written
      <4>4. Len(program') = Len(program) + 1 BY <3>6, PushFacts DEF Written, Recorded, Tokens
      <4>5. q = Len(program') BY <3>4, <4>4 DEF NextCall
      <4>6. CallIn(b, i)' = q BY <4>1, <4>3, <4>5 DEF CallIn
      <4>. QED BY <2>5, <4>6 DEF Comes
    <3>. QED BY <3>5, <3>6 DEF Notes
  <2>. QED BY <1>2, <2>1, <2>6, <2>7
<1>. QED BY <1>5

(* A block that comes into place is where the next call writes.            *)
LEMMA PlacedNow ==
  ASSUME IInv, Recorded, NEW t \in Calls!Token, Written(t), stack' # <<>>,
         NEW b \in Block, parent'[b] # 0, steps'[b] = <<>>
  PROVE  \A y : y = Len(program') + 1 => Comes(b, 1, y)'
<1>1. TAKE y
<1>2. HAVE y = Len(program') + 1
<1>3. Live(b, 1)' BY DEF Live
<1>4. CallIn(b, 1)' = NextCall' BY DEF CallIn
<1>5. NextCall' = y BY <1>2 DEF NextCall
<1>. QED BY <1>3, <1>4, <1>5 DEF Comes

-----------------------------------------------------------------------------
(* What the code says of the calls while it is written.  A block that is   *)
(* promised (past the end of a bracket, where a false condition of an if   *)
(* goes) is owed by the lambda of that bracket, or it has come into place  *)
(* at the right call.                                                      *)

Past(o, l, x) ==
  /\ x \in Block
  /\ \/ \E i \in Opens(stack) : o[i] = l /\ stack[i].exit_block = x
     \/ \E e : EndIs(program, l, e) /\ Comes(x, 1, e + 1)

Deciding(frame) == frame.kind \in {"then_else", "then"}
OnFalse(frame)  == IF frame.kind = "then_else" THEN frame.next_block ELSE frame.exit_block
FalseTo(o, q, f) ==
  /\ f \in Block
  /\ \/ \E i \in Opens(stack) : o[i] = q /\ Deciding(stack[i]) /\ OnFalse(stack[i]) = f
     \/ \E p : DivideIs(program, q, p) /\ Comes(f, 1, p + 1)

Decides(o, q, f) ==
  \/ program[q] = "if" /\ FalseTo(o, q, f)
  \/ program[q] = "do" /\ \E l : LoopIs(program, q, l) /\ Past(o, l, f)
Directs(o, q, t) ==
  \/ program[q] = "while" /\ Comes(t, 1, q + 1)
  \/ program[q] = "else" /\ \E l : OpenerIs(program, q, l) /\ Past(o, l, t)
  \/ program[q] = "break" /\ \E l : LoopIs(program, q, l) /\ Past(o, l, t)
  \/ program[q] = "continue" /\ \E l : LoopIs(program, q, l) /\ Comes(t, 1, l + 1)
  \/ /\ program[q] = "end"
     /\ \E l : /\ OpenerIs(program, q, l)
               /\ \/ program[l] = "if" /\ Comes(t, 1, q + 1)
                  \/ program[l] = "while" /\ Comes(t, 1, l + 1)
Carries(o, ins, q, b, i) ==
  /\ q \in 1..Len(program)
  /\ \/ ins.op = "op" /\ program[q] = "statement" /\ Comes(b, i + 1, q + 1)
     \/ ins.op = "ret" /\ program[q] = "return"
     \/ ins.op = "condbr" /\ \E t, f : ins.to = {t, f} /\ Comes(t, 1, q + 1) /\ Decides(o, q, f)
     \/ ins.op = "br" /\ \E t : ins.to = {t} /\ Directs(o, q, t)

CodeTold(o) ==
  \A b \in Block : \A i \in DOMAIN steps[b] :
     Live(b, i) => Carries(o, steps[b][i], origin[b][i], b, i)
LoopsTold(o) ==
  \A i \in Opens(stack) : IsLoop(stack[i]) => Comes(stack[i].head_block, 1, o[i] + 1)
IfsTold(o) ==
  \A i \in Opens(stack) : Deciding(stack[i]) => Undivided(program, o[i])
Mapped(o, l) ==
  Aligned(o, l, program, stack) /\ CodeTold(o) /\ LoopsTold(o) /\ IfsTold(o)

(* What becomes of a promise, and where the lambdas of a step come from.   *)
ComesTo(x, y) == \A b, q : b = x /\ q = y => Comes(b, 1, q)'
FrameMoves(o, o2, i) ==
  /\ \/ i \in Opens(stack') /\ o2[i] = o[i] /\ stack'[i].exit_block = stack[i].exit_block
     \/ /\ EndIs(program', o[i], Len(program'))
        /\ stack[i].exit_block \in Block => ComesTo(stack[i].exit_block, Len(program') + 1)
  /\ Deciding(stack[i]) =>
       \/ i \in Opens(stack') /\ o2[i] = o[i] /\ stack'[i] = stack[i]
       \/ /\ DivideIs(program', o[i], Len(program'))
          /\ ComesTo(OnFalse(stack[i]), Len(program') + 1)
FrameComes(o, o2, i) ==
  \/ /\ i \in Opens(stack) /\ o2[i] = o[i]
     /\ IsLoop(stack'[i]) => IsLoop(stack[i]) /\ stack'[i].head_block = stack[i].head_block
     /\ Deciding(stack'[i]) =>
          Deciding(stack[i]) /\ ~Divides(program', o[i], Len(program'))
  \/ /\ o2[i] = Len(program')
     /\ IsLoop(stack'[i]) => ComesTo(stack'[i].head_block, Len(program') + 1)
     /\ Deciding(stack'[i]) => program'[Len(program')] = "if"

LEMMA PromisesKept ==
  ASSUME Recorded, NEW t \in Calls!Token, Written(t), NEW o, NEW o2,
         \A b, i, q : Comes(b, i, q) => Comes(b, i, q)',
         \A i \in Opens(stack) : o[i] \in 1..Len(program),
         \A i \in Opens(stack) : FrameMoves(o, o2, i)
  PROVE  /\ \A l \in 1..Len(program) : \A x : Past(o, l, x) => Past(o2, l, x)'
         /\ \A q \in 1..Len(program) : \A f : FalseTo(o, q, f) => FalseTo(o2, q, f)'
<1>1. program \in Tokens /\ Appends(program', program, t) BY DEF Recorded, Written, Appends
<1>2. PICK n : n = Len(program') + 1 OBVIOUS
<1>3. ASSUME NEW l \in 1..Len(program), NEW x, Past(o, l, x) PROVE Past(o2, l, x)'
  <2>1. x \in Block BY <1>3 DEF Past
  <2>2. ASSUME NEW i \in Opens(stack), o[i] = l, stack[i].exit_block = x PROVE Past(o2, l, x)'
    <3>1. CASE i \in Opens(stack') /\ o2[i] = o[i] /\ stack'[i].exit_block = stack[i].exit_block
      BY <2>1, <2>2, <3>1 DEF Past
    <3>2. CASE /\ EndIs(program', o[i], Len(program'))
               /\ stack[i].exit_block \in Block => ComesTo(stack[i].exit_block, Len(program') + 1)
      <4>1. Comes(x, 1, n)' BY <1>2, <2>1, <2>2, <3>2 DEF ComesTo
      <4>2. PICK e : e = Len(program') OBVIOUS
      <4>3. EndIs(program', l, e) /\ n = e + 1 BY <1>2, <2>2, <3>2, <4>2
      <4>. QED BY <2>1, <4>1, <4>3 DEF Past
    <3>. QED BY <3>1, <3>2 DEF FrameMoves
  <2>3. ASSUME NEW e, EndIs(program, l, e), Comes(x, 1, e + 1) PROVE Past(o2, l, x)'
    <3>1. EndIs(program', l, e) BY <1>1, <1>3, <2>3, BracketsStay
    <3>2. Comes(x, 1, e + 1)' BY <2>3
    <3>. QED BY <2>1, <3>1, <3>2 DEF Past
  <2>. QED BY <1>3, <2>2, <2>3 DEF Past
<1>4. ASSUME NEW q \in 1..Len(program), NEW f, FalseTo(o, q, f) PROVE FalseTo(o2, q, f)'
  <2>1. f \in Block BY <1>4 DEF FalseTo
  <2>2. ASSUME NEW i \in Opens(stack), o[i] = q, Deciding(stack[i]), OnFalse(stack[i]) = f
        PROVE  FalseTo(o2, q, f)'
    <3>1. CASE i \in Opens(stack') /\ o2[i] = o[i] /\ stack'[i] = stack[i]
      <4>1. i \in Opens(stack)' BY <3>1 DEF Opens
      <4>2. Deciding(stack[i])' /\ OnFalse(stack[i])' = f BY <2>2, <3>1 DEF Deciding, OnFalse
      <4>. QED BY <2>1, <2>2, <3>1, <4>1, <4>2 DEF FalseTo
    <3>2. CASE /\ DivideIs(program', o[i], Len(program'))
               /\ ComesTo(OnFalse(stack[i]), Len(program') + 1)
      <4>1. Comes(f, 1, n)' BY <1>2, <2>1, <2>2, <3>2 DEF ComesTo
      <4>2. PICK e : e = Len(program') OBVIOUS
      <4>3. DivideIs(program', q, e) /\ n = e + 1 BY <1>2, <2>2, <3>2, <4>2
      <4>. QED BY <2>1, <4>1, <4>3 DEF FalseTo
    <3>. QED BY <2>2, <3>1, <3>2 DEF FrameMoves
  <2>3. ASSUME NEW p, DivideIs(program, q, p), Comes(f, 1, p + 1) PROVE FalseTo(o2, q, f)'
    <3>1. DivideIs(program', q, p) BY <1>1, <1>4, <2>3, BracketsStay
    <3>2. Comes(f, 1, p + 1)' BY <2>3
    <3>. QED BY <2>1, <3>1, <3>2 DEF FalseTo
  <2>. QED BY <1>4, <2>2, <2>3 DEF FalseTo
<1>. QED BY <1>3, <1>4

(* An instruction keeps to its call.                                       *)
LEMMA CarriesKept ==
  ASSUME Recorded, NEW t \in Calls!Token, Written(t), NEW o, NEW o2,
         \A b, i, q : Comes(b, i, q) => Comes(b, i, q)',
         \A i \in Opens(stack) : o[i] \in 1..Len(program),
         \A i \in Opens(stack) : FrameMoves(o, o2, i),
         NEW ins, NEW q, NEW b, NEW i, Carries(o, ins, q, b, i)
  PROVE  Carries(o2, ins, q, b, i)'
<1>1. program \in Tokens /\ Appends(program', program, t) BY DEF Recorded, Written, Appends
<1>2. /\ \A l \in 1..Len(program) : \A x : Past(o, l, x) => Past(o2, l, x)'
      /\ \A p \in 1..Len(program) : \A f : FalseTo(o, p, f) => FalseTo(o2, p, f)'
  BY PromisesKept
<1>3. q \in 1..Len(program) BY DEF Carries
<1>4. /\ Len(program') = Len(program) + 1 /\ Len(program) \in Nat
      /\ \A p \in 1..Len(program) : program'[p] = program[p]
  BY <1>1, Appended
<1>5. q \in 1..Len(program') /\ program'[q] = program[q] BY <1>3, <1>4
<1>6. \A l : OpenerIs(program, q, l) => /\ OpenerIs(program', q, l) /\ l \in 1..Len(program)
                                        /\ program'[l] = program[l]
  <2>1. \A l : OpenerIs(program, q, l) => l \in 1..Len(program)
    BY <1>3, <1>4 DEF OpenerIs, IsLast, AroundIn
  <2>. QED BY <1>1, <1>3, <1>4, <2>1, BracketsStay
<1>7. \A l : LoopIs(program, q, l) => LoopIs(program', q, l) /\ l \in 1..Len(program)
  <2>1. \A l : LoopIs(program, q, l) => l \in 1..Len(program)
    BY <1>3, <1>4 DEF LoopIs, IsLast, AroundIn
  <2>. QED BY <1>1, <1>3, <2>1, BracketsStay
<1>8. \A f : Decides(o, q, f) => Decides(o2, q, f)'
  <2>1. TAKE f
  <2>2. CASE program[q] = "if" /\ FalseTo(o, q, f) BY <1>2, <1>3, <1>5, <2>2 DEF Decides
  <2>3. ASSUME program[q] = "do", NEW l, LoopIs(program, q, l), Past(o, l, f)
        PROVE  Decides(o2, q, f)'
    BY <1>2, <1>5, <1>7, <2>3 DEF Decides
  <2>. QED BY <2>2, <2>3 DEF Decides
<1>9. \A d : Directs(o, q, d) => Directs(o2, q, d)'
  <2>1. TAKE d
  <2>2. CASE program[q] = "while" /\ Comes(d, 1, q + 1) BY <1>5, <2>2 DEF Directs
  <2>3. ASSUME program[q] = "else", NEW l, OpenerIs(program, q, l), Past(o, l, d)
        PROVE  Directs(o2, q, d)'
    BY <1>2, <1>5, <1>6, <2>3 DEF Directs
  <2>4. ASSUME program[q] = "break", NEW l, LoopIs(program, q, l), Past(o, l, d)
        PROVE  Directs(o2, q, d)'
    BY <1>2, <1>5, <1>7, <2>4 DEF Directs
  <2>5. ASSUME program[q] = "continue", NEW l, LoopIs(program, q, l), Comes(d, 1, l + 1)
        PROVE  Directs(o2, q, d)'
    BY <1>5, <1>7, <2>5 DEF Directs
  <2>6. ASSUME program[q] = "end", NEW l, OpenerIs(program, q, l),
               \/ program[l] = "if" /\ Comes(d, 1, q + 1)
               \/ program[l] = "while" /\ Comes(d, 1, l + 1)
        PROVE  Directs(o2, q, d)'
    BY <1>5, <1>6, <2>6 DEF Directs
  <2>. QED BY <2>2, <2>3, <2>4, <2>5, <2>6 DEF Directs
<1>10. CASE ins.op = "op" /\ program[q] = "statement" /\ Comes(b, i + 1, q + 1)
  BY <1>5, <1>10 DEF Carries
<1>11. CASE ins.op = "ret" /\ program[q] = "return" BY <1>5, <1>11 DEF Carries
<1>12. ASSUME ins.op = "condbr", NEW d, NEW f, ins.to = {d, f}, Comes(d, 1, q + 1), Decides(o, q, f)
       PROVE  Carries(o2, ins, q, b, i)'
  BY <1>5, <1>8, <1>12 DEF Carries
<1>13. ASSUME ins.op = "br", NEW d, ins.to = {d}, Directs(o, q, d)
       PROVE  Carries(o2, ins, q, b, i)'
  BY <1>5, <1>9, <1>13 DEF Carries
<1>. QED BY <1>10, <1>11, <1>12, <1>13 DEF Carries

(* The instruction a call adds, where the next call used to write.         *)
CarriesNow(o, ins) ==
  ~Ends(steps[insert]) =>
    \A q, b, i : q = Len(program') /\ b = insert /\ i = Len(steps[insert]) + 1
                   => Carries(o, ins, q, b, i)'

LEMMA PlacesOf ==
  ASSUME NEW o, NEW l, Mapped(o, l)
  PROVE  \A i \in Opens(stack) : i \in 1..Len(stack) /\ o[i] \in 1..Len(program)
  BY DEF Mapped, Aligned, OpenedAt, Opens

(* One step of a running lambda, in general.                               *)
LEMMA MappedKept ==
  ASSUME IInv, Alone, Recorded, stack # <<>>, NEW t \in Calls!Token, Written(t),
         \A b \in Block : parent[b] # 0 => parent'[b] = parent[b],
         NEW o, NEW l, NEW o2, NEW l2, Mapped(o, l), Aligned(o2, l2, program', stack'),
         \A i \in Opens(stack) : FrameMoves(o, o2, i),
         \A i \in Opens(stack') : FrameComes(o, o2, i),
         Quietly \/ \E ins \in Instr : Grows(ins) /\ CarriesNow(o2, ins)
  PROVE  Mapped(o2, l2)'
<1>1. Notes BY DEF Notes
<1>2. \A b, i, q : Comes(b, i, q) => Comes(b, i, q)' BY <1>1, ComesStays
<1>3. \A i \in Opens(stack) : o[i] \in 1..Len(program) BY PlacesOf
<1>4. program \in Tokens /\ Appends(program', program, t) BY DEF Recorded, Written, Appends
<1>5. /\ Len(program') = Len(program) + 1 /\ Len(program) \in Nat
      /\ program'[Len(program')] = t
  BY <1>4, Appended
<1>6. TypeOK /\ insert \in Block BY DEF IInv, InsertionPlaced
<1>7. CodeTold(o2)'
  <2>1. SUFFICES ASSUME NEW b \in Block, NEW i \in (DOMAIN steps[b])', Live(b, i)'
                 PROVE  Carries(o2, steps[b][i], origin[b][i], b, i)'
    BY DEF CodeTold
  <2>2. /\ Len(steps[b]) \in Nat /\ DOMAIN steps[b] = 1..Len(steps[b])
        /\ DOMAIN origin[b] = DOMAIN steps[b]
    BY <1>6, StepTypes DEF Recorded
  <2>3. origin'[b] = [j \in DOMAIN steps'[b] |->
                        IF j \in DOMAIN origin[b] THEN origin[b][j] ELSE Len(program')]
    BY DEF Written
  <2>4. ASSUME i \in DOMAIN steps[b], \A j \in 1..i : steps'[b][j] = steps[b][j]
        PROVE  Carries(o2, steps[b][i], origin[b][i], b, i)'
    <3>1. parent[b] # 0
      <4>1. steps[b] # <<>> BY <2>2, <2>4
      <4>. QED BY <4>1 DEF Recorded, IInv, UnplacedEmpty
    <3>2. \A j \in 1..(i - 1) : j \in 1..i BY <2>2, <2>4
    <3>3. Live(b, i)
      <4>1. \A j \in 1..(i - 1) : steps'[b][j].op \notin Terminators BY <2>1 DEF Live
      <4>2. i \in 1..(Len(steps[b]) + 1) BY <2>2, <2>4
      <4>. QED BY <2>4, <3>1, <3>2, <4>1, <4>2 DEF Live
    <3>4. Carries(o, steps[b][i], origin[b][i], b, i) BY <2>4, <3>3 DEF Mapped, CodeTold
    <3>5. PICK ins, q : ins = steps[b][i] /\ q = origin[b][i] OBVIOUS
    <3>6. Carries(o2, ins, q, b, i)' BY <1>2, <1>3, <3>4, <3>5, CarriesKept
    <3>7. i \in 1..i /\ i \in DOMAIN steps'[b] BY <2>1, <2>2, <2>4
    <3>8. steps'[b][i] = ins /\ origin'[b][i] = q BY <2>2, <2>3, <2>4, <3>5, <3>7
    <3>. QED BY <3>6, <3>8
  <2>5. CASE UNCHANGED steps BY <2>1, <2>4, <2>5
  <2>6. ASSUME NEW ins \in Instr, Grows(ins), CarriesNow(o2, ins)
        PROVE  Carries(o2, steps[b][i], origin[b][i], b, i)'
    <3>1. /\ \A c \in Block : c # insert => steps'[c] = steps[c]
          /\ Len(steps'[insert]) = Len(steps[insert]) + 1
          /\ DOMAIN steps'[insert] = 1..(Len(steps[insert]) + 1)
          /\ steps'[insert][Len(steps[insert]) + 1] = ins
          /\ \A j \in 1..Len(steps[insert]) : steps'[insert][j] = steps[insert][j]
      BY <1>6, <2>6, AddedAt
    <3>2. CASE b # insert BY <2>1, <2>4, <3>1, <3>2
    <3>3. CASE b = insert /\ i # Len(steps[insert]) + 1
      <4>1. i \in 1..Len(steps[insert]) BY <2>1, <2>2, <3>1, <3>3
      <4>2. \A j \in 1..i : j \in 1..Len(steps[insert]) BY <2>2, <3>3, <4>1
      <4>. QED BY <2>2, <2>4, <3>1, <3>3, <4>1, <4>2
    <3>4. CASE b = insert /\ i = Len(steps[insert]) + 1
      <4>1. ~Ends(steps[insert])
        <5>1. \A j \in 1..(i - 1) : steps'[b][j].op \notin Terminators BY <2>1 DEF Live
        <5>2. i - 1 = Len(steps[insert]) BY <2>2, <3>4
        <5>. QED BY <2>2, <3>1, <3>4, <5>1, <5>2 DEF Ends
      <4>2. PICK q : q = Len(program') OBVIOUS
      <4>3. Carries(o2, ins, q, b, i)' BY <2>6, <3>4, <4>1, <4>2 DEF CarriesNow
      <4>4. i \notin DOMAIN origin[b] BY <2>2, <3>4
      <4>5. steps'[b][i] = ins /\ origin'[b][i] = q BY <2>1, <2>3, <3>1, <3>4, <4>2, <4>4
      <4>. QED BY <4>3, <4>5
    <3>. QED BY <3>2, <3>3, <3>4
  <2>. QED BY <2>5, <2>6 DEF Quietly
<1>8. LoopsTold(o2)'
  <2>1. SUFFICES ASSUME NEW i \in Opens(stack)', IsLoop(stack[i])'
                 PROVE  Comes(stack[i].head_block, 1, o2[i] + 1)'
    BY DEF LoopsTold
  <2>2. i \in Opens(stack') /\ IsLoop(stack'[i]) BY <2>1 DEF Opens, IsLoop
  <2>3. PICK x, y : x = stack'[i].head_block /\ y = o2[i] + 1 OBVIOUS
  <2>4. CASE i \in Opens(stack) /\ o2[i] = o[i] /\ IsLoop(stack[i])
               /\ stack'[i].head_block = stack[i].head_block
    <3>1. Comes(stack[i].head_block, 1, o[i] + 1) BY <2>4 DEF Mapped, LoopsTold
    <3>2. Comes(x, 1, y) BY <2>3, <2>4, <3>1
    <3>3. Comes(x, 1, y)' BY <1>2, <3>2
    <3>. QED BY <2>3, <3>3
  <2>5. CASE o2[i] = Len(program') /\ ComesTo(stack'[i].head_block, Len(program') + 1)
    <3>1. Comes(x, 1, y)' BY <2>3, <2>5 DEF ComesTo
    <3>. QED BY <2>3, <3>1
  <2>. QED BY <2>2, <2>4, <2>5 DEF FrameComes
<1>9. IfsTold(o2)'
  <2>1. SUFFICES ASSUME NEW i \in Opens(stack)', Deciding(stack[i])'
                 PROVE  Undivided(program', o2[i])
    BY DEF IfsTold
  <2>2. i \in Opens(stack') /\ Deciding(stack'[i]) BY <2>1 DEF Opens, Deciding
  <2>3. CASE i \in Opens(stack) /\ o2[i] = o[i] /\ Deciding(stack[i])
               /\ ~Divides(program', o[i], Len(program'))
    <3>1. Undivided(program, o[i]) BY <2>3 DEF Mapped, IfsTold
    <3>. QED BY <1>3, <1>4, <2>3, <3>1, UndividedStays
  <2>4. CASE o2[i] = Len(program') /\ program'[Len(program')] = "if"
    <3>1. \A r \in Len(program')..Len(program') : r = Len(program') BY <1>5
    <3>. QED BY <2>4, <3>1 DEF Undivided, Divides
  <2>. QED BY <2>2, <2>3, <2>4 DEF FrameComes
<1>. QED BY <1>7, <1>8, <1>9 DEF Mapped

-----------------------------------------------------------------------------
(* One lemma per action.                                                   *)

(* What holds of any client, before the calls are looked at.               *)
Steady == IInv /\ LoopsSaved /\ Alone /\ Recorded
Adding == \E i \in Instr : Grows(i)

LEMMA FramesOf ==
  ASSUME Steady
  PROVE  /\ TypeOK /\ stack \in Seq(Frame) /\ Len(stack) \in Nat /\ DOMAIN stack = 1..Len(stack)
         /\ \A i \in 1..Len(stack) : stack[i] \in Frame /\ stack[i].kind \in FrameKind
         /\ program \in Tokens /\ Len(program) \in Nat
         /\ stack # <<>> => /\ Len(stack) \in Nat \ {0} /\ Len(stack) \in 1..Len(stack)
                            /\ Top = stack[Len(stack)] /\ Top \in Frame
                            /\ insert \in Block /\ function_ \in Function
<1>1. TypeOK /\ stack \in Seq(Frame) BY DEF Steady, IInv, TypeOK
<1>2. /\ Len(stack) \in Nat /\ DOMAIN stack = 1..Len(stack)
      /\ \A i \in 1..Len(stack) : stack[i] \in Frame
  BY <1>1
<1>3. \A i \in 1..Len(stack) : stack[i].kind \in FrameKind BY <1>2 DEF Frame
<1>4. program \in Tokens /\ Len(program) \in Nat BY DEF Steady, Recorded, Tokens
<1>5. ASSUME stack # <<>> PROVE Len(stack) \in Nat \ {0} BY <1>1, <1>5, TopFacts
<1>6. stack # <<>> => insert \in Block /\ function_ \in Function BY DEF Steady, IInv, InsertionPlaced
<1>. QED BY <1>1, <1>2, <1>3, <1>4, <1>5, <1>6 DEF Top

LEMMA StepsGrow ==
  ASSUME Steady, stack # <<>>, NEW t, Written(t)
  PROVE  /\ UNCHANGED code => UNCHANGED steps
         /\ \A i \in Instr : Adds(i) => Grows(i)
  BY FramesOf, WrittenSteps DEF Steady

LEMMA ClosedBranch ==
  ASSUME Steady, stack # <<>>, Top.kind \notin Conditions, NEW t, Written(t),
         NEW target \in Block, NEW place \in Location, CloseBranch(target, place)
  PROVE  \/ UNCHANGED steps /\ Ends(steps[insert])
         \/ /\ Instruction("br", {target}, place) \in Instr
            /\ Grows(Instruction("br", {target}, place))
<1>1. exited_block_ <=> Ends(steps[insert])
  <2>1. exited_block_ <=> Ends(code[insert]) BY FlagTrusted DEF Steady
  <2>. QED BY <2>1, FramesOf DEF Steady, Recorded
<1>2. PICK i : i = Instruction("br", {target}, place) OBVIOUS
<1>3. i \in Instr BY <1>2, FramesOf, EmittedType DEF Terminators
<1>4. CASE exited_block_ BY <1>1, <1>4, StepsGrow DEF CloseBranch
<1>5. CASE ~exited_block_
  <2>1. Adds(i) BY <1>2, <1>5 DEF CloseBranch, Adds
  <2>. QED BY <1>2, <1>3, <2>1, StepsGrow
<1>. QED BY <1>4, <1>5

LEMMA BlockPlaced ==
  ASSUME Steady, stack # <<>>, stack' # <<>>, NEW t \in Calls!Token, Written(t),
         NEW b \in Block, parent[b] = 0, PlaceAndInsert(b),
         UNCHANGED steps \/ Adding
  PROVE  /\ ComesTo(b, Len(program') + 1)
         /\ \A c \in Block : parent[c] # 0 => parent'[c] = parent[c]
<1>1. IInv /\ TypeOK BY FramesOf DEF Steady
<1>2. /\ \A c \in Block : parent'[c] # parent[c] => parent[c] = 0 /\ parent'[c] = function_
      /\ parent'[insert'] = function_
  BY <1>1, PlaceEffect
<1>3. \A c \in Block : steps'[c] # steps[c] => c = insert
  <2>1. insert \in Block /\ Recorded BY FramesOf DEF Steady
  <2>. QED BY <2>1, AddedAt DEF Adding
<1>4. b # insert BY DEF Steady, IInv, InsertionPlaced
<1>5. steps'[b] = <<>>
  <2>1. steps[b] = <<>> BY DEF Steady, IInv, UnplacedEmpty, Recorded
  <2>. QED BY <1>3, <1>4, <2>1
<1>6. insert' = b BY DEF PlaceAndInsert
<1>7. function_ # 0 BY FramesOf DEF Function
<1>8. parent'[b] # 0 BY <1>2, <1>6, <1>7
<1>9. \A y : y = Len(program') + 1 => Comes(b, 1, y)' BY <1>5, <1>8, PlacedNow DEF Steady
<1>10. ComesTo(b, Len(program') + 1) BY <1>9 DEF ComesTo
<1>. QED BY <1>2, <1>10

(* A call in the lambda that is running, which goes on running.            *)
LEMMA StraightMapped ==
  ASSUME Steady, stack # <<>>, NEW t \in {"statement", "return", "break", "continue"},
         Written(t), UNCHANGED <<stack, parent>>, NEW o, NEW l, Mapped(o, l),
         NEW ins \in Instr, Grows(ins), CarriesNow(o, ins)
  PROVE  Mapped(o, l)'
<1>1. t \in Calls!Token /\ t \notin Calls!Openers /\ t \notin {"end", "else"}
  BY DEF Calls!Token, Calls!Openers
<1>2. program \in Tokens /\ Appends(program', program, t)
  BY FramesOf DEF Written, Appends
<1>3. program'[Len(program')] = t BY <1>1, <1>2, Appended
<1>4. Aligned(o, l, program', stack')
  <2>1. Aligned(o, l, program, stack) BY DEF Mapped
  <2>. QED BY <1>1, <1>2, <2>1, FramesOf, AlignedStays
<1>5. \A i \in Opens(stack) : FrameMoves(o, o, i) BY DEF FrameMoves
<1>6. \A i \in Opens(stack') : FrameComes(o, o, i)
  BY <1>1, <1>3 DEF FrameComes, Divides
<1>. QED BY <1>1, <1>4, <1>5, <1>6, MappedKept DEF Steady

LEMMA StatementMapped ==
  ASSUME Steady, Statement, Written("statement"), NEW o, NEW l, Mapped(o, l)
  PROVE  Adding /\ Mapped(o, l)'
<1>1. stack # <<>> /\ UNCHANGED <<stack, parent, insert>> BY DEF Statement, MayAdd, MayCall
<1>2. TypeOK /\ insert \in Block BY <1>1, FramesOf
<1>3. PICK ins : ins = Instruction("op", {}, At(line_no_)) OBVIOUS
<1>4. At(line_no_) \in Location BY <1>2, LineFacts
<1>5. ins \in Instr BY <1>2, <1>3, <1>4, EmittedType
<1>6. Grows(ins)
  <2>1. Adds(ins) BY <1>3 DEF Statement, Adds
  <2>. QED BY <1>1, <1>5, <2>1, StepsGrow
<1>7. ins.op = "op" BY <1>3 DEF Instruction
<1>8. CarriesNow(o, ins)
  <2>1. SUFFICES ASSUME ~Ends(steps[insert]), NEW q, NEW b, NEW i, q = Len(program'), b = insert,
                        i = Len(steps[insert]) + 1
                 PROVE  Carries(o, ins, q, b, i)'
    BY DEF CarriesNow
  <2>2. /\ Len(program') = Len(program) + 1 /\ program'[Len(program')] = "statement"
    BY FramesOf, PushFacts DEF Written, Tokens, Calls!Token
  <2>3. /\ Len(steps'[insert]) = Len(steps[insert]) + 1
        /\ DOMAIN steps'[insert] = 1..(Len(steps[insert]) + 1)
        /\ steps'[insert][Len(steps[insert]) + 1] = ins
        /\ \A j \in 1..Len(steps[insert]) : steps'[insert][j] = steps[insert][j]
    BY <1>2, <1>5, <1>6, AddedAt DEF Steady
  <2>4. Len(steps[b]) \in Nat /\ DOMAIN steps[b] = 1..Len(steps[b])
    BY <1>2, <2>1, StepTypes DEF Steady
  <2>5. Live(b, i + 1)'
    <3>1. parent'[b] # 0 BY <1>1, <2>1 DEF Steady, IInv, InsertionPlaced
    <3>2. i + 1 \in 1..(Len(steps'[b]) + 1) BY <2>1, <2>3, <2>4
    <3>3. ASSUME NEW j \in 1..((i + 1) - 1) PROVE steps'[b][j].op \notin Terminators
      <4>1. CASE j = i BY <1>7, <2>1, <2>3, <4>1 DEF Terminators
      <4>2. CASE j # i
        <5>1. j \in 1..Len(steps[b]) BY <2>1, <2>4, <3>3, <4>2
        <5>. QED BY <2>1, <2>3, <2>4, <5>1 DEF Ends
      <4>. QED BY <4>1, <4>2
    <3>. QED BY <1>2, <2>1, <3>1, <3>2, <3>3 DEF Live
  <2>6. CallIn(b, i + 1)' = q + 1
    <3>1. i + 1 \notin DOMAIN steps'[b] BY <2>1, <2>3, <2>4
    <3>2. NextCall' = Len(program') + 1 BY <1>1 DEF NextCall
    <3>. QED BY <2>1, <3>1, <3>2 DEF CallIn
  <2>7. Comes(b, i + 1, q + 1)' BY <2>5, <2>6 DEF Comes
  <2>8. q \in 1..Len(program') BY <2>1, <2>2, FramesOf
  <2>. QED BY <1>7, <2>1, <2>2, <2>7, <2>8 DEF Carries
<1>. QED BY <1>1, <1>5, <1>6, <1>8, StraightMapped DEF Adding

LEMMA ReturnMapped ==
  ASSUME Steady, MayExit, Exit("return", "ret", {}), Written("return"), NEW o, NEW l, Mapped(o, l)
  PROVE  Adding /\ Mapped(o, l)'
<1>1. stack # <<>> /\ UNCHANGED <<stack, parent, insert>> BY DEF Exit, MayExit, MayCall
<1>2. TypeOK /\ insert \in Block BY <1>1, FramesOf
<1>3. PICK ins : ins = Instruction("ret", {}, At(line_no_)) OBVIOUS
<1>4. At(line_no_) \in Location BY <1>2, LineFacts
<1>5. ins \in Instr BY <1>2, <1>3, <1>4, EmittedType DEF Terminators
<1>6. Grows(ins)
  <2>1. Adds(ins) BY <1>3 DEF Exit, Adds
  <2>. QED BY <1>1, <1>5, <2>1, StepsGrow
<1>7. ins.op = "ret" BY <1>3 DEF Instruction
<1>8. /\ Len(program') = Len(program) + 1 /\ program'[Len(program')] = "return"
      /\ Len(program) \in Nat
  BY FramesOf, PushFacts DEF Written, Tokens, Calls!Token
<1>9. CarriesNow(o, ins) BY <1>7, <1>8 DEF CarriesNow, Carries
<1>. QED BY <1>1, <1>5, <1>6, <1>9, StraightMapped DEF Adding

(* break_ and continue_ find the loop that is around the call.             *)
LEMMA LoopAround ==
  ASSUME Steady, stack # <<>>, current_loop_ # NoLoop, NEW t \in Calls!Token, Written(t),
         NEW o, NEW l, Mapped(o, l)
  PROVE  \E i \in Opens(stack) : /\ IsLoop(stack[i]) /\ current_loop_ = BlocksOf(stack[i])
                                 /\ LoopIs(program', Len(program'), o[i])
<1>1. PICK i \in 1..Len(stack) : /\ IsLoop(stack[i]) /\ current_loop_ = BlocksOf(stack[i])
                                 /\ \A j \in 1..Len(stack) : j > i => ~IsLoop(stack[j])
  BY DEF Steady, LoopsSaved, InnermostLoop
<1>2. i \in Opens(stack) BY <1>1 DEF Opens, IsLoop
<1>3. /\ program \in Tokens /\ Len(stack) \in Nat
      /\ \A j \in 1..Len(stack) : stack[j].kind \in FrameKind
  BY FramesOf
<1>4. \A j \in 1..Len(stack) : IsLoop(stack[j]) => j <= i BY <1>1
<1>5. Aligned(o, l, program, stack) BY DEF Mapped
<1>6. LoopIs(program, Len(program) + 1, o[i]) BY <1>1, <1>3, <1>4, <1>5, InnerLoop
<1>7. Appends(program', program, t) BY DEF Written, Appends
<1>8. LoopIs(program', Len(program'), o[i]) BY <1>3, <1>6, <1>7, AroundNow
<1>. QED BY <1>1, <1>2, <1>8

LEMMA JumpMapped ==
  ASSUME Steady, MayExit, NEW t \in {"break", "continue"}, NEW x, Exit(t, "br", {x}), Written(t),
         x # 0, x = IF t = "break" THEN current_loop_.break_block_ ELSE current_loop_.continue_block_,
         NEW o, NEW l, Mapped(o, l)
  PROVE  Adding /\ Mapped(o, l)'
<1>1. stack # <<>> /\ UNCHANGED <<stack, parent, insert>> BY DEF Exit, MayExit, MayCall
<1>2. TypeOK /\ insert \in Block BY <1>1, FramesOf
<1>3. PICK ins : ins = Instruction("br", {x}, At(line_no_)) OBVIOUS
<1>4. At(line_no_) \in Location BY <1>2, LineFacts
<1>5. x \in Block BY <1>2, BoundsAssumption DEF TypeOK, Loop, Block
<1>6. ins \in Instr BY <1>2, <1>3, <1>4, <1>5, EmittedType DEF Terminators
<1>7. Grows(ins)
  <2>1. Adds(ins) BY <1>3 DEF Exit, Adds
  <2>. QED BY <1>1, <1>6, <2>1, StepsGrow
<1>8. ins.op = "br" /\ ins.to = {x} BY <1>3 DEF Instruction
<1>9. t \in Calls!Token BY DEF Calls!Token
<1>10. Len(program') = Len(program) + 1 /\ program'[Len(program')] = t /\ Len(program) \in Nat
  BY <1>9, FramesOf, PushFacts DEF Written, Tokens
<1>11. current_loop_ # NoLoop BY DEF NoLoop
<1>12. PICK i \in Opens(stack) : /\ IsLoop(stack[i]) /\ current_loop_ = BlocksOf(stack[i])
                                 /\ LoopIs(program', Len(program'), o[i])
  BY <1>1, <1>9, <1>11, LoopAround
<1>13. CarriesNow(o, ins)
  <2>1. SUFFICES ASSUME NEW q, q = Len(program') PROVE \A b, i_ : Carries(o, ins, q, b, i_)'
    BY DEF CarriesNow
  <2>2. Directs(o, q, x)'
    <3>1. i \in Opens(stack)' BY <1>1 DEF Opens
    <3>2. PICK p : p = o[i] OBVIOUS
    <3>3. CASE t = "break"
      <4>1. stack'[i].exit_block = x BY <1>1, <1>12, <3>3 DEF BlocksOf
      <4>2. Past(o, p, x)' BY <1>5, <3>1, <3>2, <4>1 DEF Past
      <4>. QED BY <1>10, <1>12, <2>1, <3>2, <3>3, <4>2 DEF Directs
    <3>4. CASE t = "continue"
      <4>1. stack[i].head_block = x BY <1>12, <3>4 DEF BlocksOf
      <4>2. Comes(x, 1, p + 1) BY <1>12, <3>2, <4>1 DEF Mapped, LoopsTold
      <4>3. Notes BY <1>6, <1>7, <1>9 DEF Notes
      <4>4. Comes(x, 1, p + 1)' BY <1>1, <4>2, <4>3, ComesStays DEF Steady
      <4>. QED BY <1>10, <1>12, <2>1, <3>2, <3>4, <4>4 DEF Directs
    <3>. QED BY <3>3, <3>4
  <2>3. q \in 1..Len(program') BY <1>10, <2>1
  <2>. QED BY <1>8, <2>2, <2>3 DEF Carries
<1>. QED BY <1>1, <1>6, <1>7, <1>13, StraightMapped DEF Adding

LEMMA TokenFacts ==
  /\ \A t \in {"function", "if", "while"} : t \in Calls!Token /\ t \in Calls!Openers
  /\ \A t \in {"statement", "else", "do", "end", "return", "break", "continue"} :
       t \in Calls!Token /\ t \notin Calls!Openers
  BY DEF Calls!Token, Calls!Openers

LEMMA WrittenFacts ==
  ASSUME Steady, NEW t \in Calls!Token, Written(t)
  PROVE  /\ Appends(program', program, t) /\ program \in Tokens
         /\ Len(program') = Len(program) + 1 /\ Len(program) \in Nat /\ Len(program') \in 1..Len(program')
         /\ program'[Len(program')] = t
         /\ \A p \in 1..Len(program) : program'[p] = program[p]
<1>1. Appends(program', program, t) /\ program \in Tokens BY FramesOf DEF Written, Appends
<1>. QED BY <1>1, Appended

(* The lambda on top and its bracket.                                      *)
LEMMA TopBracket ==
  ASSUME Steady, stack # <<>>, Top.kind # "cond1", NEW o, NEW l, Mapped(o, l),
         NEW t \in Calls!Token, Written(t)
  PROVE  /\ Len(stack) \in Opens(stack)
         /\ OpenerIs(program', Len(program'), o[Len(stack)])
         /\ program'[o[Len(stack)]] = Bracket(Top.kind)
         /\ \A i \in Opens(stack) : i # Len(stack) => o[i] # o[Len(stack)]
         /\ \A i \in Opens(stack) : i # Len(stack) =>
              ~OpenerIs(program', Len(program'), o[i])
<1>1. Len(stack) \in Nat \ {0} /\ Len(stack) \in 1..Len(stack) /\ Top = stack[Len(stack)]
  BY FramesOf
<1>2. Len(stack) \in Opens(stack) BY <1>1 DEF Opens
<1>3. Aligned(o, l, program, stack) BY DEF Mapped
<1>4. \A i \in Opens(stack) : o[i] \in 1..Len(program) /\ program[o[i]] = Bracket(stack[i].kind)
  BY <1>3 DEF Aligned, OpenedAt
<1>5. OpenerIs(program, Len(program) + 1, o[Len(stack)])
  BY <1>1, <1>3, <1>4, TopOpens
<1>6. OpenerIs(program', Len(program'), o[Len(stack)]) BY <1>5, WrittenFacts, AroundNow
<1>7. program'[o[Len(stack)]] = Bracket(Top.kind) BY <1>1, <1>2, <1>4, WrittenFacts
<1>8. \A i \in Opens(stack) : i # Len(stack) => o[i] # o[Len(stack)]
  <2>. SUFFICES ASSUME NEW i \in Opens(stack), i # Len(stack) PROVE o[i] # o[Len(stack)] OBVIOUS
  <2>1. i < Len(stack) BY <1>1 DEF Opens
  <2>2. o[i] < o[Len(stack)] BY <1>2, <1>3, <2>1 DEF Aligned, OpenedAt
  <2>3. o[i] \in 1..Len(program) /\ o[Len(stack)] \in 1..Len(program) BY <1>2, <1>4
  <2>. QED BY <2>2, <2>3
<1>9. ASSUME NEW i \in Opens(stack), i # Len(stack), OpenerIs(program', Len(program'), o[i])
      PROVE  FALSE
  <2>1. o[i] <= o[Len(stack)] /\ o[Len(stack)] <= o[i] BY <1>6, <1>9 DEF OpenerIs, IsLast
  <2>2. o[i] \in 1..Len(program) /\ o[Len(stack)] \in 1..Len(program) BY <1>2, <1>4
  <2>. QED BY <1>8, <1>9, <2>1, <2>2
<1>. QED BY <1>2, <1>6, <1>7, <1>8, <1>9

(* What a pop and a replacement leave.                                     *)
LEMMA PoppedFrames ==
  ASSUME Steady, stack # <<>>, Pop
  PROVE  /\ Len(stack') = Len(stack) - 1 /\ \A i \in 1..(Len(stack) - 1) : stack'[i] = stack[i]
         /\ Opens(stack') = Opens(stack) \ {Len(stack)}
<1>1. Len(stack') = Len(stack) - 1 /\ \A i \in 1..(Len(stack) - 1) : stack'[i] = stack[i]
  BY FramesOf, PopFacts DEF Pop, Outer
<1>2. Len(stack) \in Nat \ {0}
  <2>1. stack \in Seq(Frame) BY FramesOf
  <2>. QED BY <2>1, TopFacts
<1>. QED BY <1>1, <1>2 DEF Opens

LEMMA ReplacedFrames ==
  ASSUME Steady, stack # <<>>, NEW f \in Frame, Replace(f)
  PROVE  /\ Len(stack') = Len(stack) /\ stack' # <<>>
         /\ \A i \in 1..(Len(stack) - 1) : stack'[i] = stack[i]
         /\ stack'[Len(stack)] = f
<1>1. stack \in Seq(Frame) BY FramesOf
<1>2. PICK t : t = [stack EXCEPT ![Len(stack)] = f] OBVIOUS
<1>3. /\ t \in Seq(Frame) /\ t # <<>> /\ Len(t) = Len(stack) /\ DOMAIN t = DOMAIN stack
      /\ t[Len(stack)] = f
      /\ \A i \in 1..(Len(stack) - 1) : t[i] = stack[i]
  BY <1>1, <1>2, ReplaceFacts
<1>4. stack' = t BY <1>2 DEF Replace
<1>. QED BY <1>3, <1>4

LEMMA PushedFrames ==
  ASSUME Steady, NEW f \in Frame, Push(f)
  PROVE  /\ Len(stack') = Len(stack) + 1 /\ stack' # <<>>
         /\ \A i \in 1..Len(stack) : stack'[i] = stack[i]
         /\ stack'[Len(stack) + 1] = f
  BY FramesOf, PushFacts DEF Push

LEMMA EndFunctionMapped ==
  ASSUME Steady, EndFunction, Written("end"), NEW o, NEW l, Mapped(o, l)
  PROVE  Mapped(o, l)'
<1>1. /\ stack # <<>> /\ Top.kind = "function" /\ Pop /\ UNCHANGED <<parent, steps, insert>>
  BY StepsGrow DEF EndFunction, Returns
<1>2. "end" \in Calls!Token BY TokenFacts
<1>3. Len(stack) \in 1..Len(stack) /\ Top = stack[Len(stack)] /\ DOMAIN stack = 1..Len(stack)
  BY <1>1, FramesOf
<1>4. Len(stack) = 1 BY <1>1, <1>3 DEF Steady, Alone
<1>5. Len(stack') = 0 /\ Opens(stack') = Opens(stack) \ {1} /\ stack' \in Seq(Frame)
  BY <1>1, <1>4, FramesOf, PoppedFrames, PopFacts DEF Pop, Outer
<1>6. stack' = <<>> BY <1>5
<1>7. Opens(stack') = {} BY <1>5 DEF Opens
<1>8. Quietly
  <2>1. Len(program') = Len(program) + 1 BY <1>2, WrittenFacts
  <2>2. NextCall' = NextCall BY <1>1, <1>6, <2>1, FramesOf DEF NextCall
  <2>. QED BY <1>1, <2>2 DEF Quietly
<1>9. Aligned(o, l, program', stack') /\ EndIs(program', o[Len(stack)], Len(program'))
  <2>1. Aligned(o, l, program, stack) BY DEF Mapped
  <2>2. Appends(program', program, "end") BY <1>2, WrittenFacts
  <2>. QED BY <1>1, <2>1, <2>2, FramesOf, PoppedFrames, AlignedEnds
<1>10. ASSUME NEW i \in Opens(stack) PROVE FrameMoves(o, o, i)
  <2>1. i = Len(stack) /\ stack[i] = Top BY <1>3, <1>4, <1>10 DEF Opens
  <2>2. stack[i].exit_block \notin Block
    <3>1. FrameShape(Top) BY <1>1, TopOwed DEF Steady
    <3>. QED BY <1>1, <2>1, <3>1 DEF FrameShape, Block
  <2>3. ~Deciding(stack[i]) BY <1>1, <2>1 DEF Deciding
  <2>. QED BY <1>9, <2>1, <2>2, <2>3 DEF FrameMoves
<1>11. \A i \in Opens(stack') : FrameComes(o, o, i) BY <1>7
<1>. QED BY <1>1, <1>2, <1>8, <1>9, <1>10, <1>11, MappedKept DEF Steady

LEMMA IfMapped ==
  ASSUME Steady, NEW kind, NEW pending,
         \/ kind = "then_else" /\ pending = 2
         \/ kind = "then" /\ pending = 1,
         IfBegin(kind, pending), ~exited_block_, Written("if"), NEW o, NEW l, Mapped(o, l)
  PROVE  Adding /\ \E o2, l2 : Mapped(o2, l2)'
<1>1. stack # <<>> BY DEF IfBegin, MayNest, MayCall
<1>2. /\ TypeOK /\ insert \in Block /\ Len(stack) \in Nat \ {0} /\ program \in Tokens
      /\ "if" \in Calls!Token /\ "if" \in Calls!Openers
  BY <1>1, FramesOf, TokenFacts
<1>3. PICK b, f, m : b = blocks + 1 /\ f = blocks + 2 /\ m = blocks + 1 + pending OBVIOUS
<1>4. /\ b \in Block /\ f \in Block /\ m \in Block /\ parent[b] = 0
      /\ kind = "then" => f = m
      /\ kind = "then_else" => f # m
  <2>1. blocks \in 0..MaxBlocks /\ blocks + 1 + pending <= MaxBlocks /\ MaxBlocks \in Nat
    BY <1>2, BoundsAssumption DEF TypeOK, IfBegin
  <2>2. b \in Block /\ f \in Block /\ m \in Block BY <1>3, <2>1 DEF Block
  <2>3. b > blocks BY <1>3, <2>1
  <2>4. parent[b] = 0 BY <2>2, <2>3 DEF Steady, IInv, UncreatedUnplaced
  <2>. QED BY <1>3, <2>1, <2>2, <2>4
<1>5. PICK ins : ins = Instruction("condbr", {b, f}, At(line_no_)) OBVIOUS
<1>6. ins \in Instr
  <2>1. At(line_no_) \in Location BY <1>2, LineFacts
  <2>. QED BY <1>2, <1>4, <1>5, <2>1, EmittedType DEF Terminators
<1>7. ins.op = "condbr" /\ ins.to = {b, f} BY <1>5 DEF Instruction
<1>8. Grows(ins) /\ Adding
  <2>1. Adds(ins) BY <1>3, <1>5 DEF IfBegin, FalseBlock, Adds
  <2>2. Grows(ins) BY <1>1, <1>6, <2>1, StepsGrow
  <2>. QED BY <1>6, <2>2 DEF Adding
<1>9. PICK frame : frame = [NewFrame(kind) EXCEPT
                              !.exit_block = m, !.next_block = IF f = m THEN 0 ELSE f]
  OBVIOUS
<1>10. /\ frame \in Frame /\ frame.kind = kind /\ frame.exit_block = m
       /\ kind = "then_else" => frame.next_block = f
  <2>1. NewFrame(kind) \in Frame /\ NewFrame(kind).kind = kind
    BY <1>2, NewFrameType DEF FrameKind, NewFrame
  <2>2. m \in 0..MaxBlocks /\ f \in 0..MaxBlocks /\ 0 \in 0..MaxBlocks
    BY <1>4, BoundsAssumption DEF Block
  <2>. QED BY <1>4, <1>9, <2>1, <2>2 DEF Frame
<1>11. Push(frame) /\ PlaceAndInsert(b) BY <1>3, <1>9 DEF IfBegin
<1>12. /\ Len(stack') = Len(stack) + 1 /\ stack' # <<>>
       /\ \A i \in 1..Len(stack) : stack'[i] = stack[i]
       /\ stack'[Len(stack) + 1] = frame
  BY <1>10, <1>11, PushedFrames
<1>13. ComesTo(b, Len(program') + 1) /\ \A c \in Block : parent[c] # 0 => parent'[c] = parent[c]
  BY <1>1, <1>2, <1>4, <1>8, <1>11, <1>12, BlockPlaced
<1>14. PICK o2, l2 : /\ Aligned(o2, l2, program', stack') /\ o2[Len(stack) + 1] = Len(program')
                     /\ \A i \in 1..((Len(stack) + 1) - 1) : o2[i] = o[i]
  <2>1. Aligned(o, l, program, stack) BY DEF Mapped
  <2>2. kind # "cond1" /\ Bracket(kind) = "if" BY DEF Bracket
  <2>3. Appends(program', program, "if") BY <1>2, WrittenFacts
  <2>4. PICK n : n = Len(stack) + 1 OBVIOUS
  <2>5. /\ n \in 1..(Len(stack) + 1) /\ Len(stack) <= n /\ n # Len(stack)
        /\ Len(stack') = n /\ stack'[n] = frame /\ n - 1 = Len(stack)
    BY <1>2, <1>12, <2>4
  <2>6. \A i \in 1..(n - 1) : stack'[i] = stack[i] BY <1>12, <2>5
  <2>7. stack'[n].kind # "cond1" /\ Bracket(stack'[n].kind) = "if" BY <1>10, <2>2, <2>5
  <2>8. \E o2, l2 : /\ Aligned(o2, l2, program', stack') /\ o2[n] = Len(program')
                    /\ \A i \in 1..(n - 1) : o2[i] = o[i]
    BY <1>2, <2>1, <2>3, <2>5, <2>6, <2>7, AlignedOpens
  <2>. QED BY <2>4, <2>8
<1>15. \A i \in Opens(stack) : i \in Opens(stack') /\ i \in 1..Len(stack) /\ o2[i] = o[i]
                               /\ stack'[i] = stack[i]
  BY <1>2, <1>12, <1>14 DEF Opens
<1>16. \A i \in Opens(stack) : FrameMoves(o, o2, i) BY <1>15 DEF FrameMoves
<1>17. program'[Len(program')] = "if" /\ Len(program') \in 1..Len(program') BY <1>2, WrittenFacts
<1>18. ASSUME NEW i \in Opens(stack') PROVE FrameComes(o, o2, i)
  <2>1. CASE i = Len(stack) + 1
    <3>1. ~IsLoop(stack'[i]) BY <1>10, <1>12, <2>1 DEF IsLoop
    <3>. QED BY <1>14, <1>17, <2>1, <3>1 DEF FrameComes
  <2>2. CASE i # Len(stack) + 1
    <3>1. i \in 1..Len(stack) BY <1>2, <1>12, <1>18, <2>2 DEF Opens
    <3>2. i \in Opens(stack) /\ stack'[i] = stack[i] BY <1>12, <1>18, <3>1 DEF Opens
    <3>. QED BY <1>15, <1>17, <3>2 DEF FrameComes, Divides
  <2>. QED BY <2>1, <2>2
<1>19. CarriesNow(o2, ins)
  <2>1. SUFFICES ASSUME NEW q, q = Len(program') PROVE \A c, i : Carries(o2, ins, q, c, i)'
    BY DEF CarriesNow
  <2>2. Comes(b, 1, q + 1)' BY <1>13, <2>1 DEF ComesTo
  <2>3. FalseTo(o2, q, f)'
    <3>1. PICK n : n = Len(stack) + 1 OBVIOUS
    <3>2. n \in 1..Len(stack') /\ stack'[n] = frame BY <1>2, <1>12, <3>1
    <3>3. n \in Opens(stack)' BY <1>10, <3>2 DEF Opens
    <3>4. Deciding(stack[n])' /\ OnFalse(stack[n])' = f
      BY <1>4, <1>10, <3>2 DEF Deciding, OnFalse
    <3>5. o2[n] = q BY <1>14, <2>1, <3>1
    <3>. QED BY <1>4, <3>3, <3>4, <3>5 DEF FalseTo
  <2>4. Decides(o2, q, f)' BY <1>17, <2>1, <2>3 DEF Decides
  <2>. QED BY <1>7, <1>17, <2>1, <2>2, <2>4 DEF Carries
<1>20. Mapped(o2, l2)'
  BY <1>1, <1>2, <1>6, <1>8, <1>13, <1>14, <1>16, <1>18, <1>19, MappedKept DEF Steady
<1>. QED BY <1>8, <1>20

LEMMA ElseMapped ==
  ASSUME Steady, Else, Written("else"), NEW o, NEW l, Mapped(o, l)
  PROVE  (Quietly \/ Adding) /\ Mapped(o, l)'
<1>1. stack # <<>> /\ Top.kind = "then_else" BY DEF Else, Returns
<1>2. /\ TypeOK /\ insert \in Block /\ Len(stack) \in Nat \ {0} /\ Top \in Frame
      /\ Top = stack[Len(stack)] /\ Len(stack) \in 1..Len(stack)
      /\ "else" \in Calls!Token /\ "else" \notin Calls!Openers
  BY <1>1, FramesOf, TokenFacts
<1>3. PICK n, f, x, place : /\ n = Len(stack) /\ f = Top.next_block /\ x = Top.exit_block
                         /\ place = [line |-> line_no_, scope |-> Top.parent_scope]
  OBVIOUS
<1>4. f \in Block /\ x \in Block /\ parent[f] = 0 BY <1>1, <1>3, TopOwed DEF Steady
<1>5. place \in Location
  <2>1. line_no_ \in Nat /\ Top.parent_scope \in Scope BY <1>2, LineFacts DEF Frame
  <2>. QED BY <1>3, <2>1, ScopeFacts
<1>6. PICK ins : ins = Instruction("br", {x}, place) OBVIOUS
<1>7. ins.op = "br" /\ ins.to = {x} BY <1>6 DEF Instruction
<1>8. (UNCHANGED steps /\ Ends(steps[insert])) \/ (ins \in Instr /\ Grows(ins))
  <2>1. CloseBranch(x, place) BY <1>3 DEF Else
  <2>2. Top.kind \notin Conditions BY <1>1 DEF Conditions
  <2>. QED BY <1>1, <1>4, <1>5, <1>6, <2>1, <2>2, ClosedBranch
<1>9. PICK frame : frame = [Top EXCEPT !.kind = "else", !.next_block = 0] OBVIOUS
<1>10. /\ frame \in Frame /\ frame.kind = "else" /\ frame.exit_block = x
  <2>1. 0 \in 0..MaxBlocks /\ "else" \in FrameKind BY BoundsAssumption DEF FrameKind
  <2>2. frame.kind = "else" /\ frame.exit_block = x BY <1>2, <1>3, <1>9 DEF Frame
  <2>3. frame \in Frame BY <1>2, <1>9, <2>1 DEF Frame
  <2>. QED BY <2>2, <2>3
<1>11. Replace(frame) /\ PlaceAndInsert(f) BY <1>3, <1>9 DEF Else
<1>12. /\ Len(stack') = n /\ stack' # <<>> /\ stack'[n] = frame
       /\ \A i \in 1..(n - 1) : stack'[i] = stack[i]
  BY <1>1, <1>3, <1>10, <1>11, ReplacedFrames
<1>13. ComesTo(f, Len(program') + 1) /\ \A c \in Block : parent[c] # 0 => parent'[c] = parent[c]
  BY <1>1, <1>2, <1>4, <1>8, <1>11, <1>12, BlockPlaced DEF Adding
<1>14. /\ n \in Opens(stack) /\ OpenerIs(program', Len(program'), o[n])
       /\ \A i \in Opens(stack) : i # n => ~OpenerIs(program', Len(program'), o[i])
  BY <1>1, <1>2, <1>3, TopBracket
<1>15. /\ program'[Len(program')] = "else" /\ Len(program') \in 1..Len(program')
       /\ Appends(program', program, "else") /\ program \in Tokens
  BY <1>2, WrittenFacts
<1>16. \A i \in Opens(stack) : i # n => /\ i \in Opens(stack') /\ i \in 1..(n - 1)
                                        /\ stack'[i] = stack[i]
  BY <1>2, <1>3, <1>12 DEF Opens
<1>17. n \in Opens(stack') BY <1>2, <1>3, <1>10, <1>12 DEF Opens
<1>18. Aligned(o, l, program', stack')
  <2>1. Aligned(o, l, program, stack) BY DEF Mapped
  <2>2. \A i \in 1..n : /\ stack'[i].kind = "cond1" <=> stack[i].kind = "cond1"
                        /\ Bracket(stack'[i].kind) = Bracket(stack[i].kind)
    <3>1. TAKE i \in 1..n
    <3>2. CASE i = n BY <1>1, <1>2, <1>3, <1>10, <1>12, <3>2 DEF Bracket
    <3>3. CASE i # n
      <4>1. i \in 1..(n - 1) BY <1>2, <1>3, <3>3
      <4>. QED BY <1>12, <4>1
    <3>. QED BY <3>2, <3>3
  <2>. QED BY <1>2, <1>3, <1>12, <1>15, <2>1, <2>2, AlignedStays
<1>19. ASSUME NEW i \in Opens(stack) PROVE FrameMoves(o, o, i)
  <2>1. CASE i # n BY <1>16, <2>1 DEF FrameMoves
  <2>2. CASE i = n
    <3>1. stack[i] = Top /\ Deciding(stack[i]) /\ OnFalse(stack[i]) = f
      BY <1>1, <1>2, <1>3, <2>2 DEF Deciding, OnFalse
    <3>2. DivideIs(program', o[n], Len(program'))
      <4>1. Undivided(program, o[n]) BY <1>14, <2>2, <3>1 DEF Mapped, IfsTold
      <4>2. Divides(program', o[n], Len(program')) BY <1>14, <1>15 DEF Divides
      <4>3. o[n] \in 1..Len(program) BY <1>14, PlacesOf
      <4>. QED BY <1>2, <1>15, <4>1, <4>2, <4>3, DividedNow
    <3>. QED BY <1>3, <1>10, <1>12, <1>13, <1>17, <2>2, <3>1, <3>2 DEF FrameMoves
  <2>. QED BY <2>1, <2>2
<1>20. ASSUME NEW i \in Opens(stack') PROVE FrameComes(o, o, i)
  <2>1. CASE i = n
    <3>1. ~IsLoop(stack'[i]) /\ ~Deciding(stack'[i]) BY <1>10, <1>12, <2>1 DEF IsLoop, Deciding
    <3>. QED BY <1>14, <2>1, <3>1 DEF FrameComes
  <2>2. CASE i # n
    <3>1. i \in 1..(n - 1) BY <1>2, <1>3, <1>12, <1>20, <2>2 DEF Opens
    <3>2. i \in Opens(stack) /\ stack'[i] = stack[i] BY <1>2, <1>3, <1>12, <1>20, <3>1 DEF Opens
    <3>. QED BY <1>14, <2>2, <3>2 DEF FrameComes, Divides
  <2>. QED BY <2>1, <2>2
<1>21. CarriesNow(o, ins)
  <2>1. SUFFICES ASSUME NEW q, q = Len(program') PROVE \A c, i : Carries(o, ins, q, c, i)'
    BY DEF CarriesNow
  <2>2. PICK p : p = o[n] OBVIOUS
  <2>3. Past(o, p, x)'
    <3>1. n \in Opens(stack)' BY <1>17 DEF Opens
    <3>. QED BY <1>4, <1>10, <1>12, <2>2, <3>1 DEF Past
  <2>4. Directs(o, q, x)' BY <1>14, <1>15, <2>1, <2>2, <2>3 DEF Directs
  <2>. QED BY <1>7, <1>15, <2>1, <2>4 DEF Carries
<1>22. Quietly \/ (\E i \in Instr : Grows(i) /\ CarriesNow(o, i))
  BY <1>8, <1>21 DEF Quietly
<1>23. Mapped(o, l)'
  BY <1>1, <1>2, <1>13, <1>18, <1>19, <1>20, <1>22, MappedKept DEF Steady
<1>. QED BY <1>22, <1>23 DEF Adding

(* The innermost lambda of an if_ or a while_ returned.                    *)
LEMMA EndMapped ==
  ASSUME Steady, stack # <<>>, Top.kind \in {"then", "else", "body"}, Written("end"),
         NEW target, target = IF Top.kind = "body" THEN Top.head_block ELSE Top.exit_block,
         CloseBranch(target, [line |-> line_no_, scope |-> Top.parent_scope]),
         PlaceAndInsert(Top.exit_block), Pop, stack' # <<>>,
         NEW o, NEW l, Mapped(o, l)
  PROVE  (Quietly \/ Adding) /\ Mapped(o, l)'
<1>1. Top.kind # "cond1" OBVIOUS
<1>2. /\ TypeOK /\ insert \in Block /\ Len(stack) \in Nat \ {0} /\ Top \in Frame
      /\ Top = stack[Len(stack)] /\ Len(stack) \in 1..Len(stack)
      /\ "end" \in Calls!Token /\ "end" \notin Calls!Openers
  BY FramesOf, TokenFacts
<1>3. PICK n, x, place : /\ n = Len(stack) /\ x = Top.exit_block
                      /\ place = [line |-> line_no_, scope |-> Top.parent_scope]
  OBVIOUS
<1>4. x \in Block /\ parent[x] = 0 /\ (Top.kind = "body" => Top.head_block \in Block)
  BY <1>3, TopOwed DEF Steady
<1>5. target \in Block BY <1>3, <1>4
<1>6. place \in Location
  <2>1. line_no_ \in Nat /\ Top.parent_scope \in Scope BY <1>2, LineFacts DEF Frame
  <2>. QED BY <1>3, <2>1, ScopeFacts
<1>7. PICK ins : ins = Instruction("br", {target}, place) OBVIOUS
<1>8. ins.op = "br" /\ ins.to = {target} BY <1>7 DEF Instruction
<1>9. (UNCHANGED steps /\ Ends(steps[insert])) \/ (ins \in Instr /\ Grows(ins))
  <2>1. CloseBranch(target, place) BY <1>3
  <2>2. Top.kind \notin Conditions BY DEF Conditions
  <2>. QED BY <1>5, <1>6, <1>7, <2>1, <2>2, ClosedBranch
<1>10. PlaceAndInsert(x) BY <1>3
<1>11. ComesTo(x, Len(program') + 1) /\ \A c \in Block : parent[c] # 0 => parent'[c] = parent[c]
  BY <1>2, <1>4, <1>9, <1>10, BlockPlaced DEF Adding
<1>12. /\ n \in Opens(stack) /\ OpenerIs(program', Len(program'), o[n])
       /\ program'[o[n]] = Bracket(Top.kind)
       /\ \A i \in Opens(stack) : i # n => ~OpenerIs(program', Len(program'), o[i])
  BY <1>1, <1>2, <1>3, TopBracket
<1>13. /\ program'[Len(program')] = "end" /\ Len(program') \in 1..Len(program')
       /\ Appends(program', program, "end") /\ program \in Tokens
  BY <1>2, WrittenFacts
<1>14. /\ Len(stack') = n - 1 /\ \A i \in 1..(n - 1) : stack'[i] = stack[i]
       /\ Opens(stack') = Opens(stack) \ {n}
  BY <1>3, PoppedFrames
<1>15. Aligned(o, l, program', stack') /\ EndIs(program', o[n], Len(program'))
  <2>1. Aligned(o, l, program, stack) BY DEF Mapped
  <2>. QED BY <1>1, <1>2, <1>3, <1>13, <1>14, <2>1, AlignedEnds
<1>16. ASSUME NEW i \in Opens(stack), i # n PROVE i \in Opens(stack') /\ stack'[i] = stack[i]
  <2>1. i \in 1..(n - 1) BY <1>2, <1>3, <1>16 DEF Opens
  <2>. QED BY <1>14, <1>16, <2>1
<1>17. ASSUME NEW i \in Opens(stack) PROVE FrameMoves(o, o, i)
  <2>1. CASE i # n BY <1>16, <2>1 DEF FrameMoves
  <2>2. CASE i = n
    <3>1. stack[i] = Top /\ stack[i].exit_block = x BY <1>2, <1>3, <2>2
    <3>2. ASSUME Deciding(stack[i])
          PROVE  OnFalse(stack[i]) = x /\ DivideIs(program', o[n], Len(program'))
      <4>1. OnFalse(stack[i]) = x BY <3>1, <3>2 DEF Deciding, OnFalse
      <4>2. Undivided(program, o[n]) BY <1>12, <2>2, <3>2 DEF Mapped, IfsTold
      <4>3. Divides(program', o[n], Len(program')) BY <1>12, <1>13 DEF Divides
      <4>4. o[n] \in 1..Len(program) BY <1>12, PlacesOf
      <4>. QED BY <1>2, <1>13, <4>1, <4>2, <4>3, <4>4, DividedNow
    <3>. QED BY <1>11, <1>15, <2>2, <3>1, <3>2 DEF FrameMoves
  <2>. QED BY <2>1, <2>2
<1>18. ASSUME NEW i \in Opens(stack') PROVE FrameComes(o, o, i)
  <2>1. i \in Opens(stack) /\ i # n BY <1>14, <1>18
  <2>. QED BY <1>12, <1>16, <2>1 DEF FrameComes, Divides
<1>19. ASSUME Grows(ins), ins \in Instr PROVE CarriesNow(o, ins)
  <2>1. SUFFICES ASSUME NEW q, q = Len(program') PROVE \A c, i : Carries(o, ins, q, c, i)'
    BY DEF CarriesNow
  <2>2. PICK p : p = o[n] OBVIOUS
  <2>3. Directs(o, q, target)'
    <3>1. CASE Top.kind = "body"
      <4>1. program'[p] = "while" BY <1>12, <2>2, <3>1 DEF Bracket
      <4>2. IsLoop(stack[n]) BY <1>2, <1>3, <3>1 DEF IsLoop
      <4>3. Comes(target, 1, p + 1) BY <1>2, <1>3, <1>12, <2>2, <3>1, <4>2 DEF Mapped, LoopsTold
      <4>4. Notes BY <1>2, <1>19 DEF Notes
      <4>5. Comes(target, 1, p + 1)' BY <1>11, <4>3, <4>4, ComesStays DEF Steady
      <4>. QED BY <1>12, <1>13, <2>1, <2>2, <4>1, <4>5 DEF Directs
    <3>2. CASE Top.kind # "body"
      <4>1. program'[p] = "if" /\ target = x BY <1>3, <1>12, <2>2, <3>2 DEF Bracket
      <4>2. Comes(target, 1, q + 1)' BY <1>11, <2>1, <4>1 DEF ComesTo
      <4>. QED BY <1>12, <1>13, <2>1, <2>2, <4>1, <4>2 DEF Directs
    <3>. QED BY <3>1, <3>2
  <2>. QED BY <1>8, <1>13, <2>1, <2>3 DEF Carries
<1>20. Quietly \/ (\E i \in Instr : Grows(i) /\ CarriesNow(o, i))
  BY <1>9, <1>19 DEF Quietly
<1>21. Mapped(o, l)' BY <1>2, <1>11, <1>15, <1>17, <1>18, <1>20, MappedKept DEF Steady
<1>. QED BY <1>20, <1>21 DEF Adding

LEMMA EndIfMapped ==
  ASSUME Steady, EndIf, stack' # <<>>, Written("end"), NEW o, NEW l, Mapped(o, l)
  PROVE  (Quietly \/ Adding) /\ Mapped(o, l)'
<1>1. PICK x : x = Top.exit_block OBVIOUS
<1>2. /\ stack # <<>> /\ Top.kind \in {"then", "else", "body"}
      /\ x = IF Top.kind = "body" THEN Top.head_block ELSE Top.exit_block
      /\ CloseBranch(x, [line |-> line_no_, scope |-> Top.parent_scope])
      /\ PlaceAndInsert(Top.exit_block) /\ Pop
  BY <1>1 DEF EndIf, Returns
<1>. QED BY <1>2, EndMapped

LEMMA EndWhileMapped ==
  ASSUME Steady, EndWhile, stack' # <<>>, Written("end"), NEW o, NEW l, Mapped(o, l)
  PROVE  (Quietly \/ Adding) /\ Mapped(o, l)'
<1>1. PICK x : x = Top.head_block OBVIOUS
<1>2. /\ stack # <<>> /\ Top.kind \in {"then", "else", "body"}
      /\ x = IF Top.kind = "body" THEN Top.head_block ELSE Top.exit_block
      /\ CloseBranch(x, [line |-> line_no_, scope |-> Top.parent_scope])
      /\ PlaceAndInsert(Top.exit_block) /\ Pop
  BY <1>1 DEF EndWhile, Returns
<1>. QED BY <1>2, EndMapped

LEMMA WhileTestMapped ==
  ASSUME Steady, WhileTest, Written("while"), NEW o, NEW l, Mapped(o, l)
  PROVE  Adding /\ \E o2, l2 : Mapped(o2, l2)'
<1>1. stack # <<>> /\ Top.kind = "cond1" BY DEF WhileTest, Returns
<1>2. /\ TypeOK /\ insert \in Block /\ Len(stack) \in Nat \ {0} /\ program \in Tokens
      /\ Top \in Frame /\ Top = stack[Len(stack)] /\ Len(stack) \in 1..Len(stack)
      /\ "while" \in Calls!Token /\ "while" \in Calls!Openers
  BY <1>1, FramesOf, TokenFacts
<1>3. PICK n, b : n = Len(stack) /\ b = blocks + 1 OBVIOUS
<1>4. b \in Block /\ parent[b] = 0 /\ blocks + 2 \in Block /\ blocks + 3 \in Block
  <2>1. blocks \in 0..MaxBlocks /\ blocks + 3 <= MaxBlocks /\ MaxBlocks \in Nat
    BY <1>2, BoundsAssumption DEF TypeOK, WhileTest
  <2>2. b \in Block /\ blocks + 2 \in Block /\ blocks + 3 \in Block BY <1>3, <2>1 DEF Block
  <2>3. b > blocks BY <1>3, <2>1
  <2>. QED BY <2>2, <2>3 DEF Steady, IInv, UncreatedUnplaced
<1>5. PICK ins : ins = Instruction("br", {b}, loc) OBVIOUS
<1>6. ins \in Instr
  <2>1. loc \in Location BY <1>2 DEF TypeOK
  <2>. QED BY <1>2, <1>4, <1>5, <2>1, EmittedType DEF Terminators
<1>7. ins.op = "br" /\ ins.to = {b} BY <1>5 DEF Instruction
<1>8. Grows(ins) /\ Adding
  <2>1. Adds(ins) BY <1>3, <1>5 DEF WhileTest, Adds
  <2>2. Grows(ins) BY <1>1, <1>6, <2>1, StepsGrow
  <2>. QED BY <1>6, <2>2 DEF Adding
<1>9. PICK frame : frame = [Top EXCEPT !.kind = "cond2", !.head_block = blocks + 1,
                             !.next_block = blocks + 2, !.exit_block = blocks + 3,
                             !.parent_loop = current_loop_]
  OBVIOUS
<1>10. frame \in Frame /\ frame.kind = "cond2" /\ frame.head_block = b
  <2>1. /\ blocks + 1 \in 0..MaxBlocks /\ blocks + 2 \in 0..MaxBlocks /\ blocks + 3 \in 0..MaxBlocks
        /\ current_loop_ \in Loop /\ "cond2" \in FrameKind
    BY <1>2, <1>3, <1>4, BoundsAssumption DEF Block, TypeOK, FrameKind
  <2>2. frame.kind = "cond2" /\ frame.head_block = b BY <1>2, <1>3, <1>9 DEF Frame
  <2>3. frame \in Frame BY <1>2, <1>9, <2>1 DEF Frame
  <2>. QED BY <2>2, <2>3
<1>11. Replace(frame) /\ PlaceAndInsert(b) BY <1>3, <1>9 DEF WhileTest
<1>12. /\ Len(stack') = n /\ stack' # <<>> /\ stack'[n] = frame
       /\ \A i \in 1..(n - 1) : stack'[i] = stack[i]
  BY <1>1, <1>3, <1>10, <1>11, ReplacedFrames
<1>13. ComesTo(b, Len(program') + 1) /\ \A c \in Block : parent[c] # 0 => parent'[c] = parent[c]
  BY <1>1, <1>2, <1>4, <1>8, <1>11, <1>12, BlockPlaced
<1>14. PICK o2, l2 : /\ Aligned(o2, l2, program', stack') /\ o2[n] = Len(program')
                     /\ \A i \in 1..(n - 1) : o2[i] = o[i]
  <2>1. Aligned(o, l, program, stack) BY DEF Mapped
  <2>2. stack'[n].kind # "cond1" /\ Bracket(stack'[n].kind) = "while" BY <1>10, <1>12 DEF Bracket
  <2>3. Appends(program', program, "while") BY <1>2, WrittenFacts
  <2>4. n \in 1..(Len(stack) + 1) /\ Len(stack) <= n /\ stack[n].kind = "cond1"
    BY <1>1, <1>2, <1>3
  <2>. QED BY <1>2, <1>12, <2>1, <2>2, <2>3, <2>4, AlignedOpens
<1>15. \A i \in Opens(stack) : i \in Opens(stack') /\ i \in 1..(n - 1) /\ o2[i] = o[i]
                               /\ stack'[i] = stack[i]
  <2>. TAKE i \in Opens(stack)
  <2>1. i \in 1..(n - 1) BY <1>1, <1>2, <1>3 DEF Opens
  <2>2. stack'[i] = stack[i] /\ i \in 1..n BY <1>12, <2>1
  <2>3. i \in Opens(stack') BY <1>12, <2>2 DEF Opens
  <2>. QED BY <1>14, <2>1, <2>2, <2>3
<1>16. \A i \in Opens(stack) : FrameMoves(o, o2, i) BY <1>15 DEF FrameMoves
<1>17. program'[Len(program')] = "while" /\ Len(program') \in 1..Len(program') BY <1>2, WrittenFacts
<1>18. ASSUME NEW i \in Opens(stack') PROVE FrameComes(o, o2, i)
  <2>1. CASE i = n
    <3>1. ~Deciding(stack'[i]) /\ stack'[i].head_block = b BY <1>10, <1>12, <2>1 DEF Deciding
    <3>. QED BY <1>13, <1>14, <2>1, <3>1 DEF FrameComes
  <2>2. CASE i # n
    <3>1. i \in 1..(n - 1) BY <1>2, <1>3, <1>12, <1>18, <2>2 DEF Opens
    <3>2. i \in Opens(stack) /\ stack'[i] = stack[i] BY <1>2, <1>3, <1>12, <1>18, <3>1 DEF Opens
    <3>. QED BY <1>15, <1>17, <3>2 DEF FrameComes, Divides
  <2>. QED BY <2>1, <2>2
<1>19. CarriesNow(o2, ins)
  <2>1. SUFFICES ASSUME NEW q, q = Len(program') PROVE \A c, i : Carries(o2, ins, q, c, i)'
    BY DEF CarriesNow
  <2>2. Comes(b, 1, q + 1)' BY <1>13, <2>1 DEF ComesTo
  <2>3. Directs(o2, q, b)' BY <1>17, <2>1, <2>2 DEF Directs
  <2>. QED BY <1>7, <1>17, <2>1, <2>3 DEF Carries
<1>20. Mapped(o2, l2)'
  BY <1>1, <1>2, <1>6, <1>8, <1>13, <1>14, <1>16, <1>18, <1>19, MappedKept DEF Steady
<1>. QED BY <1>8, <1>20

LEMMA WhileBodyMapped ==
  ASSUME Steady, WhileBody, ~exited_block_, Written("do"), NEW o, NEW l, Mapped(o, l)
  PROVE  Adding /\ Mapped(o, l)'
<1>1. stack # <<>> /\ Top.kind = "cond2" BY DEF WhileBody, Returns
<1>2. /\ TypeOK /\ insert \in Block /\ Len(stack) \in Nat \ {0} /\ program \in Tokens
      /\ Top \in Frame /\ Top = stack[Len(stack)] /\ Len(stack) \in 1..Len(stack)
      /\ "do" \in Calls!Token /\ "do" \notin Calls!Openers
      /\ \A j \in 1..Len(stack) : stack[j].kind \in FrameKind
  BY <1>1, FramesOf, TokenFacts
<1>3. PICK n, b, x : n = Len(stack) /\ b = Top.next_block /\ x = Top.exit_block OBVIOUS
<1>4. b \in Block /\ x \in Block /\ parent[b] = 0 BY <1>1, <1>3, TopOwed DEF Steady
<1>5. PICK ins : ins = Instruction("condbr", {b, x}, loc) OBVIOUS
<1>6. ins \in Instr
  <2>1. loc \in Location BY <1>2 DEF TypeOK
  <2>. QED BY <1>2, <1>4, <1>5, <2>1, EmittedType DEF Terminators
<1>7. ins.op = "condbr" /\ ins.to = {b, x} BY <1>5 DEF Instruction
<1>8. Grows(ins) /\ Adding
  <2>1. Adds(ins) BY <1>3, <1>5 DEF WhileBody, Adds
  <2>2. Grows(ins) BY <1>1, <1>6, <2>1, StepsGrow
  <2>. QED BY <1>6, <2>2 DEF Adding
<1>9. PICK frame : frame = [Top EXCEPT !.kind = "body", !.next_block = 0,
                             !.parent_scope = dbg_scope_]
  OBVIOUS
<1>10. /\ frame \in Frame /\ frame.kind = "body" /\ frame.exit_block = x
       /\ frame.head_block = Top.head_block
  <2>1. 0 \in 0..MaxBlocks /\ dbg_scope_ \in Scope /\ "body" \in FrameKind
    BY <1>2, BoundsAssumption DEF TypeOK, FrameKind
  <2>2. frame.kind = "body" /\ frame.exit_block = x /\ frame.head_block = Top.head_block
    BY <1>2, <1>3, <1>9 DEF Frame
  <2>3. frame \in Frame BY <1>2, <1>9, <2>1 DEF Frame
  <2>. QED BY <2>2, <2>3
<1>11. Replace(frame) /\ PlaceAndInsert(b) BY <1>3, <1>9 DEF WhileBody
<1>12. /\ Len(stack') = n /\ stack' # <<>> /\ stack'[n] = frame
       /\ \A i \in 1..(n - 1) : stack'[i] = stack[i]
  BY <1>1, <1>3, <1>10, <1>11, ReplacedFrames
<1>13. ComesTo(b, Len(program') + 1) /\ \A c \in Block : parent[c] # 0 => parent'[c] = parent[c]
  BY <1>1, <1>2, <1>4, <1>8, <1>11, <1>12, BlockPlaced
<1>14. /\ program'[Len(program')] = "do" /\ Len(program') \in 1..Len(program')
       /\ Appends(program', program, "do")
  BY <1>2, WrittenFacts
<1>15. /\ n \in Opens(stack) /\ n \in Opens(stack') /\ IsLoop(stack[n]) /\ stack[n] = Top
       /\ stack'[n].exit_block = stack[n].exit_block /\ ~Deciding(stack[n])
  BY <1>1, <1>2, <1>3, <1>10, <1>12 DEF Opens, IsLoop, Deciding
<1>16. Aligned(o, l, program', stack')
  <2>1. Aligned(o, l, program, stack) BY DEF Mapped
  <2>2. \A i \in 1..n : /\ stack'[i].kind = "cond1" <=> stack[i].kind = "cond1"
                        /\ Bracket(stack'[i].kind) = Bracket(stack[i].kind)
    <3>1. TAKE i \in 1..n
    <3>2. CASE i = n BY <1>1, <1>2, <1>3, <1>10, <1>12, <3>2 DEF Bracket
    <3>3. CASE i # n
      <4>1. i \in 1..(n - 1) BY <1>2, <1>3, <3>3
      <4>. QED BY <1>12, <4>1
    <3>. QED BY <3>2, <3>3
  <2>. QED BY <1>2, <1>3, <1>12, <1>14, <2>1, <2>2, AlignedStays
<1>17. ASSUME NEW i \in Opens(stack) PROVE FrameMoves(o, o, i)
  <2>1. CASE i = n BY <1>15, <2>1 DEF FrameMoves
  <2>2. CASE i # n
    <3>1. i \in 1..(n - 1) BY <1>2, <1>3, <1>17, <2>2 DEF Opens
    <3>2. i \in Opens(stack') /\ stack'[i] = stack[i] BY <1>2, <1>3, <1>12, <1>17, <3>1 DEF Opens
    <3>. QED BY <3>2 DEF FrameMoves
  <2>. QED BY <2>1, <2>2
<1>18. ASSUME NEW i \in Opens(stack') PROVE FrameComes(o, o, i)
  <2>1. CASE i = n
    <3>1. ~Deciding(stack'[i]) /\ stack'[i].head_block = stack[i].head_block
      BY <1>10, <1>12, <1>15, <2>1 DEF Deciding
    <3>. QED BY <1>15, <2>1, <3>1 DEF FrameComes
  <2>2. CASE i # n
    <3>1. i \in 1..(n - 1) BY <1>2, <1>3, <1>12, <1>18, <2>2 DEF Opens
    <3>2. i \in Opens(stack) /\ stack'[i] = stack[i] BY <1>2, <1>3, <1>12, <1>18, <3>1 DEF Opens
    <3>. QED BY <1>14, <3>2 DEF FrameComes, Divides
  <2>. QED BY <2>1, <2>2
<1>19. LoopIs(program', Len(program'), o[n])
  <2>1. Aligned(o, l, program, stack) BY DEF Mapped
  <2>2. \A j \in 1..Len(stack) : IsLoop(stack[j]) => j <= n BY <1>2, <1>3
  <2>3. n \in 1..Len(stack) BY <1>2, <1>3
  <2>4. LoopIs(program, Len(program) + 1, o[n]) BY <1>2, <1>15, <2>1, <2>2, <2>3, InnerLoop
  <2>. QED BY <1>2, <1>14, <2>4, AroundNow
<1>20. CarriesNow(o, ins)
  <2>1. SUFFICES ASSUME NEW q, q = Len(program') PROVE \A c, i : Carries(o, ins, q, c, i)'
    BY DEF CarriesNow
  <2>2. PICK p : p = o[n] OBVIOUS
  <2>3. Past(o, p, x)'
    <3>1. n \in Opens(stack)' BY <1>15 DEF Opens
    <3>. QED BY <1>4, <1>10, <1>12, <2>2, <3>1 DEF Past
  <2>4. Comes(b, 1, q + 1)' BY <1>13, <2>1 DEF ComesTo
  <2>5. Decides(o, q, x)' BY <1>14, <1>19, <2>1, <2>2, <2>3 DEF Decides
  <2>. QED BY <1>7, <1>14, <2>1, <2>4, <2>5 DEF Carries
<1>21. Quietly \/ (\E i \in Instr : Grows(i) /\ CarriesNow(o, i)) BY <1>6, <1>8, <1>20
<1>22. Mapped(o, l)'
  BY <1>1, <1>2, <1>13, <1>16, <1>17, <1>18, <1>21, MappedKept DEF Steady
<1>. QED BY <1>8, <1>22

(* The condition lambda's first run adds nothing to the calls.             *)
LEMMA WhileBeginMapped ==
  ASSUME Steady, WhileBegin, Silently, NEW o, NEW l, Mapped(o, l)
  PROVE  \E l2 : Mapped(o, l2)'
<1>1. stack # <<>> /\ UNCHANGED <<steps, parent, program, origin>>
  BY DEF WhileBegin, MayNest, MayCall, Silently, record
<1>2. PICK frame : frame = NewFrame("cond1") OBVIOUS
<1>3. /\ TypeOK /\ Len(stack) \in Nat /\ program \in Tokens
      /\ frame \in Frame /\ frame.kind = "cond1"
  BY <1>2, FramesOf, NewFrameType DEF FrameKind, NewFrame
<1>4. Push(frame) BY <1>2 DEF WhileBegin
<1>5. /\ Len(stack') = Len(stack) + 1 /\ stack' # <<>>
      /\ \A i \in 1..Len(stack) : stack'[i] = stack[i]
      /\ stack'[Len(stack) + 1] = frame
  BY <1>3, <1>4, PushedFrames
<1>6. Opens(stack') = Opens(stack) BY <1>3, <1>5 DEF Opens
<1>7. PICK l2 : Aligned(o, l2, program, stack')
  <2>1. Aligned(o, l, program, stack) BY DEF Mapped
  <2>. QED BY <1>3, <1>5, <2>1, AlignedSilently
<1>8. \A i \in Opens(stack) : i \in 1..Len(stack) /\ stack'[i] = stack[i] BY <1>5 DEF Opens
<1>9. \A b, i : Live(b, i)' <=> Live(b, i) BY <1>1 DEF Live
<1>10. \A b, i : CallIn(b, i)' = CallIn(b, i) BY <1>1, <1>5 DEF CallIn, NextCall
<1>11. \A b, i, q : Comes(b, i, q)' <=> Comes(b, i, q) BY <1>9, <1>10 DEF Comes
<1>12. \A p, x : Past(o, p, x) => Past(o, p, x)'
  <2>. SUFFICES ASSUME NEW p, NEW x, Past(o, p, x) PROVE Past(o, p, x)' OBVIOUS
  <2>1. ASSUME NEW i \in Opens(stack), o[i] = p, stack[i].exit_block = x, x \in Block
        PROVE  Past(o, p, x)'
    <3>1. i \in Opens(stack)' /\ stack'[i].exit_block = x BY <1>6, <1>8, <2>1 DEF Opens
    <3>. QED BY <2>1, <3>1 DEF Past
  <2>2. ASSUME NEW e, EndIs(program, p, e), Comes(x, 1, e + 1), x \in Block PROVE Past(o, p, x)'
    <3>1. EndIs(program, p, e)' BY <1>1, <2>2 DEF EndIs, DepthOf
    <3>. QED BY <1>11, <2>2, <3>1 DEF Past
  <2>. QED BY <2>1, <2>2 DEF Past
<1>13. \A q, f : FalseTo(o, q, f) => FalseTo(o, q, f)'
  <2>. SUFFICES ASSUME NEW q, NEW f, FalseTo(o, q, f) PROVE FalseTo(o, q, f)' OBVIOUS
  <2>1. ASSUME NEW i \in Opens(stack), o[i] = q, Deciding(stack[i]), OnFalse(stack[i]) = f, f \in Block
        PROVE  FalseTo(o, q, f)'
    <3>1. i \in Opens(stack)' BY <1>6, <2>1 DEF Opens
    <3>2. Deciding(stack[i])' /\ OnFalse(stack[i])' = f BY <1>8, <2>1 DEF Deciding, OnFalse
    <3>. QED BY <2>1, <3>1, <3>2 DEF FalseTo
  <2>2. ASSUME NEW p, DivideIs(program, q, p), Comes(f, 1, p + 1), f \in Block
        PROVE  FalseTo(o, q, f)'
    <3>1. DivideIs(program', q, p) BY <1>1, <2>2
    <3>. QED BY <1>11, <2>2, <3>1 DEF FalseTo
  <2>. QED BY <2>1, <2>2 DEF FalseTo
<1>14. \A q, f : Decides(o, q, f) => Decides(o, q, f)'
  <2>1. \A q, p : LoopIs(program, q, p) => LoopIs(program', q, p) BY <1>1
  <2>. QED BY <1>1, <1>12, <1>13, <2>1 DEF Decides
<1>15. \A q, d : Directs(o, q, d) => Directs(o, q, d)'
  <2>1. \A q, p : /\ LoopIs(program, q, p) => LoopIs(program', q, p)
                  /\ OpenerIs(program, q, p) => OpenerIs(program', q, p)
    BY <1>1
  <2>. QED BY <1>1, <1>11, <1>12, <2>1 DEF Directs
<1>16. \A ins, q, b, i : Carries(o, ins, q, b, i) => Carries(o, ins, q, b, i)'
  BY <1>1, <1>11, <1>14, <1>15 DEF Carries
<1>17. CodeTold(o)'
  <2>1. SUFFICES ASSUME NEW b \in Block, NEW i \in DOMAIN steps[b], Live(b, i)
                 PROVE  Carries(o, steps[b][i], origin[b][i], b, i)'
    BY <1>1, <1>9 DEF CodeTold
  <2>2. PICK ins, q : ins = steps[b][i] /\ q = origin[b][i] OBVIOUS
  <2>3. Carries(o, ins, q, b, i) BY <2>1, <2>2 DEF Mapped, CodeTold
  <2>4. Carries(o, ins, q, b, i)' BY <1>16, <2>3
  <2>. QED BY <1>1, <2>2, <2>4
<1>18. LoopsTold(o)'
  <2>1. SUFFICES ASSUME NEW i \in Opens(stack'), IsLoop(stack[i])'
                 PROVE  Comes(stack[i].head_block, 1, o[i] + 1)'
    BY DEF LoopsTold
  <2>2. i \in Opens(stack) /\ stack'[i] = stack[i] BY <1>6, <1>8, <2>1
  <2>3. IsLoop(stack[i]) BY <2>1, <2>2 DEF IsLoop
  <2>4. PICK h : h = stack[i].head_block OBVIOUS
  <2>5. Comes(h, 1, o[i] + 1) BY <2>2, <2>3, <2>4 DEF Mapped, LoopsTold
  <2>. QED BY <1>11, <2>2, <2>4, <2>5
<1>19. IfsTold(o)'
  <2>1. SUFFICES ASSUME NEW i \in Opens(stack'), Deciding(stack[i])'
                 PROVE  Undivided(program', o[i])
    BY DEF IfsTold
  <2>2. i \in Opens(stack) /\ Deciding(stack[i]) BY <1>6, <1>8, <2>1 DEF Deciding
  <2>. QED BY <1>1, <2>2 DEF Mapped, IfsTold
<1>20. Aligned(o, l2, program', stack') BY <1>1, <1>7
<1>. QED BY <1>17, <1>18, <1>19, <1>20 DEF Mapped

-----------------------------------------------------------------------------
(* What else has to be known of the calls: the condition of a while comes  *)
(* right after it, and the function starts at its entry and has its end.   *)

HeadsTold ==
  /\ \A p \in 1..(Len(program) - 1) :
       program[p] = "while" => program[p + 1] \in {"statement", "if", "while", "do"}
  /\ program # <<>> /\ program[Len(program)] = "while" =>
       stack # <<>> /\ Top.kind \in Conditions
Begun ==
  /\ function_ # 0 => program # <<>> /\ Comes(entry[function_], 1, 2)
  /\ function_ # 0 /\ stack = <<>> =>
       /\ program[Len(program)] = "end"
       /\ \E l : OpenerIs(program, Len(program), l) /\ program[l] = "function"

(* A client that takes the liberty may leave a condition lambda's block    *)
(* and go on; the assert of the while_ around it stops it before the code  *)
(* can run.                                                                *)
Doomed == stack # <<>> /\ Top.kind \in Conditions /\ exited_block_
Told ==
  aborted \/ Doomed \/ (HeadsTold /\ Begun /\ \E o, l : Mapped(o, l))

LEMMA BuildCalls ==
  ASSUME Build
  PROVE  /\ Next /\ ~aborted
         /\ \/ Calling /\ \E t \in Calls!Token : Written(t)
            \/ (WhileBegin \/ VariableGet \/ VariableDecl) /\ Silently
<1>1. Next BY DEF Build, Next
<1>2. ~aborted
  BY DEF Build, CreateFunction, EndFunction, Statement, VariableGet, VariableDecl, Return, Break,
         Continue, IfElse, IfOnly, Else, EndIf, WhileBegin, WhileTest, WhileBody, EndWhile, Returns,
         MayCall, MayAdd, MayExit, MayNest, IfBegin
<1>3. \/ Calling /\ \E t \in Calls!Token : Written(t)
      \/ (WhileBegin \/ VariableGet \/ VariableDecl) /\ Silently
  BY TokenFacts DEF Build, Calling
<1>. QED BY <1>1, <1>2, <1>3

(* The steps stay in step with the code: a declaration and a load of a     *)
(* variable close no block, and go to a block that is in place.            *)
LEMMA RecordedStep ==
  ASSUME Steady, Build
  PROVE  Recorded'
<1>1. /\ TypeOK /\ program \in Tokens /\ steps \in [Block -> Seq(Instr)]
      /\ code \in [Block -> Seq(Instr)]
      /\ \A b \in Block : /\ DOMAIN origin[b] = DOMAIN steps[b]
                          /\ Ends(steps[b]) <=> Ends(code[b])
                          /\ code[b] = <<>> => steps[b] = <<>>
  BY FramesOf DEF Steady, Recorded, TypeOK
<1>2. ASSUME NEW t \in Calls!Token, Written(t), UNCHANGED code PROVE Recorded'
  <2>1. program' \in Tokens BY <1>2, FramesOf, PushFacts DEF Written, Tokens
  <2>2. UNCHANGED steps BY <1>1, <1>2, WrittenSteps DEF Steady
  <2>3. \A b \in Block : DOMAIN origin'[b] = DOMAIN steps'[b] BY <1>2 DEF Written
  <2>. QED BY <1>1, <1>2, <2>1, <2>2, <2>3 DEF Recorded
<1>3. ASSUME NEW t \in Calls!Token, Written(t), stack # <<>>, NEW i \in Instr, Adds(i)
      PROVE  Recorded'
  <2>1. program' \in Tokens BY <1>3, FramesOf, PushFacts DEF Written, Tokens
  <2>2. Grows(i) /\ insert \in Block BY <1>3, FramesOf, StepsGrow
  <2>3. steps' = [steps EXCEPT ![insert] = Append(steps[insert], i)] BY <2>2 DEF Grows
  <2>4. code' = [code EXCEPT ![insert] = Append(code[insert], i)] BY <1>3 DEF Adds, Emitted
  <2>5. Append(steps[insert], i) \in Seq(Instr) BY <1>1, <1>3, <2>2
  <2>6. steps' \in [Block -> Seq(Instr)] BY <1>1, <2>3, <2>5
  <2>7. \A b \in Block : DOMAIN origin'[b] = DOMAIN steps'[b] BY <1>3 DEF Written
  <2>8. ASSUME NEW b \in Block
        PROVE  /\ Ends(steps'[b]) <=> Ends(code'[b])
               /\ code'[b] = <<>> => steps'[b] = <<>>
    <3>1. CASE b # insert
      <4>1. steps'[b] = steps[b] /\ code'[b] = code[b] BY <1>1, <2>3, <2>4, <3>1
      <4>. QED BY <1>1, <4>1
    <3>2. CASE b = insert
      <4>1. steps'[b] = Append(steps[b], i) /\ code'[b] = Append(code[b], i)
        BY <1>1, <2>2, <2>3, <2>4, <3>2
      <4>2. steps[b] \in Seq(Instr) /\ code[b] \in Seq(Instr) BY <1>1
      <4>3. Len(code'[b]) = Len(code[b]) + 1 /\ Len(code[b]) \in Nat BY <1>3, <4>1, <4>2, PushFacts
      <4>4. code'[b] # <<>> BY <4>3
      <4>. QED BY <1>1, <1>3, <4>1, <4>2, <4>4, EndsAppend
    <3>. QED BY <3>1, <3>2
  <2>. QED BY <2>1, <2>6, <2>7, <2>8 DEF Recorded
<1>4. ASSUME NEW t \in Calls!Token, Written(t), Calling PROVE Recorded'
  <2>1. UNCHANGED code \/ (stack # <<>> /\ AddsNear) BY <1>4, AddStep DEF Steady
  <2>. QED BY <1>2, <1>3, <1>4, <2>1 DEF AddsNear
<1>5. ASSUME Silently, \A b \in Block : /\ Ends(code'[b]) <=> Ends(code[b])
                                        /\ code'[b] = <<>> => code[b] = <<>>
      PROVE  Recorded'
  BY <1>1, <1>5 DEF Silently, record, Recorded
<1>6. CASE WhileBegin /\ Silently BY <1>5, <1>6 DEF WhileBegin
<1>7. CASE VariableGet /\ Silently
  <2>1. PICK i : i = Instruction("get", {}, loc) OBVIOUS
  <2>2. insert \in Block /\ loc \in Location
    BY <1>7, FramesOf DEF VariableGet, MayAdd, MayCall, TypeOK
  <2>3. i \in Instr /\ i.op \notin Terminators
    BY <1>1, <2>1, <2>2, EmittedType DEF Instruction, Terminators
  <2>4. code' = Emitted(i) BY <1>7, <2>1 DEF VariableGet
  <2>5. /\ Ends(code'[insert]) <=> Ends(code[insert])
        /\ \A b \in Block : b # insert => code'[b] = code[b]
    BY <1>1, <2>2, <2>3, <2>4, EmittedEnds
  <2>6. code'[insert] # <<>>
    <3>1. code[insert] \in Seq(Instr) /\ code'[insert] = Append(code[insert], i)
      BY <1>1, <2>2, <2>4 DEF Emitted
    <3>2. Len(code'[insert]) = Len(code[insert]) + 1 /\ Len(code[insert]) \in Nat
      BY <2>3, <3>1, PushFacts
    <3>. QED BY <3>2
  <2>. QED BY <1>5, <1>7, <2>5, <2>6
<1>8. CASE VariableDecl /\ Silently
  <2>1. PICK top, a : top = entry[function_] /\ a = Alloca OBVIOUS
  <2>2. top \in Block
    BY <1>8, <2>1 DEF VariableDecl, MayCall, Steady, IInv, InsertionPlaced
  <2>3. a \in Instr /\ a.op \notin Terminators BY <1>1, <2>1, <2>2, AllocaFacts
  <2>4. code' = [code EXCEPT ![top] = <<a>> \o code[top]] BY <1>8, <2>1 DEF VariableDecl
  <2>5. code'[top] = <<a>> \o code[top] BY <1>1, <2>2, <2>4
  <2>6. Ends(code'[top]) <=> Ends(code[top]) BY <1>1, <2>2, <2>3, <2>5, EndsPrepend
  <2>7. code'[top] # <<>>
    <3>1. code[top] \in Seq(Instr) /\ <<a>> \in Seq(Instr) /\ Len(<<a>>) = 1 BY <1>1, <2>2, <2>3
    <3>2. Len(<<a>> \o code[top]) = 1 + Len(code[top]) /\ Len(code[top]) \in Nat
      BY <3>1, ConcatProperties
    <3>. QED BY <2>5, <3>2
  <2>8. \A b \in Block : b # top => code'[b] = code[b] BY <1>1, <2>4
  <2>. QED BY <1>5, <1>8, <2>6, <2>7, <2>8
<1>. QED BY <1>4, <1>6, <1>7, <1>8, BuildCalls

(* What happens to the running lambdas, and which of them is outermost.    *)
LEMMA AloneKept ==
  ASSUME Steady, stack # <<>>, UNCHANGED <<function_, entry>>,
         \/ stack' = stack
         \/ stack' = Outer
         \/ \E f : f.kind # "function" /\ Push(f)
         \/ \E f : f.kind # "function" /\ Top.kind # "function" /\ Replace(f)
  PROVE  Alone'
<1>1. /\ stack \in Seq(Frame) /\ DOMAIN stack = 1..Len(stack) /\ Len(stack) \in Nat \ {0}
      /\ Top = stack[Len(stack)] /\ Len(stack) \in 1..Len(stack) /\ function_ # 0
  BY FramesOf DEF Function
<1>2. \A i \in DOMAIN stack : stack[i].kind = "function" <=> i = 1 BY DEF Steady, Alone
<1>3. \A i \in DOMAIN stack' : stack'[i].kind = "function" <=> i = 1
  <2>1. CASE stack' = stack BY <1>2, <2>1
  <2>2. CASE stack' = Outer
    <3>1. DOMAIN stack' = 1..(Len(stack) - 1) /\ \A i \in 1..(Len(stack) - 1) : stack'[i] = stack[i]
      BY <1>1, <2>2, PopFacts DEF Outer
    <3>2. \A i \in 1..(Len(stack) - 1) : i \in DOMAIN stack BY <1>1
    <3>. QED BY <1>2, <3>1, <3>2
  <2>3. ASSUME NEW f, f.kind # "function", Push(f)
        PROVE  \A i \in DOMAIN stack' : stack'[i].kind = "function" <=> i = 1
    <3>1. PICK S : S = Frame \cup {f} OBVIOUS
    <3>2. stack \in Seq(S) /\ f \in S BY <1>1, <3>1
    <3>3. /\ DOMAIN stack' = 1..(Len(stack) + 1)
          /\ \A i \in 1..Len(stack) : stack'[i] = stack[i]
          /\ stack'[Len(stack) + 1] = f
      BY <2>3, <3>2, PushFacts DEF Push
    <3>. TAKE i \in DOMAIN stack'
    <3>4. CASE i = Len(stack) + 1 BY <1>1, <2>3, <3>3, <3>4
    <3>5. CASE i # Len(stack) + 1
      <4>1. i \in 1..Len(stack) BY <1>1, <3>3, <3>5
      <4>. QED BY <1>1, <1>2, <3>3, <4>1
    <3>. QED BY <3>4, <3>5
  <2>4. ASSUME NEW f, f.kind # "function", Top.kind # "function", Replace(f)
        PROVE  \A i \in DOMAIN stack' : stack'[i].kind = "function" <=> i = 1
    <3>1. /\ DOMAIN stack' = DOMAIN stack /\ stack'[Len(stack)] = f
          /\ \A i \in DOMAIN stack : i # Len(stack) => stack'[i] = stack[i]
      BY <1>1, <2>4 DEF Replace
    <3>2. Len(stack) # 1 BY <1>1, <1>2, <2>4
    <3>. QED BY <1>2, <2>4, <3>1, <3>2
  <2>. QED BY <2>1, <2>2, <2>3, <2>4
<1>. QED BY <1>1, <1>3 DEF Steady, Alone

LEMMA HeadsKept ==
  ASSUME Steady, HeadsTold, NEW t \in Calls!Token, Written(t), stack # <<>> \/ program = <<>>,
         t \in {"statement", "if", "while", "do"} \/ Top.kind \notin Conditions,
         t = "while" => stack' # <<>> /\ Top'.kind \in Conditions
  PROVE  HeadsTold'
<1>1. /\ Len(program') = Len(program) + 1 /\ Len(program) \in Nat
      /\ program'[Len(program')] = t /\ program \in Tokens
      /\ \A p \in 1..Len(program) : program'[p] = program[p]
  BY WrittenFacts
<1>2. ASSUME NEW p \in 1..(Len(program') - 1), program'[p] = "while"
      PROVE  program'[p + 1] \in {"statement", "if", "while", "do"}
  <2>1. p \in 1..Len(program) /\ program[p] = "while" BY <1>1, <1>2
  <2>2. CASE p = Len(program)
    <3>1. program # <<>> BY <2>1
    <3>2. stack # <<>> /\ Top.kind \in Conditions BY <2>1, <2>2, <3>1 DEF HeadsTold
    <3>. QED BY <1>1, <2>2, <3>2
  <2>3. CASE p # Len(program)
    <3>1. p \in 1..(Len(program) - 1) /\ p + 1 \in 1..Len(program) BY <1>1, <2>1, <2>3
    <3>. QED BY <1>1, <2>1, <3>1 DEF HeadsTold
  <2>. QED BY <2>2, <2>3
<1>3. program'[Len(program')] = "while" => stack' # <<>> /\ Top'.kind \in Conditions BY <1>1
<1>. QED BY <1>2, <1>3 DEF HeadsTold

(* Every lambda but the function's is inside another.                      *)
LEMMA NotLast ==
  ASSUME Steady, stack # <<>>, Top.kind # "function", Pop
  PROVE  stack' # <<>>
<1>1. /\ Len(stack) \in Nat \ {0} /\ Len(stack) \in DOMAIN stack /\ Top = stack[Len(stack)]
      /\ stack \in Seq(Frame)
  BY FramesOf
<1>2. Len(stack) # 1 BY <1>1 DEF Steady, Alone
<1>3. Len(stack') = Len(stack) - 1 BY PoppedFrames
<1>. QED BY <1>1, <1>2, <1>3

LEMMA BegunKept ==
  ASSUME Steady, Begun, Notes, stack # <<>>, UNCHANGED <<function_, entry>>,
         \A b \in Block : parent[b] # 0 => parent'[b] = parent[b],
         stack' = <<>> => Written("end") /\ Top.kind = "function" /\ \E o, l : Mapped(o, l)
  PROVE  Begun'
<1>1. function_ # 0 /\ program # <<>> /\ Comes(entry[function_], 1, 2)
  BY FramesOf DEF Begun, Function
<1>2. PICK b : b = entry[function_] OBVIOUS
<1>3. Comes(b, 1, 2)' BY <1>1, <1>2, ComesStays DEF Steady
<1>4. program' # <<>>
  <2>1. CASE Silently BY <1>1, <2>1 DEF Silently, record
  <2>2. ASSUME NEW t \in Calls!Token, Written(t) PROVE program' # <<>>
    <3>1. Len(program') = Len(program) + 1 /\ Len(program) \in Nat BY <2>2, WrittenFacts
    <3>. QED BY <3>1
  <2>. QED BY <2>1, <2>2 DEF Notes
<1>5. ASSUME stack' = <<>>
      PROVE  /\ program'[Len(program')] = "end"
             /\ \E l : OpenerIs(program', Len(program'), l) /\ program'[l] = "function"
  <2>1. "end" \in Calls!Token /\ Written("end") /\ Top.kind = "function" BY <1>5, TokenFacts
  <2>2. PICK o, l : Mapped(o, l) BY <1>5
  <2>3. /\ OpenerIs(program', Len(program'), o[Len(stack)])
        /\ program'[o[Len(stack)]] = Bracket(Top.kind)
    BY <2>1, <2>2, TopBracket
  <2>. QED BY <2>1, <2>3, WrittenFacts DEF Bracket
<1>. QED BY <1>2, <1>3, <1>4, <1>5 DEF Begun

LEMMA CreateFunctionTold ==
  ASSUME Steady, HeadsTold, CreateFunction, Written("function"), NEW o, NEW l, Mapped(o, l)
  PROVE  HeadsTold' /\ Begun' /\ Alone' /\ \E o2, l2 : Mapped(o2, l2)'
<1>1. PICK fn \in Function :
        /\ entry[fn] = 0
        /\ function_' = fn
        /\ entry' = [entry EXCEPT ![fn] = blocks + 1]
        /\ parent' = [parent EXCEPT ![blocks + 1] = fn]
        /\ Push([NewFrame("function") EXCEPT !.fn = fn])
  BY DEF CreateFunction, FunctionToFill
<1>2. fn = 1 BY <1>1, ExecutionAssumption DEF Function
<1>3. function_ = 0 /\ stack = <<>> /\ program = <<>>
  <2>1. function_ = 0 BY <1>1, <1>2 DEF Steady, Alone
  <2>. QED BY <2>1 DEF Steady, Alone
<1>4. TypeOK /\ program \in Tokens /\ Len(program) = 0 /\ Len(stack) = 0 BY <1>3, FramesOf
<1>5. "function" \in Calls!Token /\ "function" \in Calls!Openers BY TokenFacts
<1>6. /\ Appends(program', program, "function") /\ Len(program') = 1
      /\ program'[Len(program')] = "function"
  BY <1>4, <1>5, WrittenFacts
<1>7. \A b \in Block : steps'[b] = <<>>
  <2>. SUFFICES ASSUME NEW b \in Block PROVE steps'[b] = <<>> OBVIOUS
  <2>1. parent[b] \in 0..1 BY <1>4, ExecutionAssumption DEF TypeOK
  <2>2. parent[b] # 1 BY <1>1, <1>2 DEF Steady, IInv, FunctionsEntered
  <2>3. parent[b] = 0 BY <2>1, <2>2
  <2>4. code[b] = <<>> BY <2>3 DEF Steady, IInv, UnplacedEmpty
  <2>5. steps[b] = <<>> BY <2>4 DEF Steady, Recorded
  <2>6. UNCHANGED steps
    <3>1. UNCHANGED code /\ Recorded BY DEF CreateFunction, Steady
    <3>. QED BY <1>4, <3>1, WrittenSteps
  <2>. QED BY <2>5, <2>6
<1>8. PICK frame : frame = [NewFrame("function") EXCEPT !.fn = fn] OBVIOUS
<1>9. frame \in Frame /\ frame.kind = "function"
  <2>1. NewFrame("function") \in Frame /\ NewFrame("function").kind = "function"
    BY <1>4, NewFrameType DEF FrameKind, NewFrame
  <2>2. fn \in 0..MaxFunctions BY BoundsAssumption DEF Function
  <2>. QED BY <1>8, <2>1, <2>2 DEF Frame
<1>10. Len(stack') = 1 /\ stack' # <<>> /\ stack'[1] = frame
  BY <1>1, <1>4, <1>8, <1>9, PushedFrames
<1>11. Alone'
  <2>1. DOMAIN stack' = {1}
    <3>1. stack \in Seq(Frame) BY FramesOf
    <3>2. DOMAIN stack' = 1..(Len(stack) + 1) BY <1>1, <1>8, <1>9, <3>1, PushFacts DEF Push
    <3>. QED BY <1>4, <3>2
  <2>2. entry'[1] # 0
    <3>1. entry'[1] = blocks + 1 BY <1>1, <1>2, <1>4 DEF TypeOK, Function
    <3>. QED BY <1>4, <3>1 DEF TypeOK
  <2>3. \A i \in DOMAIN stack' : stack'[i].kind = "function" <=> i = 1
    BY <1>9, <1>10, <2>1
  <2>. QED BY <1>1, <1>2, <2>2, <2>3 DEF Alone
<1>12. HeadsTold'
  <2>1. \A p \in 1..(Len(program') - 1) : FALSE BY <1>6
  <2>2. program'[Len(program')] # "while" BY <1>6
  <2>. QED BY <2>1, <2>2 DEF HeadsTold
<1>13. Begun'
  <2>1. PICK b : b = blocks + 1 OBVIOUS
  <2>2. b \in Block
    <3>1. blocks \in 0..MaxBlocks /\ blocks < MaxBlocks /\ MaxBlocks \in Nat
      BY <1>4, BoundsAssumption DEF TypeOK, CreateFunction
    <3>. QED BY <2>1, <3>1 DEF Block
  <2>3. parent'[b] = 1 /\ entry'[1] = b BY <1>1, <1>2, <1>4, <2>1, <2>2 DEF TypeOK, Function
  <2>4. IInv /\ Recorded BY DEF Steady
  <2>5. Comes(b, 1, 2)' BY <1>5, <1>6, <1>7, <1>10, <2>2, <2>3, <2>4, PlacedNow
  <2>6. program' # <<>> BY <1>6
  <2>. QED BY <1>1, <1>2, <1>10, <2>3, <2>5, <2>6 DEF Begun
<1>14. PICK o2, l2 : Aligned(o2, l2, program', stack')
  <2>1. Aligned(o, l, program, stack) BY DEF Mapped
  <2>2. stack'[1].kind # "cond1" /\ Bracket(stack'[1].kind) = "function" BY <1>9, <1>10 DEF Bracket
  <2>3. PICK m : m = 1 OBVIOUS
  <2>4. /\ m \in 1..(Len(stack) + 1) /\ Len(stack) <= m /\ m # Len(stack) /\ Len(stack) \in Nat
        /\ \A i \in 1..(m - 1) : stack'[i] = stack[i]
        /\ Len(stack') = m
    BY <1>4, <1>10, <2>3
  <2>5. stack'[m].kind # "cond1" /\ Bracket(stack'[m].kind) = "function" BY <2>2, <2>3
  <2>6. \E o2, l2 : /\ Aligned(o2, l2, program', stack') /\ o2[m] = Len(program')
                    /\ \A i \in 1..(m - 1) : o2[i] = o[i]
    <3>1. program \in Tokens /\ Appends(program', program, "function") BY <1>4, <1>6
    <3>. QED BY <1>5, <2>1, <2>4, <2>5, <3>1, AlignedOpens
  <2>. QED BY <2>6
<1>15. Mapped(o2, l2)'
  <2>1. CodeTold(o2)' BY <1>7 DEF CodeTold
  <2>2. \A i \in Opens(stack') : ~IsLoop(stack'[i]) /\ ~Deciding(stack'[i])
    BY <1>9, <1>10 DEF Opens, IsLoop, Deciding
  <2>3. LoopsTold(o2)' /\ IfsTold(o2)' BY <2>2 DEF LoopsTold, IfsTold, IsLoop, Deciding, Opens
  <2>. QED BY <1>14, <2>1, <2>3 DEF Mapped
<1>. QED BY <1>11, <1>12, <1>13, <1>15

LEMMA ToldKept ==
  ASSUME Steady, HeadsTold, Begun, stack # <<>>, NEW t \in Calls!Token, Written(t),
         Next, UNCHANGED <<function_, entry>>,
         Quietly \/ Adding,
         t \in {"statement", "if", "while", "do"} \/ Top.kind \notin Conditions,
         t = "while" => stack' # <<>> /\ Top'.kind \in Conditions,
         stack' = <<>> => t = "end" /\ Top.kind = "function" /\ \E o, l : Mapped(o, l),
         \E o2, l2 : Mapped(o2, l2)'
  PROVE  Told'
<1>1. \A b \in Block : parent[b] # 0 => parent'[b] = parent[b] BY PlacedStay DEF Steady
<1>2. Notes BY DEF Notes, Adding
<1>3. HeadsTold' BY HeadsKept
<1>4. Begun' BY <1>1, <1>2, BegunKept
<1>. QED BY <1>3, <1>4 DEF Told

LEMMA ToldByStatement ==
  ASSUME Steady, HeadsTold, Begun, NEW o, NEW l, Mapped(o, l), Statement, Written("statement")
  PROVE  Told' /\ Alone'
<1>1. /\ stack # <<>> /\ UNCHANGED <<stack, function_, entry>> /\ "statement" \in Calls!Token
      /\ Next
  BY TokenFacts DEF Statement, MayAdd, MayCall, Next
<1>2. Mapped(o, l)' /\ Adding BY StatementMapped
<1>3. Alone' BY <1>1, AloneKept
<1>. QED BY <1>1, <1>2, <1>3, ToldKept

LEMMA ToldByExit ==
  ASSUME Steady, HeadsTold, Begun, NEW o, NEW l, Mapped(o, l),
         NEW t \in {"return", "break", "continue"}, Written(t),
         \/ Return /\ t = "return"
         \/ Break /\ t = "break"
         \/ Continue /\ t = "continue"
  PROVE  Told' /\ Alone'
<1>1. stack # <<>> /\ MayExit /\ t \in Calls!Token /\ Next
  BY TokenFacts DEF Return, Break, Continue, MayExit, MayCall, Next
<1>2. CASE Abort
  <2>1. aborted' /\ UNCHANGED <<function_, entry, stack>> BY <1>2 DEF Abort
  <2>. QED BY <1>1, <2>1, AloneKept DEF Told
<1>3. ASSUME NEW op, NEW to, Exit(t, op, to), Mapped(o, l)', Adding
      PROVE  Told' /\ Alone'
  <2>1. exited_block_' /\ UNCHANGED <<stack, function_, entry>> BY <1>3 DEF Exit
  <2>2. Alone' BY <1>1, <2>1, AloneKept
  <2>3. CASE Top.kind \in Conditions
    <3>1. Doomed' BY <1>1, <2>1, <2>3 DEF Doomed, Top
    <3>. QED BY <2>2, <3>1 DEF Told
  <2>4. CASE Top.kind \notin Conditions BY <1>1, <1>3, <2>1, <2>2, <2>4, ToldKept
  <2>. QED BY <2>3, <2>4
<1>4. CASE Return /\ t = "return"
  <2>1. Exit("return", "ret", {}) BY <1>4 DEF Return
  <2>2. Mapped(o, l)' /\ Adding BY <1>1, <1>4, <2>1, ReturnMapped
  <2>. QED BY <1>3, <1>4, <2>1, <2>2
<1>5. CASE Break /\ t = "break" /\ ~Abort
  <2>1. PICK x : x = current_loop_.break_block_ OBVIOUS
  <2>2. x # 0 /\ Exit("break", "br", {x}) BY <1>5, <2>1 DEF Break
  <2>3. Mapped(o, l)' /\ Adding BY <1>1, <1>5, <2>1, <2>2, JumpMapped
  <2>. QED BY <1>3, <1>5, <2>2, <2>3
<1>6. CASE Continue /\ t = "continue" /\ ~Abort
  <2>1. PICK x : x = current_loop_.continue_block_ OBVIOUS
  <2>2. x # 0 /\ Exit("continue", "br", {x}) BY <1>6, <2>1 DEF Continue
  <2>3. Mapped(o, l)' /\ Adding BY <1>1, <1>6, <2>1, <2>2, JumpMapped
  <2>. QED BY <1>3, <1>6, <2>2, <2>3
<1>. QED BY <1>2, <1>4, <1>5, <1>6

LEMMA ToldByEndFunction ==
  ASSUME Steady, HeadsTold, Begun, NEW o, NEW l, Mapped(o, l), EndFunction, Written("end")
  PROVE  Told' /\ Alone'
<1>1. /\ stack # <<>> /\ Top.kind = "function" /\ Pop /\ stack' = Outer
      /\ UNCHANGED <<function_, entry, code>> /\ "end" \in Calls!Token /\ Next
  BY TokenFacts DEF EndFunction, Returns, Next, Pop
<1>2. Alone' BY <1>1, AloneKept
<1>3. Mapped(o, l)' BY EndFunctionMapped
<1>4. Quietly
  <2>1. Len(stack) \in DOMAIN stack /\ stack[Len(stack)] = Top /\ stack' = Outer /\ stack \in Seq(Frame)
    BY <1>1, FramesOf
  <2>2. Len(stack) = 1 BY <1>1, <2>1 DEF Steady, Alone
  <2>3. stack' = <<>>
    <3>1. stack' \in Seq(Frame) /\ Len(stack') = 0 BY <1>1, <2>1, <2>2, PopFacts DEF Outer
    <3>. QED BY <3>1
  <2>4. Len(program') = Len(program) + 1 /\ Len(program) \in Nat BY <1>1, WrittenFacts
  <2>5. NextCall' = NextCall BY <1>1, <2>3, <2>4 DEF NextCall
  <2>6. UNCHANGED steps BY <1>1, StepsGrow
  <2>. QED BY <2>5, <2>6 DEF Quietly
<1>5. Top.kind \notin Conditions BY <1>1 DEF Conditions
<1>. QED BY <1>1, <1>2, <1>3, <1>4, <1>5, ToldKept

LEMMA ToldByIf ==
  ASSUME Steady, HeadsTold, Begun, NEW o, NEW l, Mapped(o, l), IfElse \/ IfOnly, Written("if")
  PROVE  Told' /\ Alone'
<1>1. PICK kind, pending : /\ \/ kind = "then_else" /\ pending = 2
                              \/ kind = "then" /\ pending = 1
                           /\ IfBegin(kind, pending)
  BY DEF IfElse, IfOnly
<1>2. stack # <<>> /\ "if" \in Calls!Token /\ Next
  BY <1>1, TokenFacts DEF IfBegin, MayNest, MayCall, Next
<1>3. CASE exited_block_
  <2>1. aborted' /\ UNCHANGED <<function_, entry, stack>> BY <1>1, <1>3 DEF IfBegin, Abort
  <2>. QED BY <1>2, <2>1, AloneKept DEF Told
<1>4. CASE ~exited_block_
  <2>1. Adding /\ \E o2, l2 : Mapped(o2, l2)' BY <1>1, <1>4, IfMapped
  <2>2. PICK frame : frame = [NewFrame(kind) EXCEPT
                                !.exit_block = blocks + 1 + pending,
                                !.next_block = IF blocks + 2 = blocks + 1 + pending THEN 0 ELSE blocks + 2]
    OBVIOUS
  <2>3. Push(frame) /\ UNCHANGED <<function_, entry>> BY <1>1, <1>4, <2>2 DEF IfBegin
  <2>4. frame.kind # "function" BY <1>1, <2>2 DEF NewFrame
  <2>5. Alone' BY <1>2, <2>3, <2>4, AloneKept
  <2>6. stack' # <<>> BY <2>3, FramesOf DEF Push
  <2>. QED BY <1>2, <2>1, <2>3, <2>5, <2>6, ToldKept
<1>. QED BY <1>3, <1>4

LEMMA ToldByBranch ==
  ASSUME Steady, HeadsTold, Begun, NEW o, NEW l, Mapped(o, l),
         NEW t \in {"else", "end"}, Written(t),
         \/ Else /\ t = "else"
         \/ EndIf /\ t = "end"
         \/ EndWhile /\ t = "end"
  PROVE  Told' /\ Alone'
<1>1. /\ stack # <<>> /\ t \in Calls!Token /\ Next
      /\ Top.kind \in {"then_else", "then", "else", "body"} /\ Top.kind \notin Conditions
      /\ UNCHANGED <<function_, entry>>
  BY TokenFacts DEF Else, EndIf, EndWhile, Returns, Next, Conditions
<1>2. Top.kind # "function" BY <1>1
<1>3. stack' # <<>> /\ Alone' /\ Mapped(o, l)' /\ (Quietly \/ Adding)
  <2>1. CASE Else /\ t = "else"
    <3>1. PICK frame : frame = [Top EXCEPT !.kind = "else", !.next_block = 0] OBVIOUS
    <3>2. Replace(frame) BY <2>1, <3>1 DEF Else
    <3>3. frame.kind = "else"
      <4>1. Top \in Frame BY <1>1, FramesOf
      <4>. QED BY <3>1, <4>1 DEF Frame
    <3>4. Alone' BY <1>1, <1>2, <3>2, <3>3, AloneKept
    <3>5. stack' # <<>>
      <4>1. DOMAIN stack' = DOMAIN stack BY <3>2 DEF Replace
      <4>2. Len(stack) \in DOMAIN stack BY <1>1, FramesOf
      <4>. QED BY <4>1, <4>2
    <3>. QED BY <2>1, <3>4, <3>5, ElseMapped
  <2>2. CASE (EndIf \/ EndWhile) /\ t = "end"
    <3>1. Pop BY <2>2 DEF EndIf, EndWhile
    <3>2. stack' # <<>> BY <1>1, <1>2, <3>1, NotLast
    <3>3. Alone' BY <1>1, <3>1, AloneKept DEF Pop
    <3>. QED BY <2>2, <3>2, <3>3, EndIfMapped, EndWhileMapped
  <2>. QED BY <2>1, <2>2
<1>4. t # "while" OBVIOUS
<1>. QED BY <1>1, <1>3, <1>4, ToldKept

LEMMA ToldByTest ==
  ASSUME Steady, HeadsTold, Begun, NEW o, NEW l, Mapped(o, l), WhileTest, Written("while")
  PROVE  Told' /\ Alone'
<1>1. /\ stack # <<>> /\ Top.kind = "cond1" /\ "while" \in Calls!Token /\ Next
      /\ UNCHANGED <<function_, entry>> /\ Top \in Frame
  BY FramesOf, TokenFacts DEF WhileTest, Returns, Next
<1>2. PICK frame : frame = [Top EXCEPT !.kind = "cond2", !.head_block = blocks + 1,
                             !.next_block = blocks + 2, !.exit_block = blocks + 3,
                             !.parent_loop = current_loop_]
  OBVIOUS
<1>3. Replace(frame) BY <1>2 DEF WhileTest
<1>4. frame.kind = "cond2" BY <1>1, <1>2 DEF Frame
<1>5. Alone' BY <1>1, <1>3, <1>4, AloneKept
<1>6. stack' # <<>> /\ Top'.kind \in Conditions
  <2>1. Len(stack) \in DOMAIN stack /\ stack \in Seq(Frame) BY <1>1, FramesOf
  <2>2. DOMAIN stack' = DOMAIN stack /\ stack'[Len(stack)] = frame BY <1>3, <2>1 DEF Replace
  <2>3. stack' # <<>> BY <2>1, <2>2
  <2>4. Len(stack') = Len(stack)
    <3>1. stack' = [stack EXCEPT ![Len(stack)] = frame] BY <1>3 DEF Replace
    <3>. QED BY <2>1, <3>1
  <2>. QED BY <1>4, <2>2, <2>3, <2>4 DEF Top, Conditions
<1>7. Adding /\ \E o2, l2 : Mapped(o2, l2)' BY WhileTestMapped
<1>. QED BY <1>1, <1>5, <1>6, <1>7, ToldKept

LEMMA ToldByBody ==
  ASSUME Steady, HeadsTold, Begun, NEW o, NEW l, Mapped(o, l), WhileBody, Written("do")
  PROVE  Told' /\ Alone'
<1>1. /\ stack # <<>> /\ Top.kind = "cond2" /\ "do" \in Calls!Token /\ Next /\ Top \in Frame
  BY FramesOf, TokenFacts DEF WhileBody, Returns, Next
<1>2. CASE exited_block_
  <2>1. aborted' /\ UNCHANGED <<function_, entry, stack>> BY <1>2 DEF WhileBody, Abort
  <2>. QED BY <1>1, <2>1, AloneKept DEF Told
<1>3. CASE ~exited_block_
  <2>1. PICK frame : frame = [Top EXCEPT !.kind = "body", !.next_block = 0,
                               !.parent_scope = dbg_scope_]
    OBVIOUS
  <2>2. Replace(frame) /\ UNCHANGED <<function_, entry>> BY <1>3, <2>1 DEF WhileBody
  <2>3. frame.kind = "body" BY <1>1, <2>1 DEF Frame
  <2>4. Alone' BY <1>1, <2>2, <2>3, AloneKept
  <2>5. stack' # <<>>
    <3>1. DOMAIN stack' = DOMAIN stack BY <2>2 DEF Replace
    <3>2. Len(stack) \in DOMAIN stack BY <1>1, FramesOf
    <3>. QED BY <3>1, <3>2
  <2>6. Mapped(o, l)' /\ Adding BY <1>3, WhileBodyMapped
  <2>. QED BY <1>1, <2>2, <2>4, <2>5, <2>6, ToldKept
<1>. QED BY <1>2, <1>3

LEMMA ToldByWhile ==
  ASSUME Steady, HeadsTold, Begun, NEW o, NEW l, Mapped(o, l), WhileBegin, Silently
  PROVE  Told' /\ Alone'
<1>1. stack # <<>> /\ Next /\ UNCHANGED <<function_, entry, steps, program>>
  BY DEF WhileBegin, MayNest, MayCall, Next, Silently, record
<1>2. PICK frame : frame = NewFrame("cond1") OBVIOUS
<1>3. Push(frame) /\ frame.kind = "cond1" BY <1>2 DEF WhileBegin, NewFrame
<1>4. Alone' BY <1>1, <1>3, AloneKept
<1>5. stack' # <<>> /\ Top'.kind = "cond1"
  <2>1. frame \in Frame BY <1>2, FramesOf, NewFrameType DEF FrameKind
  <2>. QED BY <1>3, <2>1, PushedFrames DEF Top
<1>6. HeadsTold' BY <1>1, <1>5 DEF HeadsTold, Conditions
<1>7. Notes BY <1>1, <1>5 DEF Notes, Quietly, NextCall
<1>8. \A b \in Block : parent[b] # 0 => parent'[b] = parent[b] BY <1>1, PlacedStay DEF Steady
<1>9. Begun' BY <1>1, <1>5, <1>7, <1>8, BegunKept
<1>10. \E l2 : Mapped(o, l2)' BY WhileBeginMapped
<1>. QED BY <1>4, <1>6, <1>9, <1>10 DEF Told

LEMMA CreatesOnce == ASSUME Steady, CreateFunction PROVE stack = <<>> /\ ~aborted
<1>1. PICK fn \in Function : entry[fn] = 0 BY DEF CreateFunction
<1>2. fn = 1 BY ExecutionAssumption DEF Function
<1>3. function_ = 0 BY <1>1, <1>2 DEF Steady, Alone
<1>. QED BY <1>3 DEF Steady, Alone, CreateFunction

LEMMA DoomedStays ==
  ASSUME Steady, Doomed, Build
  PROVE  (aborted' \/ Doomed') /\ Alone'
<1>1. stack # <<>> /\ Top.kind \in {"cond1", "cond2"} /\ exited_block_ /\ Top \in Frame
  BY FramesOf DEF Doomed, Conditions
<1>2. ~CreateFunction BY <1>1, CreatesOnce
<1>3. ~EndFunction /\ ~Else /\ ~EndIf /\ ~EndWhile
  BY <1>1 DEF EndFunction, Else, EndIf, EndWhile, Returns
<1>4. ASSUME UNCHANGED <<stack, function_, entry>>, exited_block_' \/ aborted'
      PROVE  (aborted' \/ Doomed') /\ Alone'
  <2>1. Alone' BY <1>1, <1>4, AloneKept
  <2>. QED BY <1>1, <1>4, <2>1 DEF Doomed, Top, Conditions
<1>5. CASE Abort BY <1>4, <1>5 DEF Abort
<1>6. CASE Statement BY <1>1, <1>4, <1>6 DEF Statement
<1>7. CASE Return \/ Break \/ Continue
  BY <1>4, <1>5, <1>7 DEF Return, Break, Continue, Exit
<1>8. CASE IfElse \/ IfOnly
  <2>1. Abort BY <1>1, <1>8 DEF IfElse, IfOnly, IfBegin
  <2>. QED BY <1>5, <2>1
<1>9. CASE WhileBegin
  <2>1. PICK frame : frame = NewFrame("cond1") OBVIOUS
  <2>2. Push(frame) /\ frame.kind = "cond1" /\ UNCHANGED <<function_, entry, exited_block_>>
    BY <1>9, <2>1 DEF WhileBegin, NewFrame
  <2>3. frame \in Frame BY <2>1, FramesOf, NewFrameType DEF FrameKind
  <2>4. stack' # <<>> /\ Top'.kind = "cond1" BY <2>2, <2>3, PushedFrames DEF Top
  <2>5. Alone' BY <1>1, <2>2, AloneKept
  <2>. QED BY <1>1, <2>2, <2>4, <2>5 DEF Doomed, Conditions
<1>10. CASE WhileTest
  <2>1. PICK frame : frame = [Top EXCEPT !.kind = "cond2", !.head_block = blocks + 1,
                               !.next_block = blocks + 2, !.exit_block = blocks + 3,
                               !.parent_loop = current_loop_]
    OBVIOUS
  <2>2. Replace(frame) /\ UNCHANGED <<function_, entry, exited_block_>>
    BY <1>10, <2>1 DEF WhileTest
  <2>3. frame.kind = "cond2" BY <1>1, <2>1 DEF Frame
  <2>4. Alone' BY <1>1, <2>2, <2>3, AloneKept
  <2>5. stack' # <<>> /\ Top'.kind = "cond2"
    <3>1. Len(stack) \in DOMAIN stack /\ stack \in Seq(Frame) BY <1>1, FramesOf
    <3>2. DOMAIN stack' = DOMAIN stack /\ stack'[Len(stack)] = frame BY <2>2, <3>1 DEF Replace
    <3>3. Len(stack') = Len(stack)
      <4>1. stack' = [stack EXCEPT ![Len(stack)] = frame] BY <2>2 DEF Replace
      <4>. QED BY <3>1, <4>1
    <3>. QED BY <2>3, <3>1, <3>2, <3>3 DEF Top
  <2>. QED BY <1>1, <2>2, <2>4, <2>5 DEF Doomed, Conditions
<1>11. CASE WhileBody
  <2>1. Abort BY <1>1, <1>11 DEF WhileBody
  <2>. QED BY <1>5, <2>1
<1>12. CASE VariableGet BY <1>1, <1>4, <1>12 DEF VariableGet
<1>13. CASE VariableDecl BY <1>1, <1>4, <1>13 DEF VariableDecl
<1>. QED BY <1>2, <1>3, <1>6, <1>7, <1>8, <1>9, <1>10, <1>11, <1>12, <1>13 DEF Build

(* What is known of the calls stays so while neither they nor the lambdas  *)
(* that run change.                                                        *)
Kept == UNCHANGED <<function_, entry, parent, exited_block_, stack, aborted, record>>

LEMMA KeptTold ==
  ASSUME Kept
  PROVE  /\ \A b, i : Live(b, i)' = Live(b, i) /\ CallIn(b, i)' = CallIn(b, i)
         /\ Alone => Alone'
         /\ Told => Told'
<1>1. /\ program' = program /\ origin' = origin /\ steps' = steps
      /\ stack' = stack /\ parent' = parent /\ function_' = function_
      /\ entry' = entry /\ aborted' = aborted /\ exited_block_' = exited_block_
  BY DEF Kept, record
<1>2. Alone => Alone' BY <1>1 DEF Alone
<1>3. \A b, i : Live(b, i)' = Live(b, i) BY <1>1 DEF Live
<1>4. NextCall' = NextCall BY <1>1 DEF NextCall
<1>5. \A b, i : CallIn(b, i)' = CallIn(b, i) BY <1>1, <1>4 DEF CallIn
<1>6. \A b, i, q : Comes(b, i, q)' = Comes(b, i, q) BY <1>3, <1>5 DEF Comes
<1>7. Top' = Top BY <1>1 DEF Top
<1>8. HeadsTold => HeadsTold' BY <1>1, <1>7 DEF HeadsTold
<1>9. Begun => Begun' BY <1>1, <1>6 DEF Begun
<1>10. ASSUME NEW o, NEW l, Mapped(o, l) PROVE Mapped(o, l)'
  <2>1. \A p, x : Past(o, p, x) => Past(o, p, x)' BY <1>1, <1>6 DEF Past
  <2>2. \A p, x : FalseTo(o, p, x) => FalseTo(o, p, x)' BY <1>1, <1>6 DEF FalseTo
  <2>3. \A p, x : Decides(o, p, x) => Decides(o, p, x)' BY <1>1, <2>1, <2>2 DEF Decides
  <2>4. \A p, x : Directs(o, p, x) => Directs(o, p, x)' BY <1>1, <1>6, <2>1 DEF Directs
  <2>5. \A ins, q, b, i : Carries(o, ins, q, b, i) => Carries(o, ins, q, b, i)'
    BY <1>1, <1>6, <2>3, <2>4 DEF Carries
  <2>6. CodeTold(o)' BY <1>1, <1>3, <1>10, <2>5 DEF Mapped, CodeTold
  <2>7. LoopsTold(o)' BY <1>1, <1>6, <1>10 DEF Mapped, LoopsTold
  <2>8. IfsTold(o)' BY <1>1, <1>10 DEF Mapped, IfsTold
  <2>. QED BY <1>1, <1>10, <2>6, <2>7, <2>8 DEF Mapped
<1>11. Told => Told'
  <2>1. CASE aborted BY <1>1, <2>1 DEF Told
  <2>2. CASE Doomed BY <1>1, <1>7, <2>2 DEF Told, Doomed
  <2>3. ASSUME HeadsTold, Begun, NEW o, NEW l, Mapped(o, l) PROVE Told'
    BY <1>8, <1>9, <1>10, <2>3 DEF Told
  <2>. QED BY <2>1, <2>2, <2>3 DEF Told
<1>. QED BY <1>2, <1>3, <1>5, <1>11

LEMMA BuildTold ==
  ASSUME Steady, Told, Build
  PROVE  Steady' /\ Told'
<1>1. Next /\ ~aborted BY BuildCalls
<1>2. Told' /\ Alone'
  <2>1. CASE Doomed
    <3>1. (aborted' \/ Doomed') /\ Alone' BY <2>1, DoomedStays
    <3>. QED BY <3>1 DEF Told
  <2>2. CASE ~Doomed
    <3>1. HeadsTold /\ Begun BY <1>1, <2>2 DEF Told
    <3>2. PICK o, l : Mapped(o, l) BY <1>1, <2>2 DEF Told
    <3>3. CASE CreateFunction /\ Written("function")
      BY <3>1, <3>2, <3>3, CreateFunctionTold DEF Told
    <3>4. CASE EndFunction /\ Written("end") BY <3>1, <3>2, <3>4, ToldByEndFunction
    <3>5. CASE Statement /\ Written("statement") BY <3>1, <3>2, <3>5, ToldByStatement
    <3>6. CASE Return /\ Written("return") BY <3>1, <3>2, <3>6, ToldByExit
    <3>7. CASE Break /\ Written("break") BY <3>1, <3>2, <3>7, ToldByExit
    <3>8. CASE Continue /\ Written("continue") BY <3>1, <3>2, <3>8, ToldByExit
    <3>9. CASE (IfElse \/ IfOnly) /\ Written("if") BY <3>1, <3>2, <3>9, ToldByIf
    <3>10. CASE Else /\ Written("else") BY <3>1, <3>2, <3>10, ToldByBranch
    <3>11. CASE EndIf /\ Written("end") BY <3>1, <3>2, <3>11, ToldByBranch
    <3>12. CASE WhileBegin /\ Silently BY <3>1, <3>2, <3>12, ToldByWhile
    <3>13. CASE WhileTest /\ Written("while") BY <3>1, <3>2, <3>13, ToldByTest
    <3>14. CASE WhileBody /\ Written("do") BY <3>1, <3>2, <3>14, ToldByBody
    <3>15. CASE EndWhile /\ Written("end") BY <3>1, <3>2, <3>15, ToldByBranch
    <3>16. CASE (VariableDecl \/ VariableGet) /\ Silently
      <4>1. Kept BY <3>16 DEF VariableDecl, VariableGet, Silently, Kept
      <4>. QED BY <4>1, KeptTold DEF Steady
    <3>. QED BY <3>3, <3>4, <3>5, <3>6, <3>7, <3>8, <3>9, <3>10, <3>11, <3>12, <3>13, <3>14,
                <3>15, <3>16 DEF Build
  <2>. QED BY <2>1, <2>2
<1>3. IInv' BY <1>1, Inductive DEF Steady
<1>4. LoopsSaved'
  <2>1. TypeOK /\ FramesShaped BY DEF Steady, IInv
  <2>. QED BY <1>1, <2>1, StackStep, LoopsKept DEF Steady
<1>5. Recorded' BY RecordedStep
<1>. QED BY <1>2, <1>3, <1>4, <1>5 DEF Steady

LEMMA ToldInitially == ASSUME ExecutionInit PROVE Steady /\ Told
<1>1. /\ Init /\ program = <<>>
      /\ steps = [b \in Block |-> <<>>] /\ origin = [b \in Block |-> <<>>]
  BY DEF ExecutionInit
<1>2. IInv /\ LoopsSaved BY <1>1, Initially, LoopsInitially
<1>3. /\ function_ = 0 /\ stack = <<>> /\ parent = [b \in Block |-> 0]
      /\ code = [b \in Block |-> <<>>]
  BY <1>1 DEF Init
<1>4. Alone BY <1>1, <1>3 DEF Alone
<1>5. Recorded BY <1>1, <1>3 DEF Recorded, Tokens, Ends
<1>6. HeadsTold /\ Begun BY <1>1, <1>3 DEF HeadsTold, Begun
<1>7. Mapped(<<>>, [i \in 0..0 |-> 0])
  <2>1. Opens(stack) = {} BY <1>3 DEF Opens
  <2>2. DepthOf(program)[0] = 0 /\ Len(program) = 0
    <3>1. program \in Seq(Calls!Token) BY <1>1
    <3>. QED BY <1>1, <3>1, DepthSteps
  <2>3. AroundIn(program, Len(program) + 1) = {} BY <2>2 DEF AroundIn
  <2>4. Levels([i \in 0..0 |-> 0], stack)
    <3>1. Len(stack) = 0 BY <1>3
    <3>. QED BY <3>1 DEF Levels
  <2>5. Aligned(<<>>, [i \in 0..0 |-> 0], program, stack)
    <3>1. Len(stack) = 0 BY <1>3
    <3>. QED BY <2>1, <2>2, <2>3, <2>4, <3>1 DEF Aligned, OpenedAt
  <2>. QED BY <1>1, <1>3, <2>1, <2>5 DEF Mapped, CodeTold, LoopsTold, IfsTold
<1>. QED BY <1>2, <1>4, <1>5, <1>6, <1>7 DEF Steady, Told

-----------------------------------------------------------------------------
(* The finished function.  Every bracket has its end, nothing is owed.     *)

Ready == Steady /\ Told /\ stack = <<>> /\ ~aborted /\ function_ # 0

LEMMA CallsDepth == Calls!Depth = DepthOf(program) /\ \A p : Calls!Around(p) = AroundIn(program, p)
<1>1. Calls!Depth = DepthOf(program) BY SameCount DEF Calls!Depth, DepthOf
<1>2. \A p : Calls!Around(p) = AroundIn(program, p) BY <1>1 DEF Calls!Around, AroundIn
<1>. QED BY <1>1, <1>2

LEMMA FirstIs ==
  ASSUME NEW S, NEW p \in S, S \subseteq Int, \A q \in S : p <= q
  PROVE  Calls!First(S) = p
<1> DEFINE Least(x) == x \in S /\ \A q \in S : x <= q
<1>1. Least(p) OBVIOUS
<1>2. \A x : Least(x) => x = p
  <2>. TAKE x
  <2>. HAVE Least(x)
  <2>1. x <= p /\ p <= x /\ x \in Int /\ p \in Int OBVIOUS
  <2>. QED BY <2>1
<1>3. Calls!First(S) = CHOOSE x : Least(x) BY DEF Calls!First
<1>. HIDE DEF Least
<1>. QED BY <1>1, <1>2, <1>3

LEMMA LastIs ==
  ASSUME NEW S, NEW p, IsLast(S, p), S \subseteq Int
  PROVE  Calls!Last(S) = p
<1> DEFINE Most(x) == x \in S /\ \A q \in S : q <= x
<1>1. Most(p) BY DEF IsLast
<1>2. \A x : Most(x) => x = p
  <2>. TAKE x
  <2>. HAVE Most(x)
  <2>1. x <= p /\ p <= x /\ x \in Int /\ p \in Int BY <1>1
  <2>. QED BY <2>1
<1>3. Calls!Last(S) = CHOOSE x : Most(x) BY DEF Calls!Last
<1>. HIDE DEF Most
<1>. QED BY <1>1, <1>2, <1>3

LEMMA ReadyFacts ==
  ASSUME Ready
  PROVE  /\ program \in Tokens /\ Len(program) \in Nat \ {0} /\ DOMAIN program = 1..Len(program)
         /\ NextCall = Len(program) /\ Opens(stack) = {}
         /\ HeadsTold /\ Begun /\ \E o, l : Mapped(o, l)
         /\ DepthOf(program)[Len(program)] = 0
         /\ AroundIn(program, Len(program) + 1) = {}
<1>1. HeadsTold /\ Begun /\ \E o, l : Mapped(o, l) BY DEF Ready, Told, Doomed
<1>2. program \in Tokens /\ Len(program) \in Nat BY FramesOf DEF Ready
<1>3. program # <<>> BY <1>1 DEF Begun, Ready
<1>4. Len(program) # 0 BY <1>2, <1>3 DEF Tokens
<1>5. Len(stack) = 0 BY DEF Ready
<1>6. Opens(stack) = {} BY <1>5 DEF Opens
<1>7. PICK o, l : Aligned(o, l, program, stack) BY <1>1 DEF Mapped
<1>8. DepthOf(program)[Len(program)] = 0 BY <1>5, <1>7 DEF Aligned, Levels
<1>9. AroundIn(program, Len(program) + 1) = {} BY <1>6, <1>7 DEF Aligned
<1>10. NextCall = Len(program) BY <1>2 DEF NextCall, Ready
<1>11. DOMAIN program = 1..Len(program) BY <1>2 DEF Tokens
<1>. QED BY <1>1, <1>2, <1>4, <1>6, <1>8, <1>9, <1>10, <1>11

LEMMA BracketEnds ==
  ASSUME Ready, NEW q \in 1..Len(program), program[q] \in Calls!Openers
  PROVE  /\ \E e : EndIs(program, q, e)
         /\ \A e : EndIs(program, q, e) =>
              /\ Calls!EndOf(q) = e /\ e \in (q + 1)..Len(program)
              /\ \A p \in q..Len(program) : q \in AroundIn(program, p) => p <= e
<1>1. /\ Len(program) \in Nat \ {0} /\ q \notin AroundIn(program, Len(program) + 1)
      /\ program \in Seq(Calls!Token)
  BY ReadyFacts DEF Tokens
<1>2. \A p \in 0..Len(program) : DepthOf(program)[p] \in Int BY <1>1, DepthSteps
<1>3. PICK r \in q..Len(program) : ~(DepthOf(program)[r] >= DepthOf(program)[q])
  <2>1. q \in 1..((Len(program) + 1) - 1) /\ (Len(program) + 1) - 1 = Len(program) BY <1>1
  <2>. QED BY <1>1, <2>1 DEF AroundIn
<1> DEFINE T == {p \in (q + 1)..Len(program) : DepthOf(program)[p] < DepthOf(program)[q]}
<1>4. r \in T
  <2>1. r \in 0..Len(program) /\ q \in 0..Len(program) BY <1>1, <1>3
  <2>2. DepthOf(program)[r] \in Int /\ DepthOf(program)[q] \in Int BY <1>2, <2>1
  <2>3. r # q BY <1>3, <2>2
  <2>4. r \in (q + 1)..Len(program) BY <1>1, <1>3, <2>3
  <2>. QED BY <1>3, <2>2, <2>4
<1>5. T \subseteq Nat BY <1>1
<1>6. PICK e \in T : \A p \in T : e <= p BY <1>4, <1>5, LeastNatural
<1>7. EndIs(program, q, e)
  <2>1. e \in (q + 1)..Len(program) /\ DepthOf(program)[e] < DepthOf(program)[q] BY <1>6
  <2>2. ASSUME NEW p \in (q + 1)..(e - 1) PROVE DepthOf(program)[p] >= DepthOf(program)[q]
    <3>1. p \in (q + 1)..Len(program) /\ p \in 0..Len(program) /\ q \in 0..Len(program) /\ ~(e <= p)
      BY <1>1, <2>1, <2>2
    <3>2. p \notin T BY <1>6, <3>1
    <3>3. DepthOf(program)[p] \in Int /\ DepthOf(program)[q] \in Int BY <1>2, <3>1
    <3>. QED BY <3>1, <3>2, <3>3
  <2>. QED BY <2>1, <2>2 DEF EndIs
<1>8. ASSUME NEW f, EndIs(program, q, f)
      PROVE  /\ Calls!EndOf(q) = f /\ f \in (q + 1)..Len(program)
             /\ \A p \in q..Len(program) : q \in AroundIn(program, p) => p <= f
  <2>1. f \in (q + 1)..Len(program) /\ DepthOf(program)[f] < DepthOf(program)[q] BY <1>8 DEF EndIs
  <2>2. f \in T BY <2>1
  <2>3. \A p \in T : f <= p
    <3>. SUFFICES ASSUME NEW p \in T, ~(f <= p) PROVE FALSE OBVIOUS
    <3>1. p \in (q + 1)..(f - 1) BY <1>1, <2>1
    <3>2. DepthOf(program)[p] >= DepthOf(program)[q] BY <1>8, <3>1 DEF EndIs
    <3>3. p \in 0..Len(program) /\ q \in 0..Len(program) BY <1>1
    <3>4. DepthOf(program)[p] \in Int /\ DepthOf(program)[q] \in Int BY <1>2, <3>3
    <3>. QED BY <3>2, <3>4
  <2>4. T \subseteq Int BY <1>5
  <2>5. Calls!EndOf(q) = Calls!First(T) BY CallsDepth DEF Calls!EndOf
  <2>6. Calls!EndOf(q) = f
    <3>. HIDE DEF T
    <3>. QED BY <2>2, <2>3, <2>4, <2>5, FirstIs
  <2>7. ASSUME NEW p \in q..Len(program), q \in AroundIn(program, p), ~(p <= f) PROVE FALSE
    <3>1. f \in q..(p - 1) BY <1>1, <2>1, <2>7
    <3>2. DepthOf(program)[f] >= DepthOf(program)[q] BY <2>7, <3>1 DEF AroundIn
    <3>3. f \in 0..Len(program) /\ q \in 0..Len(program) BY <1>1, <2>1
    <3>4. DepthOf(program)[f] \in Int /\ DepthOf(program)[q] \in Int BY <1>2, <3>3
    <3>. QED BY <2>1, <3>2, <3>4
  <2>. QED BY <2>1, <2>6, <2>7
<1>. QED BY <1>7, <1>8

LEMMA CallsMeaning ==
  ASSUME Ready, NEW q \in 1..Len(program)
  PROVE  /\ \A l : OpenerIs(program, q, l) =>
              /\ Calls!Opener(q) = l /\ l \in 1..(q - 1) /\ l \in 1..Len(program)
              /\ program[l] \in Calls!Openers /\ l \in AroundIn(program, q)
         /\ \A l : LoopIs(program, q, l) =>
              /\ Calls!Loop(q) = l /\ l \in 1..(q - 1) /\ l \in 1..Len(program)
              /\ program[l] = "while" /\ l \in AroundIn(program, q)
         /\ program[q] \in Calls!Openers => \A p : DivideIs(program, q, p) => Calls!Otherwise(q) = p
<1>1. Len(program) \in Nat \ {0} BY ReadyFacts
<1>2. \A p \in 1..Len(program) : \A l \in AroundIn(program, p) :
        l \in 1..(p - 1) /\ l \in 1..Len(program) /\ program[l] \in Calls!Openers
  BY <1>1 DEF AroundIn
<1>3. \A p \in 1..Len(program) : AroundIn(program, p) \subseteq Int BY <1>2
<1>4. ASSUME NEW p \in 1..Len(program), NEW l, OpenerIs(program, p, l)
      PROVE  Calls!Opener(p) = l /\ l \in AroundIn(program, p)
  <2>1. IsLast(AroundIn(program, p), l) BY <1>4 DEF OpenerIs
  <2>2. Calls!Last(AroundIn(program, p)) = l BY <1>3, <2>1, LastIs
  <2>. QED BY <2>1, <2>2, CallsDepth DEF Calls!Opener, IsLast
<1>5. ASSUME NEW l, LoopIs(program, q, l)
      PROVE  Calls!Loop(q) = l /\ program[l] = "while" /\ l \in AroundIn(program, q)
  <2>1. PICK S : S = {r \in AroundIn(program, q) : program[r] = "while"} OBVIOUS
  <2>2. IsLast(S, l) /\ S \subseteq Int BY <1>3, <1>5, <2>1 DEF LoopIs
  <2>3. Calls!Last(S) = l BY <2>2, LastIs
  <2>. QED BY <2>1, <2>2, <2>3, CallsDepth DEF Calls!Loop, IsLast
<1>6. ASSUME program[q] \in Calls!Openers, NEW p, DivideIs(program, q, p)
      PROVE  Calls!Otherwise(q) = p
  <2>1. PICK e : EndIs(program, q, e) BY <1>6, BracketEnds
  <2>2. /\ Calls!EndOf(q) = e /\ e \in (q + 1)..Len(program)
        /\ \A r \in q..Len(program) : q \in AroundIn(program, r) => r <= e
    BY <1>6, <2>1, BracketEnds
  <2>3. /\ p \in q..Len(program) /\ Divides(program, q, p)
        /\ \A r \in q..(p - 1) : ~Divides(program, q, r)
    BY <1>6 DEF DivideIs
  <2>4. \A r \in q..Len(program) : r \in 1..Len(program) BY <1>1
  <2>5. p <= e /\ Calls!Opener(p) = q
    <3>1. p \in 1..Len(program) /\ OpenerIs(program, p, q) BY <2>3, <2>4 DEF Divides
    <3>2. Calls!Opener(p) = q /\ q \in AroundIn(program, p) BY <1>4, <3>1
    <3>. QED BY <2>2, <2>3, <3>2
  <2>6. PICK T : T = {r \in q..e : program[r] \in {"else", "end"} /\ Calls!Opener(r) = q} OBVIOUS
  <2>7. p \in T BY <1>1, <2>2, <2>3, <2>5, <2>6 DEF Divides
  <2>8. T \subseteq Int BY <1>1, <2>2, <2>6
  <2>9. ASSUME NEW r \in T, ~(p <= r) PROVE FALSE
    <3>1. r \in q..(p - 1) /\ r \in 1..Len(program) BY <1>1, <2>2, <2>3, <2>6, <2>9
    <3>2. program[r] \in {"else", "end"} /\ Calls!Opener(r) = q BY <2>6, <2>9
    <3>3. ~OpenerIs(program, r, q) BY <2>3, <3>1, <3>2 DEF Divides
    <3>4. q \in AroundIn(program, r)
      <4>1. q \in AroundIn(program, p) BY <1>4, <2>3, <2>4 DEF Divides
      <4>2. /\ q \in 1..(p - 1) /\ program[q] \in Calls!Openers
            /\ \A d \in q..(p - 1) : DepthOf(program)[d] >= DepthOf(program)[q]
        BY <4>1 DEF AroundIn
      <4>3. r # q BY <1>6, <3>2 DEF Calls!Openers
      <4>4. q \in 1..(r - 1) BY <1>1, <3>1, <4>3
      <4>5. \A d \in q..(r - 1) : d \in q..(p - 1) BY <1>1, <2>3, <3>1
      <4>. QED BY <4>2, <4>4, <4>5 DEF AroundIn
    <3>5. \E l : OpenerIs(program, r, l)
      <4>1. PICK A : A = AroundIn(program, r) OBVIOUS
      <4>2. PICK B : B = {(r - l) : l \in A} OBVIOUS
      <4>3. \A l \in A : l \in 1..(r - 1) /\ l \in Int BY <1>2, <3>1, <4>1
      <4>4. B \subseteq Nat /\ B # {}
        <5>1. \A l \in A : r - l \in Nat BY <3>1, <4>3
        <5>. QED BY <3>4, <4>1, <4>2, <5>1
      <4>5. PICK x \in B : \A y \in B : x <= y BY <4>4, LeastNatural
      <4>6. PICK l \in A : x = r - l BY <4>2
      <4>7. \A m \in A : m <= l
        <5>. TAKE m \in A
        <5>1. r - l <= r - m BY <4>2, <4>5, <4>6
        <5>2. l \in Int /\ m \in Int /\ r \in Int BY <3>1, <4>3
        <5>. QED BY <5>1, <5>2
      <4>. QED BY <4>1, <4>7 DEF OpenerIs, IsLast
    <3>. QED BY <1>4, <3>1, <3>2, <3>3, <3>5
  <2>10. Calls!Otherwise(q) = Calls!First(T) BY <2>2, <2>6 DEF Calls!Otherwise
  <2>. QED BY <2>7, <2>8, <2>9, <2>10, FirstIs
<1>. QED BY <1>2, <1>4, <1>5, <1>6

-----------------------------------------------------------------------------
(* Going on in the calls.                                                  *)

LEMMA ComesWhere ==
  ASSUME Ready, NEW o, NEW l, Mapped(o, l), NEW b, NEW i, NEW q, Comes(b, i, q)
  PROVE  /\ q \in 1..Len(program)
         /\ i \in DOMAIN steps[b] => Carries(o, steps[b][i], q, b, i)
         /\ i \notin DOMAIN steps[b] => q = Len(program)
<1>1. Len(program) \in Nat \ {0} /\ NextCall = Len(program) BY ReadyFacts
<1>2. b \in Block /\ Live(b, i) /\ CallIn(b, i) = q BY DEF Comes, Live
<1>3. CASE i \in DOMAIN steps[b]
  <2>1. origin[b][i] = q BY <1>2, <1>3 DEF CallIn
  <2>2. Carries(o, steps[b][i], q, b, i) BY <1>2, <1>3, <2>1 DEF Mapped, CodeTold
  <2>. QED BY <1>3, <2>2 DEF Carries
<1>4. CASE i \notin DOMAIN steps[b] BY <1>1, <1>2, <1>4 DEF CallIn
<1>. QED BY <1>3, <1>4

LEMMA Directed ==
  ASSUME Ready, NEW o, NEW l, Mapped(o, l), NEW q \in 1..Len(program), NEW t, Directs(o, q, t)
  PROVE  \E y \in 1..Len(program) :
           /\ Calls!Onward(q) = y /\ y # q
           /\ \/ y > q /\ Comes(t, 1, y)
              \/ program[q] # "while" /\ program[y] = "while" /\ Comes(t, 1, y + 1)
<1>1. Len(program) \in Nat \ {0} /\ DOMAIN program = 1..Len(program) /\ Opens(stack) = {} BY ReadyFacts
<1>2. q \in Nat /\ q # 0 BY <1>1
<1>3. \A y : Comes(t, 1, y) => y \in 1..Len(program) BY ComesWhere
<1>4. ASSUME NEW p, OpenerIs(program, q, p) \/ LoopIs(program, q, p), Past(o, p, t)
      PROVE  \E e : /\ Calls!EndOf(p) = e /\ e + 1 \in 1..Len(program) /\ e + 1 > q
                    /\ Comes(t, 1, e + 1)
  <2>1. PICK e : EndIs(program, p, e) /\ Comes(t, 1, e + 1) BY <1>1, <1>4 DEF Past
  <2>2. /\ p \in 1..(q - 1) /\ p \in 1..Len(program) /\ program[p] \in Calls!Openers
        /\ p \in AroundIn(program, q)
    BY <1>4, CallsMeaning DEF Calls!Openers
  <2>3. q \in p..Len(program) BY <1>2, <2>2
  <2>4. Calls!EndOf(p) = e /\ e \in (p + 1)..Len(program) /\ q <= e BY <2>1, <2>2, <2>3, BracketEnds
  <2>5. e + 1 > q BY <1>1, <1>2, <2>2, <2>4
  <2>. QED BY <1>3, <2>1, <2>4, <2>5
<1>5. CASE program[q] = "while" /\ Comes(t, 1, q + 1)
  <2>1. Calls!Onward(q) = q + 1 BY <1>1, <1>5 DEF Calls!Onward, Calls!Is
  <2>. QED BY <1>2, <1>3, <1>5, <2>1
<1>6. ASSUME program[q] = "else", NEW p, OpenerIs(program, q, p), Past(o, p, t)
      PROVE  \E y \in 1..Len(program) : Calls!Onward(q) = y /\ y # q /\ y > q /\ Comes(t, 1, y)
  <2>1. PICK e : /\ Calls!EndOf(p) = e /\ e + 1 \in 1..Len(program) /\ e + 1 > q
                 /\ Comes(t, 1, e + 1)
    BY <1>4, <1>6
  <2>2. Calls!Opener(q) = p BY <1>6, CallsMeaning
  <2>3. Calls!Onward(q) = e + 1 BY <1>1, <1>6, <2>1, <2>2 DEF Calls!Onward, Calls!Is
  <2>. QED BY <1>2, <2>1, <2>3
<1>7. ASSUME program[q] = "break", NEW p, LoopIs(program, q, p), Past(o, p, t)
      PROVE  \E y \in 1..Len(program) : Calls!Onward(q) = y /\ y # q /\ y > q /\ Comes(t, 1, y)
  <2>1. PICK e : /\ Calls!EndOf(p) = e /\ e + 1 \in 1..Len(program) /\ e + 1 > q
                 /\ Comes(t, 1, e + 1)
    BY <1>4, <1>7
  <2>2. Calls!Loop(q) = p BY <1>7, CallsMeaning
  <2>3. Calls!Onward(q) = e + 1 BY <1>1, <1>7, <2>1, <2>2 DEF Calls!Onward, Calls!Is
  <2>. QED BY <1>2, <2>1, <2>3
<1>8. ASSUME program[q] = "continue", NEW p, LoopIs(program, q, p), Comes(t, 1, p + 1)
      PROVE  \E y \in 1..Len(program) : /\ Calls!Onward(q) = y /\ y # q
                                        /\ program[y] = "while" /\ Comes(t, 1, y + 1)
  <2>1. Calls!Loop(q) = p /\ p \in 1..(q - 1) /\ p \in 1..Len(program) /\ program[p] = "while"
    BY <1>8, CallsMeaning
  <2>2. Calls!Onward(q) = p BY <1>1, <1>8, <2>1 DEF Calls!Onward, Calls!Is
  <2>3. p # q BY <1>2, <2>1
  <2>. QED BY <1>8, <2>1, <2>2, <2>3
<1>9. ASSUME program[q] = "end", NEW p, OpenerIs(program, q, p), program[p] = "if", Comes(t, 1, q + 1)
      PROVE  \E y \in 1..Len(program) : Calls!Onward(q) = y /\ y # q /\ y > q /\ Comes(t, 1, y)
  <2>1. Calls!Opener(q) = p BY <1>9, CallsMeaning
  <2>2. Calls!Onward(q) = q + 1 BY <1>1, <1>9, <2>1 DEF Calls!Onward, Calls!Is
  <2>. QED BY <1>2, <1>3, <1>9, <2>2
<1>10. ASSUME program[q] = "end", NEW p, OpenerIs(program, q, p), program[p] = "while",
              Comes(t, 1, p + 1)
       PROVE  \E y \in 1..Len(program) : /\ Calls!Onward(q) = y /\ y # q
                                         /\ program[y] = "while" /\ Comes(t, 1, y + 1)
  <2>1. Calls!Opener(q) = p /\ p \in 1..(q - 1) /\ p \in 1..Len(program) BY <1>10, CallsMeaning
  <2>2. Calls!Onward(q) = p BY <1>1, <1>10, <2>1 DEF Calls!Onward, Calls!Is
  <2>3. p # q BY <1>2, <2>1
  <2>. QED BY <1>10, <2>1, <2>2, <2>3
<1>11. CASE program[q] = "else" BY <1>6, <1>11 DEF Directs
<1>12. CASE program[q] = "break" BY <1>7, <1>12 DEF Directs
<1>13. CASE program[q] = "continue" BY <1>8, <1>13 DEF Directs
<1>14. CASE program[q] = "end" BY <1>9, <1>10, <1>14 DEF Directs
<1>15. CASE program[q] = "while" BY <1>5, <1>15 DEF Directs
<1>. QED BY <1>11, <1>12, <1>13, <1>14, <1>15 DEF Directs

LEMMA StaysPut ==
  ASSUME Ready, NEW q \in 1..Len(program), program[q] \in Calls!Resting \/ q = Len(program)
  PROVE  Calls!Onward(q) = q
<1>1. Len(program) \in Nat \ {0} /\ DOMAIN program = 1..Len(program) /\ Begun BY ReadyFacts
<1>2. CASE program[q] \in Calls!Resting
  BY <1>2 DEF Calls!Resting, Calls!Onward, Calls!Is
<1>3. CASE q = Len(program)
  <2>1. program[q] = "end" /\ \E p : OpenerIs(program, q, p) /\ program[p] = "function"
    BY <1>1, <1>3 DEF Begun, Ready
  <2>2. program[Calls!Opener(q)] = "function" BY <2>1, CallsMeaning
  <2>. QED BY <1>1, <2>1, <2>2 DEF Calls!Onward, Calls!Is
<1>4. program[q] \in Calls!Resting \/ q = Len(program) OBVIOUS
<1>. QED BY <1>2, <1>3, <1>4, Zenon

(* The calls control can come to.                                          *)
Met ==
  {q \in 1..Len(program) : \/ \E b, i : Comes(b, i, q)
                           \/ program[q] = "while" /\ \E b : Comes(b, 1, q + 1)}

LEMMA MetOnward ==
  ASSUME Ready, NEW q \in Met
  PROVE  /\ Calls!Onward(q) \in Met
         /\ Calls!Onward(q) # q =>
              \/ program[q] = "while" /\ Calls!Onward(q) = q + 1
              \/ program[q] # "while" /\ Calls!Onward(q) > q
              \/ program[q] # "while" /\ program[Calls!Onward(q)] = "while"
<1>1. /\ Len(program) \in Nat \ {0} /\ DOMAIN program = 1..Len(program)
      /\ \E o, l : Mapped(o, l)
  BY ReadyFacts
<1>2. PICK o, l : Mapped(o, l) BY <1>1
<1>3. q \in 1..Len(program) BY DEF Met
<1>4. ASSUME program[q] = "while", NEW b, Comes(b, 1, q + 1) PROVE q + 1 \in Met
  <2>1. q + 1 \in 1..Len(program) BY <1>2, <1>4, ComesWhere
  <2>. QED BY <1>4, <2>1 DEF Met
<1>5. program[q] = "while" => Calls!Onward(q) = q + 1
  BY <1>1, <1>3 DEF Calls!Onward, Calls!Is
<1>6. ASSUME program[q] = "while", NEW b, Comes(b, 1, q + 1)
      PROVE  Calls!Onward(q) \in Met /\ Calls!Onward(q) = q + 1
  BY <1>4, <1>5, <1>6
<1>7. ASSUME NEW b, NEW i, Comes(b, i, q) PROVE
         /\ Calls!Onward(q) \in Met
         /\ Calls!Onward(q) # q =>
              \/ program[q] = "while" /\ Calls!Onward(q) = q + 1
              \/ program[q] # "while" /\ Calls!Onward(q) > q
              \/ program[q] # "while" /\ program[Calls!Onward(q)] = "while"
  <2>1. CASE program[q] \in Calls!Resting \/ q = Len(program)
    BY <1>3, <2>1, StaysPut
  <2>2. CASE ~(program[q] \in Calls!Resting \/ q = Len(program))
    <3>1. i \in DOMAIN steps[b] /\ Carries(o, steps[b][i], q, b, i)
      BY <1>2, <1>7, <2>2, ComesWhere
    <3>2. PICK t : Directs(o, q, t)
      BY <2>2, <3>1 DEF Carries, Decides, Calls!Resting
    <3>3. PICK y \in 1..Len(program) :
             /\ Calls!Onward(q) = y /\ y # q
             /\ \/ y > q /\ Comes(t, 1, y)
                \/ program[q] # "while" /\ program[y] = "while" /\ Comes(t, 1, y + 1)
      BY <1>2, <1>3, <3>2, Directed
    <3>4. y \in Met BY <3>3 DEF Met
    <3>. QED BY <1>5, <3>3, <3>4
  <2>. QED BY <2>1, <2>2
<1>. QED BY <1>6, <1>7 DEF Met

LEMMA Settling ==
  ASSUME Ready
  PROVE  \A q \in Met : /\ Calls!Settled(q) = Calls!Settled(Calls!Onward(q))
                        /\ Calls!Onward(q) = q => Calls!Settled(q) = q
                        /\ Calls!Settled(q) \in Met
<1>1. Len(program) \in Nat \ {0} /\ DOMAIN program = 1..Len(program) /\ HeadsTold BY ReadyFacts
<1>2. PICK N : N = Len(program) OBVIOUS
<1>3. N \in Nat /\ N # 0 BY <1>1, <1>2
<1>4. IsFiniteSet(Met) /\ Cardinality(Met) <= N + 1
  <2>1. IsFiniteSet(1..N) /\ Cardinality(1..N) = N
    BY <1>3, FS_Interval
  <2>2. Met \subseteq 1..N BY <1>2 DEF Met
  <2>3. /\ IsFiniteSet(Met) /\ Cardinality(Met) <= Cardinality(1..N)
        /\ Cardinality(Met) \in Nat
    BY <2>1, <2>2, FS_Subset, FS_CardinalityType
  <2>. QED BY <1>3, <2>1, <2>3
<1>5. PICK O : O = [q \in Met |-> Calls!Onward(q)] OBVIOUS
<1>6. O \in [Met -> Met] BY <1>5, MetOnward
<1>7. PICK rank : rank = [q \in Met |-> IF O[q] = q THEN 0
                                        ELSE IF program[q] = "while" THEN (1 + N) - q
                                        ELSE (3 * N + 1) - q]
  OBVIOUS
<1>8. \A q \in Met : q \in 1..N /\ q \in Nat /\ q # 0 /\ q <= N BY <1>2, <1>3 DEF Met
<1>9. rank \in [Met -> Nat]
  <2>1. \A q \in Met : (1 + N) - q \in Nat /\ (3 * N + 1) - q \in Nat BY <1>3, <1>8
  <2>. QED BY <1>7, <2>1
<1>10. ASSUME NEW q \in Met, O[q] # q PROVE rank[O[q]] < rank[q]
  <2>1. PICK y \in Met : y = O[q] /\ y = Calls!Onward(q) BY <1>5, <1>6, <1>10
  <2>2. /\ q \in Nat /\ q # 0 /\ q <= N /\ y \in Nat /\ y # 0 /\ y <= N /\ y \in 1..N
    BY <1>8
  <2>3. rank[q] = IF program[q] = "while" THEN (1 + N) - q ELSE (3 * N + 1) - q
    BY <1>7, <1>10
  <2>4. rank[y] = IF O[y] = y THEN 0
                  ELSE IF program[y] = "while" THEN (1 + N) - y ELSE (3 * N + 1) - y
    BY <1>7
  <2>5. \/ program[q] = "while" /\ y = q + 1
        \/ program[q] # "while" /\ y > q
        \/ program[q] # "while" /\ program[y] = "while"
    BY <1>10, <2>1, MetOnward
  <2>6. CASE program[q] = "while" /\ y = q + 1
    <3>1. q \in 1..(Len(program) - 1) BY <1>2, <2>2, <2>6
    <3>2. program[y] \in {"statement", "if", "while", "do"} BY <1>1, <2>6, <3>1 DEF HeadsTold
    <3>3. rank[q] = (1 + N) - q BY <2>3, <2>6
    <3>4. CASE program[y] = "while"
      <4>1. rank[y] = 0 \/ rank[y] = (1 + N) - y BY <2>4, <3>4
      <4>. QED BY <1>3, <2>1, <2>2, <2>6, <3>3, <4>1
    <3>5. CASE program[y] # "while"
      <4>1. program[y] \in Calls!Resting BY <3>2, <3>5 DEF Calls!Resting
      <4>2. Calls!Onward(y) = y BY <1>2, <2>2, <4>1, StaysPut
      <4>3. rank[y] = 0 BY <1>5, <2>4, <4>2
      <4>. QED BY <1>3, <2>1, <2>2, <2>6, <3>3, <4>3
    <3>. QED BY <3>4, <3>5
  <2>7. CASE program[q] # "while" /\ y > q
    <3>1. rank[q] = (3 * N + 1) - q BY <2>3, <2>7
    <3>2. rank[y] = 0 \/ rank[y] = (1 + N) - y \/ rank[y] = (3 * N + 1) - y BY <2>4
    <3>. QED BY <1>3, <2>1, <2>2, <2>7, <3>1, <3>2
  <2>8. CASE program[q] # "while" /\ program[y] = "while"
    <3>1. rank[q] = (3 * N + 1) - q BY <2>3, <2>8
    <3>2. rank[y] = 0 \/ rank[y] = (1 + N) - y BY <2>4, <2>8
    <3>. QED BY <1>3, <2>1, <2>2, <3>1, <3>2
  <2>. QED BY <2>5, <2>6, <2>7, <2>8
<1>11. PICK R \in [Met -> Met] : RestsAt(R, O, Met, N)
  <2>1. PICK V : V = Met OBVIOUS
  <2>2. IsFiniteSet(V) /\ Cardinality(V) <= N + 1 /\ O \in [V -> V] /\ rank \in [V -> Nat]
    BY <1>4, <1>6, <1>9, <2>1
  <2>3. \A q \in V : O[q] # q => rank[O[q]] < rank[q] BY <1>10, <2>1
  <2>4. \E R \in [V -> V] : RestsAt(R, O, V, N) BY <1>3, <2>2, <2>3, OrbitSettles
  <2>. QED BY <2>1, <2>4
<1>12. ASSUME NEW p \in Met PROVE Calls!Settled(p) = R[p]
  <2>1. PICK g \in [0..N -> Met] : /\ g[0] = p /\ g[N] = R[p]
                                   /\ \A n \in 1..N : g[n] = O[g[n - 1]]
    BY <1>11, <1>12 DEF RestsAt
  <2> DEFINE Is(h) == h = [n \in 0..N |-> IF n = 0 THEN {p} ELSE {Calls!Onward(q) : q \in h[n - 1]}]
             h == CHOOSE f : Is(f)
  <2>2. \A n \in 1..N : n - 1 \in 0..N /\ n \in 0..N BY <1>3
  <2>3. \A n \in 1..N : g[n] = Calls!Onward(g[n - 1]) BY <1>5, <2>1, <2>2
  <2>4. PICK f : f = [n \in 0..N |-> {g[n]}] OBVIOUS
  <2>5. \A n \in 1..N : f[n - 1] = {g[n - 1]} BY <2>2, <2>4
  <2>6. ASSUME NEW n \in 0..N
        PROVE  f[n] = IF n = 0 THEN {p} ELSE {Calls!Onward(q) : q \in f[n - 1]}
    <3>1. CASE n = 0 BY <1>3, <2>1, <2>4, <3>1
    <3>2. CASE n # 0
      <4>1. n \in 1..N BY <1>3, <3>2
      <4>2. f[n] = {g[n]} /\ f[n - 1] = {g[n - 1]} /\ g[n] = Calls!Onward(g[n - 1])
        BY <2>3, <2>4, <2>5, <4>1
      <4>. QED BY <3>2, <4>2
    <3>. QED BY <3>1, <3>2
  <2>7. Is(f) BY <2>4, <2>6
  <2>8. Is(h) BY <2>7
  <2>14. PICK k : k = h OBVIOUS
  <2>15. k = [n \in 0..N |-> IF n = 0 THEN {p} ELSE {Calls!Onward(q) : q \in k[n - 1]}]
    BY <2>8, <2>14
  <2>9. k[0] = {g[0]}
    <3>1. 0 \in 0..N BY <1>3
    <3>2. k[0] = IF 0 = 0 THEN {p} ELSE {Calls!Onward(q) : q \in k[0 - 1]} BY <2>15, <3>1
    <3>. QED BY <2>1, <3>2
  <2>10. ASSUME NEW n \in 1..N, k[n - 1] = {g[n - 1]} PROVE k[n] = {g[n]}
    <3>1. n \in 0..N /\ n # 0 BY <1>3
    <3>2. k[n] = IF n = 0 THEN {p} ELSE {Calls!Onward(q) : q \in k[n - 1]} BY <2>15, <3>1
    <3>3. k[n] = {Calls!Onward(g[n - 1])} BY <2>10, <3>1, <3>2
    <3>. QED BY <2>3, <3>3
  <2>11. Calls!Settled(p) = CHOOSE q \in k[N] : TRUE BY <1>2, <2>14 DEF Calls!Settled
  <2>. HIDE DEF h, Is
  <2>12. k[N] = {g[N]} BY <1>3, <2>9, <2>10, OneByOne
  <2>. QED BY <2>1, <2>11, <2>12
<1>13. ASSUME NEW q \in Met
       PROVE  /\ Calls!Settled(q) = Calls!Settled(Calls!Onward(q))
              /\ Calls!Onward(q) = q => Calls!Settled(q) = q
              /\ Calls!Settled(q) \in Met
  <2>1. O[q] = Calls!Onward(q) /\ O[q] \in Met BY <1>5, <1>6
  <2>2. R[O[q]] = R[q] BY <1>11 DEF RestsAt
  <2>3. ASSUME O[q] = q PROVE R[q] = q
    <3>1. {q} \in SUBSET Met /\ q \in {q} /\ \A p \in {q} : O[p] \in {q} BY <2>3
    <3>2. R[q] \in {q} BY <1>11, <3>1 DEF RestsAt
    <3>. QED BY <3>2
  <2>. QED BY <1>12, <2>1, <2>2, <2>3
<1>. QED BY <1>13

-----------------------------------------------------------------------------
(* Going on in the code, from block to block, follows the calls and comes  *)
(* to rest where they do.                                                  *)

Point(b, i) == [block |-> b, index |-> i]
Moves(b, i) == i \in DOMAIN steps[b] /\ steps[b][i].op = "br"
AfterWhile == {"statement", "if", "while", "do"}

LEMMA LivePoint ==
  ASSUME Ready, NEW b, NEW i, Live(b, i)
  PROVE  /\ Point(b, i) \notin {Idle, Finished} /\ b \in Block
         /\ FellOff(Point(b, i)) <=> i \notin DOMAIN steps[b]
         /\ Current(Point(b, i)) = steps[b][i]
         /\ CallAt(Point(b, i)) = CallIn(b, i)
<1>1. b \in Block /\ i \in 1..(Len(steps[b]) + 1) BY DEF Live
<1>2. Len(steps[b]) \in Nat /\ DOMAIN steps[b] = 1..Len(steps[b])
  BY <1>1, StepTypes DEF Ready, Steady, IInv
<1>3. Point(b, i).block = b /\ Point(b, i).index = i BY DEF Point
<1>4. Idle.block = 0 /\ Finished.block = 0 /\ b # 0 BY <1>1 DEF Idle, Finished, Block
<1>5. Point(b, i) \notin {Idle, Finished} BY <1>3, <1>4
<1>6. FellOff(Point(b, i)) <=> i \notin DOMAIN steps[b] BY <1>1, <1>2, <1>3 DEF FellOff
<1>7. CallAt(Point(b, i)) = CallIn(b, i)
  <2>1. NextCall = Len(program) BY ReadyFacts
  <2>. QED BY <1>3, <1>5, <1>6, <2>1 DEF CallAt, CallIn
<1>. QED BY <1>1, <1>3, <1>5, <1>6, <1>7 DEF Current

LEMMA Hopping ==
  ASSUME Ready, NEW b, NEW i, Live(b, i), NEW q, q = CallIn(b, i)
  PROVE  /\ q \in Met
         /\ ~Moves(b, i) => Onward(Point(b, i)) = {Point(b, i)} /\ Calls!Settled(q) = q
         /\ Moves(b, i) =>
              \E t : /\ Live(t, 1) /\ Onward(Point(b, i)) = {Point(t, 1)}
                     /\ program[q] \notin AfterWhile \ {"while"}
                     /\ Calls!Settled(CallIn(t, 1)) = Calls!Settled(q)
                     /\ \/ CallIn(t, 1) > q
                        \/ program[q] # "while" /\ program[CallIn(t, 1)] \in AfterWhile
                     /\ program[q] = "while" => program[CallIn(t, 1)] \in AfterWhile
<1>1. /\ Len(program) \in Nat \ {0} /\ DOMAIN program = 1..Len(program) /\ HeadsTold
      /\ \E o, l : Mapped(o, l)
  BY ReadyFacts
<1>2. PICK o, l : Mapped(o, l) BY <1>1
<1>3. Comes(b, i, q) BY DEF Comes
<1>4. q \in Met /\ q \in 1..Len(program) BY <1>2, <1>3, ComesWhere DEF Met
<1>5. /\ Point(b, i) \notin {Idle, Finished} /\ b \in Block
      /\ FellOff(Point(b, i)) <=> i \notin DOMAIN steps[b]
      /\ Current(Point(b, i)) = steps[b][i]
  BY LivePoint
<1>6. ASSUME ~Moves(b, i) PROVE Onward(Point(b, i)) = {Point(b, i)} /\ Calls!Settled(q) = q
  <2>1. Onward(Point(b, i)) = {Point(b, i)} BY <1>5, <1>6 DEF Onward, Moves
  <2>2. program[q] \in Calls!Resting \/ q = Len(program)
    <3>1. CASE i \in DOMAIN steps[b]
      <4>1. Carries(o, steps[b][i], q, b, i) BY <1>2, <1>3, <3>1, ComesWhere
      <4>. QED BY <1>6, <3>1, <4>1 DEF Moves, Carries, Decides, Calls!Resting
    <3>2. CASE i \notin DOMAIN steps[b] BY <1>2, <1>3, <3>2, ComesWhere
    <3>. QED BY <3>1, <3>2
  <2>3. Calls!Onward(q) = q BY <1>4, <2>2, StaysPut
  <2>. QED BY <1>4, <2>1, <2>3, Settling
<1>7. ASSUME Moves(b, i)
      PROVE  \E t : /\ Live(t, 1) /\ Onward(Point(b, i)) = {Point(t, 1)}
                    /\ program[q] \notin AfterWhile \ {"while"}
                    /\ Calls!Settled(CallIn(t, 1)) = Calls!Settled(q)
                    /\ \/ CallIn(t, 1) > q
                       \/ program[q] # "while" /\ program[CallIn(t, 1)] \in AfterWhile
                    /\ program[q] = "while" => program[CallIn(t, 1)] \in AfterWhile
  <2>1. i \in DOMAIN steps[b] /\ steps[b][i].op = "br" BY <1>7 DEF Moves
  <2>2. Carries(o, steps[b][i], q, b, i) BY <1>2, <1>3, <2>1, ComesWhere
  <2>3. PICK t : steps[b][i].to = {t} /\ Directs(o, q, t) BY <2>1, <2>2 DEF Carries
  <2>4. Onward(Point(b, i)) = {Point(t, 1)}
    BY <1>5, <2>1, <2>3 DEF Onward, Point
  <2>5. program[q] \notin AfterWhile \ {"while"} BY <2>3 DEF Directs, AfterWhile
  <2>6. PICK y \in 1..Len(program) :
           /\ Calls!Onward(q) = y /\ y # q
           /\ \/ y > q /\ Comes(t, 1, y)
              \/ program[q] # "while" /\ program[y] = "while" /\ Comes(t, 1, y + 1)
    BY <1>2, <1>4, <2>3, Directed
  <2>7. Calls!Settled(q) = Calls!Settled(y) BY <1>4, <2>6, Settling
  <2>8. CASE y > q /\ Comes(t, 1, y)
    <3>1. CallIn(t, 1) = y /\ Live(t, 1) BY <2>8 DEF Comes
    <3>2. program[q] = "while" => program[y] \in AfterWhile
      <4>. SUFFICES ASSUME program[q] = "while" PROVE program[y] \in AfterWhile OBVIOUS
      <4>1. y = q + 1 BY <1>1, <1>4, <2>6 DEF Calls!Onward, Calls!Is
      <4>2. q \in 1..(Len(program) - 1) BY <1>1, <1>4, <2>6, <4>1
      <4>. QED BY <1>1, <4>1, <4>2 DEF HeadsTold, AfterWhile
    <3>. QED BY <2>4, <2>5, <2>7, <2>8, <3>1, <3>2
  <2>9. CASE program[q] # "while" /\ program[y] = "while" /\ Comes(t, 1, y + 1)
    <3>1. CallIn(t, 1) = y + 1 /\ Live(t, 1) BY <2>9 DEF Comes
    <3>2. y + 1 \in 1..Len(program) BY <1>2, <2>9, ComesWhere
    <3>3. y \in 1..(Len(program) - 1) BY <1>1, <2>6, <3>2
    <3>4. program[y + 1] \in AfterWhile BY <1>1, <2>9, <3>3 DEF HeadsTold, AfterWhile
    <3>5. y \in Met BY <2>6, <2>9 DEF Met
    <3>6. Calls!Onward(y) = y + 1 BY <1>1, <2>6, <2>9 DEF Calls!Onward, Calls!Is
    <3>7. Calls!Settled(y) = Calls!Settled(y + 1) BY <3>5, <3>6, Settling
    <3>. QED BY <2>4, <2>5, <2>7, <2>9, <3>1, <3>4, <3>7
  <2>. QED BY <2>6, <2>8, <2>9
<1>. QED BY <1>4, <1>6, <1>7

LEMMA AheadSettles ==
  ASSUME Ready, NEW b, NEW i, Live(b, i)
  PROVE  Ahead(Point(b, i)) = Calls!Settled(CallIn(b, i))
<1>1. PICK c : c = Point(b, i) OBVIOUS
<1>2. PICK N : N = MaxBlocks OBVIOUS
<1>3. N \in Nat /\ Block = 1..N BY <1>2, BoundsAssumption DEF Block
<1> DEFINE Good(d) == \E x, k : Live(x, k) /\ d = Point(x, k)
           V == {c} \cup {Point(x, 1) : x \in {x \in Block : Live(x, 1)}}
           Call(d) == CallIn(d.block, d.index)
           Hop(d) == CHOOSE e : Onward(d) = {e}
<1>4. \A d \in V : /\ d = Point(d.block, d.index) /\ Live(d.block, d.index)
                   /\ CallAt(d) = Call(d) /\ Call(d) \in Nat /\ Call(d) <= Len(program)
  <2>. SUFFICES ASSUME NEW d \in V
                PROVE  /\ d = Point(d.block, d.index) /\ Live(d.block, d.index)
                       /\ CallAt(d) = Call(d) /\ Call(d) \in Nat /\ Call(d) <= Len(program)
    OBVIOUS
  <2>1. PICK x, k : Live(x, k) /\ d = Point(x, k) BY <1>1
  <2>2. d.block = x /\ d.index = k BY <2>1 DEF Point
  <2>3. CallIn(x, k) \in Met BY <2>1, Hopping
  <2>4. Call(d) \in 1..Len(program) /\ Len(program) \in Nat BY <2>2, <2>3, ReadyFacts DEF Met
  <2>. QED BY <2>1, <2>2, <2>4, LivePoint
<1>5. ASSUME NEW d \in V
      PROVE  /\ Hop(d) \in V /\ Onward(d) = {Hop(d)}
             /\ Calls!Settled(Call(Hop(d))) = Calls!Settled(Call(d))
             /\ ~Moves(d.block, d.index) => Hop(d) = d /\ Calls!Settled(Call(d)) = Call(d)
             /\ Moves(d.block, d.index) =>
                  /\ program[Call(d)] \notin AfterWhile \ {"while"}
                  /\ \/ Call(Hop(d)) > Call(d)
                     \/ program[Call(d)] # "while" /\ program[Call(Hop(d))] \in AfterWhile
                  /\ program[Call(d)] = "while" => program[Call(Hop(d))] \in AfterWhile
  <2>1. PICK x, k : Live(x, k) /\ d = Point(x, k) /\ d.block = x /\ d.index = k BY <1>4
  <2>2. PICK q : q = CallIn(x, k) OBVIOUS
  <2>3. Call(d) = q BY <2>1, <2>2
  <2>4. CASE ~Moves(x, k)
    <3>1. Onward(d) = {d} /\ Calls!Settled(q) = q BY <2>1, <2>2, <2>4, Hopping
    <3>2. Hop(d) = d BY <3>1
    <3>. QED BY <2>1, <2>3, <2>4, <3>1, <3>2
  <2>5. CASE Moves(x, k)
    <3>1. PICK t : /\ Live(t, 1) /\ Onward(d) = {Point(t, 1)}
                   /\ program[q] \notin AfterWhile \ {"while"}
                   /\ Calls!Settled(CallIn(t, 1)) = Calls!Settled(q)
                   /\ \/ CallIn(t, 1) > q
                      \/ program[q] # "while" /\ program[CallIn(t, 1)] \in AfterWhile
                   /\ program[q] = "while" => program[CallIn(t, 1)] \in AfterWhile
      BY <2>1, <2>2, <2>5, Hopping
    <3>2. Hop(d) = Point(t, 1) BY <3>1
    <3>3. Call(Hop(d)) = CallIn(t, 1)
      <4>1. PICK e : e = Hop(d) OBVIOUS
      <4>2. e = Point(t, 1) BY <3>2, <4>1
      <4>3. e.block = t /\ e.index = 1 BY <4>2 DEF Point
      <4>4. Call(e) = CallIn(t, 1) BY <4>3
      <4>. QED BY <4>1, <4>4
    <3>4. t \in Block BY <3>1 DEF Live
    <3>5. Hop(d) \in V BY <3>1, <3>2, <3>4
    <3>. QED BY <2>1, <2>3, <2>5, <3>1, <3>2, <3>3, <3>5
  <2>. QED BY <2>4, <2>5
<1>6. c \in V OBVIOUS
<1>7. IsFiniteSet(V) /\ Cardinality(V) <= N + 1
  <2>1. PICK f : f = [n \in 0..N |-> IF n \in Block /\ Live(n, 1) THEN Point(n, 1) ELSE c] OBVIOUS
  <2>2. f \in [0..N -> V] BY <2>1
  <2>3. \A d \in V : \E n \in 0..N : f[n] = d
    <3>. SUFFICES ASSUME NEW d \in V PROVE \E n \in 0..N : f[n] = d OBVIOUS
    <3>1. CASE d = c
      <4>1. 0 \in 0..N /\ 0 \notin Block BY <1>3
      <4>2. f[0] = c BY <2>1, <4>1
      <4>. QED BY <3>1, <4>1, <4>2
    <3>2. ASSUME NEW x \in Block, Live(x, 1), d = Point(x, 1) PROVE \E n \in 0..N : f[n] = d
      <4>1. x \in 0..N BY <1>3
      <4>. QED BY <2>1, <3>2, <4>1
    <3>. QED BY <3>1, <3>2
  <2>4. f \in Surjection(0..N, V) BY <2>2, <2>3 DEF Surjection
  <2>5. IsFiniteSet(0..N) /\ Cardinality(0..N) = N + 1 BY <1>3, FS_Interval
  <2>. HIDE DEF V
  <2>. QED BY <2>4, <2>5, FS_Surjection
<1>. HIDE DEF V, Hop, Call
<1>8. PICK O : O = [d \in V |-> Hop(d)] OBVIOUS
<1>9. O \in [V -> V] BY <1>5, <1>8
<1>10. PICK L : L = Len(program) /\ L \in Nat BY ReadyFacts
<1>11. PICK rank : rank = [d \in V |-> IF ~Moves(d.block, d.index) THEN 0
                                       ELSE IF program[Call(d)] = "while" THEN (1 + L) - Call(d)
                                       ELSE (3 * L + 1) - Call(d)]
  OBVIOUS
<1>12. rank \in [V -> Nat]
  <2>1. \A d \in V : (1 + L) - Call(d) \in Nat /\ (3 * L + 1) - Call(d) \in Nat BY <1>4, <1>10
  <2>. QED BY <1>11, <2>1
<1>13. ASSUME NEW d \in V, Moves(d.block, d.index) PROVE rank[O[d]] < rank[d]
  <2>1. PICK e \in V : e = Hop(d) /\ e = O[d] BY <1>8, <1>9
  <2>2. PICK q, r : q = Call(d) /\ r = Call(e) OBVIOUS
  <2>3. q \in Nat /\ r \in Nat /\ q <= L /\ r <= L BY <1>4, <1>10, <2>2
  <2>4. rank[d] = IF program[q] = "while" THEN (1 + L) - q ELSE (3 * L + 1) - q
    BY <1>11, <1>13, <2>2
  <2>5. rank[e] = IF ~Moves(e.block, e.index) THEN 0
                  ELSE IF program[r] = "while" THEN (1 + L) - r ELSE (3 * L + 1) - r
    BY <1>11, <2>2
  <2>6. /\ r > q \/ (program[q] # "while" /\ program[r] \in AfterWhile)
        /\ program[q] = "while" => program[r] \in AfterWhile
    BY <1>5, <1>13, <2>1, <2>2
  <2>7. program[r] \in AfterWhile => rank[e] = 0 \/ rank[e] = (1 + L) - r
    <3>1. Moves(e.block, e.index) => program[r] \notin AfterWhile \ {"while"} BY <1>5, <2>2
    <3>. QED BY <2>5, <3>1
  <2>8. CASE program[q] = "while"
    <3>1. rank[d] = (1 + L) - q BY <2>4, <2>8
    <3>2. r > q /\ (rank[e] = 0 \/ rank[e] = (1 + L) - r) BY <2>6, <2>7, <2>8
    <3>. QED BY <1>10, <2>1, <2>3, <3>1, <3>2
  <2>9. CASE program[q] # "while"
    <3>1. rank[d] = (3 * L + 1) - q BY <2>4, <2>9
    <3>2. CASE program[r] \in AfterWhile
      <4>1. L # 0 BY <1>10, ReadyFacts
      <4>. QED BY <1>10, <2>1, <2>3, <2>7, <3>1, <3>2, <4>1
    <3>3. CASE r > q
      <4>1. rank[e] = 0 \/ rank[e] = (1 + L) - r \/ rank[e] = (3 * L + 1) - r BY <2>5
      <4>. QED BY <1>10, <2>1, <2>3, <3>1, <3>3, <4>1
    <3>. QED BY <2>6, <2>9, <3>2, <3>3
  <2>. QED BY <2>8, <2>9
<1>14. \A d \in V : O[d] # d => rank[O[d]] < rank[d]
  <2>1. \A d \in V : O[d] # d => Moves(d.block, d.index) BY <1>5, <1>8
  <2>. QED BY <1>13, <2>1
<1>15. PICK R \in [V -> V] : RestsAt(R, O, V, N)
  <2>1. \E R \in [V -> V] : RestsAt(R, O, V, N) BY <1>3, <1>7, <1>9, <1>12, <1>14, OrbitSettles
  <2>. QED BY <2>1
<1>16. PICK g \in [0..N -> V] : g[0] = c /\ g[N] = R[c] /\ \A n \in 1..N : g[n] = O[g[n - 1]]
  BY <1>6, <1>15 DEF RestsAt
<1>17. Ahead(c) = CallAt(R[c])
  <2> DEFINE Is(h) == h = [n \in 0..N |-> IF n = 0 THEN {c} ELSE UNION {Onward(d) : d \in h[n - 1]}]
             h == CHOOSE f : Is(f)
  <2>1. \A n \in 1..N : n - 1 \in 0..N /\ n \in 0..N BY <1>3
  <2>2. \A n \in 1..N : Onward(g[n - 1]) = {g[n]} BY <1>5, <1>8, <1>16, <2>1
  <2>3. PICK f : f = [n \in 0..N |-> {g[n]}] OBVIOUS
  <2>4. ASSUME NEW n \in 0..N
        PROVE  f[n] = IF n = 0 THEN {c} ELSE UNION {Onward(d) : d \in f[n - 1]}
    <3>1. CASE n = 0 BY <1>3, <1>16, <2>3, <3>1
    <3>2. CASE n # 0
      <4>1. n \in 1..N /\ n - 1 \in 0..N BY <1>3, <3>2
      <4>2. f[n] = {g[n]} /\ f[n - 1] = {g[n - 1]} /\ Onward(g[n - 1]) = {g[n]}
        BY <2>2, <2>3, <4>1
      <4>3. UNION {Onward(d) : d \in f[n - 1]} = Onward(g[n - 1]) BY <4>2
      <4>. QED BY <3>2, <4>2, <4>3
    <3>. QED BY <3>1, <3>2
  <2>5. Is(f) BY <2>3, <2>4
  <2>6. Is(h) BY <2>5
  <2>7. PICK k : k = h OBVIOUS
  <2>8. k = [n \in 0..N |-> IF n = 0 THEN {c} ELSE UNION {Onward(d) : d \in k[n - 1]}]
    BY <2>6, <2>7
  <2>9. k[0] = {g[0]}
    <3>1. 0 \in 0..N BY <1>3
    <3>2. k[0] = IF 0 = 0 THEN {c} ELSE UNION {Onward(d) : d \in k[0 - 1]} BY <2>8, <3>1
    <3>. QED BY <1>16, <3>2
  <2>10. ASSUME NEW n \in 1..N, k[n - 1] = {g[n - 1]} PROVE k[n] = {g[n]}
    <3>1. n \in 0..N /\ n # 0 BY <1>3
    <3>2. k[n] = IF n = 0 THEN {c} ELSE UNION {Onward(d) : d \in k[n - 1]} BY <2>8, <3>1
    <3>3. k[n] = Onward(g[n - 1]) BY <2>10, <3>1, <3>2
    <3>. QED BY <2>2, <3>3
  <2>11. Ahead(c) = CHOOSE p \in {CallAt(d) : d \in k[N]} : TRUE BY <1>2, <2>7 DEF Ahead
  <2>. HIDE DEF h, Is
  <2>12. k[N] = {g[N]} BY <1>3, <2>9, <2>10, OneByOne
  <2>13. {CallAt(d) : d \in k[N]} = {CallAt(R[c])} BY <1>16, <2>12
  <2>. QED BY <2>11, <2>13
<1>18. PICK T : T = {d \in V : Calls!Settled(Call(d)) = Calls!Settled(Call(c))} OBVIOUS
<1>19. R[c] \in T
  <2>1. T \in SUBSET V /\ c \in T BY <1>6, <1>18
  <2>2. \A d \in T : O[d] \in T BY <1>5, <1>8, <1>9, <1>18
  <2>. QED BY <1>6, <1>15, <2>1, <2>2 DEF RestsAt
<1>20. PICK r \in V : r = R[c] BY <1>6
<1>21. O[r] = r BY <1>6, <1>15, <1>20 DEF RestsAt
<1>22. ~Moves(r.block, r.index)
  <2>1. rank[r] \in Nat BY <1>12
  <2>. QED BY <1>13, <1>21, <2>1
<1>23. Calls!Settled(Call(r)) = Call(r) /\ CallAt(r) = Call(r) BY <1>4, <1>5, <1>22
<1>24. Call(c) = CallIn(b, i) BY <1>1 DEF Call, Point
<1>. QED BY <1>1, <1>17, <1>18, <1>19, <1>20, <1>23, <1>24

-----------------------------------------------------------------------------
(* Nothing that runs changes the code or the calls.                        *)

Still == UNCHANGED <<vars, record>>

LEMMA SettledStays ==
  ASSUME UNCHANGED program
  PROVE  /\ \A p : Calls!Settled(p)' = Calls!Settled(p)
         /\ Calls!Complete' = Calls!Complete
<1>1. \A p : Calls!Settled(p)' = Calls!Settled(p)
  BY DEF Calls!Settled, Calls!Onward, Calls!Is, Calls!EndOf, Calls!Loop, Calls!Opener,
         Calls!Around, Calls!Depth
<1>2. Calls!Complete' = Calls!Complete BY DEF Calls!Complete, Calls!Depth
<1>. QED BY <1>1, <1>2

LEMMA StillTold ==
  ASSUME Steady, Still
  PROVE  /\ Steady'
         /\ \A b, i : Live(b, i)' = Live(b, i) /\ CallIn(b, i)' = CallIn(b, i)
         /\ Told => Told'
         /\ Ready => Ready'
<1>1. UNCHANGED vars /\ UNCHANGED record /\ Kept BY DEF Still, Kept, vars
<1>2. IInv' BY <1>1, StutterStep DEF Steady
<1>3. LoopsSaved' BY <1>1 DEF Steady, LoopsSaved, vars
<1>4. Alone' BY <1>1, KeptTold DEF Steady
<1>5. Recorded' BY <1>1 DEF Steady, Recorded, vars, record
<1>6. Steady' BY <1>2, <1>3, <1>4, <1>5 DEF Steady
<1>7. Told => Told' BY <1>1, KeptTold
<1>8. Ready => Ready' BY <1>1, <1>6, <1>7 DEF Ready, vars
<1>. QED BY <1>1, <1>6, <1>7, <1>8, KeptTold

-----------------------------------------------------------------------------
(* Where the execution is, and which call that is.                         *)

Stands ==
  \/ pc = Finished /\ at = Len(program) + 1
  \/ \E b, i : Live(b, i) /\ pc = Point(b, i) /\ at = Calls!Settled(CallIn(b, i))
ExecInv ==
  /\ Steady /\ Told /\ turn \in BOOLEAN
  /\ pc = Idle => at = 0
  /\ pc # Idle => Ready /\ Stands

LEMMA AheadFinished == ASSUME MaxBlocks \in Nat PROVE Ahead(Finished) = Len(program) + 1
<1>1. PICK N : N = MaxBlocks OBVIOUS
<1>2. PICK g : g = [n \in 0..N |-> Finished] OBVIOUS
<1> DEFINE Is(h) == h = [n \in 0..N |-> IF n = 0 THEN {Finished}
                                        ELSE UNION {Onward(d) : d \in h[n - 1]}]
           h == CHOOSE f : Is(f)
<1>3. Onward(Finished) = {Finished} BY DEF Onward
<1>4. \A n \in 1..N : n - 1 \in 0..N /\ n \in 0..N BY <1>1
<1>5. PICK f : f = [n \in 0..N |-> {Finished}] OBVIOUS
<1>6. ASSUME NEW n \in 0..N
      PROVE  f[n] = IF n = 0 THEN {Finished} ELSE UNION {Onward(d) : d \in f[n - 1]}
  <2>1. CASE n = 0 BY <1>5, <2>1
  <2>2. CASE n # 0
    <3>1. n \in 1..N /\ n - 1 \in 0..N BY <1>1, <2>2
    <3>2. f[n] = {Finished} /\ f[n - 1] = {Finished} BY <1>5, <3>1
    <3>3. UNION {Onward(d) : d \in f[n - 1]} = Onward(Finished) BY <3>2
    <3>. QED BY <1>3, <2>2, <3>2, <3>3
  <2>. QED BY <2>1, <2>2
<1>7. Is(f) BY <1>5, <1>6
<1>8. Is(h) BY <1>7
<1>9. PICK k : k = h OBVIOUS
<1>10. k = [n \in 0..N |-> IF n = 0 THEN {Finished} ELSE UNION {Onward(d) : d \in k[n - 1]}]
  BY <1>8, <1>9
<1>11. k[0] = {g[0]}
  <2>1. 0 \in 0..N BY <1>1
  <2>2. k[0] = IF 0 = 0 THEN {Finished} ELSE UNION {Onward(d) : d \in k[0 - 1]} BY <1>10, <2>1
  <2>. QED BY <1>2, <2>1, <2>2
<1>12. ASSUME NEW n \in 1..N, k[n - 1] = {g[n - 1]} PROVE k[n] = {g[n]}
  <2>1. n \in 0..N /\ n # 0 /\ n - 1 \in 0..N BY <1>1, <1>4
  <2>2. k[n] = IF n = 0 THEN {Finished} ELSE UNION {Onward(d) : d \in k[n - 1]} BY <1>10, <2>1
  <2>3. k[n - 1] = {Finished} /\ g[n] = Finished BY <1>2, <1>12, <2>1
  <2>4. k[n] = Onward(Finished) BY <2>1, <2>2, <2>3
  <2>. QED BY <1>3, <2>3, <2>4
<1>13. Ahead(Finished) = CHOOSE p \in {CallAt(d) : d \in k[N]} : TRUE BY <1>1, <1>9 DEF Ahead
<1>. HIDE DEF h, Is
<1>14. k[N] = {g[N]} BY <1>1, <1>11, <1>12, OneByOne
<1>15. g[N] = Finished /\ CallAt(Finished) = Len(program) + 1 BY <1>1, <1>2 DEF CallAt
<1>16. {CallAt(d) : d \in k[N]} = {Len(program) + 1} BY <1>14, <1>15
<1>. QED BY <1>13, <1>16

LEMMA StandsNow ==
  ASSUME Ready, Still, NEW b, NEW i, Live(b, i), Continues(Point(b, i))
  PROVE  at' = Calls!Settled(CallIn(b, i)) /\ Stands' /\ pc' # Idle
<1>1. at' = Calls!Settled(CallIn(b, i)) BY AheadSettles DEF Continues
<1>2. Live(b, i)' /\ CallIn(b, i)' = CallIn(b, i) BY StillTold DEF Ready
<1>3. PICK q : q = CallIn(b, i) OBVIOUS
<1>4. Calls!Settled(q)' = Calls!Settled(q) BY SettledStays DEF Still, record
<1>5. at' = Calls!Settled(CallIn(b, i))' BY <1>1, <1>2, <1>3, <1>4
<1>6. pc' = Point(b, i) BY DEF Continues
<1>7. pc' # Idle BY <1>6, LivePoint
<1>8. PICK x, y : x = b /\ y = i OBVIOUS
<1>9. Live(x, y)' /\ pc' = Point(x, y) /\ at' = Calls!Settled(CallIn(x, y))'
  BY <1>2, <1>5, <1>6, <1>8
<1>10. Stands' BY <1>9 DEF Stands, Point
<1>. QED BY <1>1, <1>7, <1>10

-----------------------------------------------------------------------------
(* Every step of the client and of the thread is a step of the calls, or   *)
(* none.                                                                   *)

LEMMA BuildingStep ==
  ASSUME ExecInv, Building, Build
  PROVE  ExecInv' /\ [Calls!Next]_(Calls!vars)
<1>1. pc = Idle /\ at = 0 /\ UNCHANGED <<pc, at, turn>> BY DEF ExecInv, Building
<1>2. Steady' /\ Told' BY BuildTold DEF ExecInv
<1>3. program' \in Seq(Calls!Token) BY <1>2 DEF Steady, Recorded, Tokens
<1>4. Calls!Edit BY <1>1, <1>3 DEF Calls!Edit
<1>5. ExecInv' BY <1>1, <1>2 DEF ExecInv
<1>. QED BY <1>4, <1>5 DEF Calls!Next

LEMMA StartStep ==
  ASSUME ExecInv, Start
  PROVE  ExecInv' /\ [Calls!Next]_(Calls!vars)
<1>1. /\ pc = Idle /\ at = 0 /\ Steady /\ Told /\ turn \in BOOLEAN /\ UNCHANGED turn
      /\ function_ # 0 /\ stack = <<>> /\ ~aborted /\ Still
  BY DEF ExecInv, Start, Still
<1>2. Ready BY <1>1 DEF Ready
<1>3. PICK b : b = entry[function_] OBVIOUS
<1>4. Comes(b, 1, 2) BY <1>1, <1>2, <1>3, ReadyFacts DEF Begun
<1>5. Live(b, 1) /\ CallIn(b, 1) = 2 BY <1>4 DEF Comes
<1>6. Continues(Point(b, 1)) BY <1>3 DEF Start, Point
<1>7. at' = Calls!Settled(2) /\ Stands' /\ pc' # Idle BY <1>1, <1>2, <1>5, <1>6, StandsNow
<1>8. Calls!Complete
  <2>1. DepthOf(program)[Len(program)] = 0 /\ Len(program) # 0 BY <1>2, ReadyFacts
  <2>2. program # <<>> BY <2>1
  <2>. QED BY <2>1, <2>2, CallsDepth DEF Calls!Complete
<1>9. Calls!Start BY <1>1, <1>7, <1>8 DEF Calls!Start, Still, record
<1>10. Steady' /\ Told' /\ Ready' BY <1>1, <1>2, StillTold
<1>11. ExecInv' BY <1>1, <1>7, <1>10 DEF ExecInv
<1>. QED BY <1>9, <1>11 DEF Calls!Next

LEMMA ExecuteStep ==
  ASSUME ExecInv, Execute
  PROVE  ExecInv' /\ [Calls!Next]_(Calls!vars)
<1>1. /\ pc \notin {Idle, Finished} /\ ~FellOff(pc) /\ Still /\ turn \in BOOLEAN
      /\ turn' = (turn # (Current(pc).op # "br"))
  BY DEF ExecInv, Execute, Still
<1>2. Ready /\ Stands BY <1>1 DEF ExecInv
<1>3. PICK b, i : Live(b, i) /\ pc = Point(b, i) /\ at = Calls!Settled(CallIn(b, i))
  BY <1>1, <1>2 DEF Stands
<1>4. PICK q : q = CallIn(b, i) OBVIOUS
<1>5. PICK o, l : Mapped(o, l) BY <1>2, ReadyFacts
<1>6. Comes(b, i, q) BY <1>3, <1>4 DEF Comes
<1>7. i \in DOMAIN steps[b] /\ Current(pc) = steps[b][i] /\ pc.block = b /\ pc.index = i
  BY <1>1, <1>2, <1>3, LivePoint DEF Point
<1>8. PICK ins : ins = steps[b][i] OBVIOUS
<1>9. Carries(o, ins, q, b, i) /\ q \in 1..Len(program)
  BY <1>2, <1>5, <1>6, <1>7, <1>8, ComesWhere
<1>10. /\ Len(program) \in Nat \ {0} /\ DOMAIN program = 1..Len(program) /\ program' = program
       /\ q \in Nat
  BY <1>1, <1>2, <1>9, ReadyFacts DEF Still, record
<1>11. Steady' /\ Told' /\ Ready' /\ turn' \in BOOLEAN
  <2>1. Steady /\ Told BY DEF ExecInv
  <2>. QED BY <1>1, <1>2, <2>1, StillTold
<1>12. ASSUME NEW c, NEW j, Live(c, j), Continues(Point(c, j))
       PROVE  at' = Calls!Settled(CallIn(c, j)) /\ ExecInv'
  <2>1. at' = Calls!Settled(CallIn(c, j)) /\ Stands' /\ pc' # Idle
    BY <1>1, <1>2, <1>12, StandsNow
  <2>. QED BY <1>11, <2>1 DEF ExecInv
<1>13. ASSUME NEW c, NEW y, Comes(c, 1, y), Continues(Point(c, 1))
       PROVE  at' = Calls!Settled(y) /\ ExecInv'
  BY <1>12, <1>13 DEF Comes
<1>14. ASSUME ins.op # "br" PROVE at = q /\ turn' = ~turn
  <2>1. ~Moves(b, i) BY <1>8, <1>14 DEF Moves
  <2>2. at = q BY <1>2, <1>3, <1>4, <2>1, Hopping
  <2>3. Current(pc).op # "br" BY <1>7, <1>8, <1>14
  <2>. QED BY <1>1, <2>2, <2>3
<1>15. CASE ins.op = "op"
  <2>1. program[q] = "statement" /\ Comes(b, i + 1, q + 1) BY <1>9, <1>15 DEF Carries
  <2>2. Continues([pc EXCEPT !.index = @ + 1]) BY <1>7, <1>8, <1>15 DEF Execute
  <2>3. [pc EXCEPT !.index = @ + 1] = Point(b, i + 1) BY <1>3 DEF Point
  <2>4. PICK j : j = i + 1 OBVIOUS
  <2>5. Live(b, j) /\ CallIn(b, j) = q + 1 /\ Continues(Point(b, j))
    BY <2>1, <2>2, <2>3, <2>4 DEF Comes
  <2>6. at' = Calls!Settled(q + 1) /\ ExecInv' BY <1>12, <2>5
  <2>7. Calls!Step
    BY <1>9, <1>10, <1>14, <1>15, <2>1, <2>6 DEF Calls!Step, Calls!Is, Calls!Resting
  <2>. QED BY <2>6, <2>7 DEF Calls!Next
<1>16. CASE ins.op = "ret"
  <2>1. program[q] = "return" BY <1>9, <1>16 DEF Carries
  <2>2. Continues(Finished) BY <1>7, <1>8, <1>16 DEF Execute
  <2>3. pc' = Finished /\ at' = Len(program) + 1
    BY <2>2, BoundsAssumption, AheadFinished DEF Continues
  <2>4. pc' # Idle BY <2>3 DEF Finished, Idle
  <2>5. Stands' BY <1>10, <2>3 DEF Stands, Finished
  <2>6. ExecInv' BY <1>11, <2>4, <2>5 DEF ExecInv
  <2>7. Calls!Step
    BY <1>9, <1>10, <1>14, <1>16, <2>1, <2>3 DEF Calls!Step, Calls!Is, Calls!Resting
  <2>. QED BY <2>6, <2>7 DEF Calls!Next
<1>17. CASE ins.op = "br"
  <2>1. PICK c : c \in ins.to /\ Continues([block |-> c, index |-> 1])
    BY <1>7, <1>8, <1>17 DEF Execute
  <2>2. Moves(b, i) BY <1>7, <1>8, <1>17 DEF Moves
  <2>3. PICK t : /\ Live(t, 1) /\ Onward(Point(b, i)) = {Point(t, 1)}
                 /\ Calls!Settled(CallIn(t, 1)) = Calls!Settled(q)
    BY <1>2, <1>3, <1>4, <2>2, Hopping
  <2>4. Point(c, 1) \in Onward(Point(b, i))
    BY <1>1, <1>3, <1>7, <1>8, <1>17, <2>1 DEF Onward, Point
  <2>5. Continues(Point(t, 1)) BY <2>1, <2>3, <2>4 DEF Point
  <2>6. at' = at /\ ExecInv' BY <1>3, <1>4, <1>12, <2>3, <2>5
  <2>7. turn' = turn BY <1>1, <1>7, <1>8, <1>17
  <2>. QED BY <1>10, <2>6, <2>7 DEF Calls!vars
<1>18. CASE ins.op = "condbr"
  <2>1. PICK t, f : ins.to = {t, f} /\ Comes(t, 1, q + 1) /\ Decides(o, q, f)
    BY <1>9, <1>18 DEF Carries
  <2>2. program[q] \in {"if", "do"} BY <2>1 DEF Decides
  <2>3. PICK c : c \in ins.to /\ Continues(Point(c, 1))
    BY <1>7, <1>8, <1>18 DEF Execute, Point
  <2>4. at = q /\ turn' = ~turn BY <1>14, <1>18
  <2>5. CASE c = t
    <3>1. at' = Calls!Settled(q + 1) /\ ExecInv' BY <1>13, <2>1, <2>3, <2>5
    <3>2. Calls!Step
      BY <1>9, <1>10, <2>2, <2>4, <3>1 DEF Calls!Step, Calls!Is, Calls!Resting
    <3>. QED BY <3>1, <3>2 DEF Calls!Next
  <2>6. ASSUME c = f, program[q] = "if", FalseTo(o, q, f)
        PROVE  ExecInv' /\ [Calls!Next]_(Calls!vars)
    <3>1. PICK p : DivideIs(program, q, p) /\ Comes(f, 1, p + 1)
      BY <1>2, <2>6, ReadyFacts DEF FalseTo
    <3>2. Calls!Otherwise(q) = p BY <1>2, <1>9, <2>6, <3>1, CallsMeaning DEF Calls!Openers
    <3>3. at' = Calls!Settled(p + 1) /\ ExecInv' BY <1>13, <2>3, <2>6, <3>1
    <3>4. Calls!Step
      BY <1>9, <1>10, <2>4, <2>6, <3>2, <3>3 DEF Calls!Step, Calls!Is, Calls!Resting
    <3>. QED BY <3>3, <3>4 DEF Calls!Next
  <2>7. ASSUME c = f, program[q] = "do", NEW p, LoopIs(program, q, p), Past(o, p, f)
        PROVE  ExecInv' /\ [Calls!Next]_(Calls!vars)
    <3>1. PICK e : EndIs(program, p, e) /\ Comes(f, 1, e + 1)
      BY <1>2, <2>7, ReadyFacts DEF Past
    <3>2. Calls!Loop(q) = p /\ p \in 1..Len(program) /\ program[p] \in Calls!Openers
      BY <1>2, <1>9, <2>7, CallsMeaning DEF Calls!Openers
    <3>3. Calls!EndOf(p) = e BY <1>2, <3>1, <3>2, BracketEnds
    <3>4. at' = Calls!Settled(e + 1) /\ ExecInv' BY <1>13, <2>3, <2>7, <3>1
    <3>5. Calls!Step
      BY <1>9, <1>10, <2>4, <2>7, <3>2, <3>3, <3>4 DEF Calls!Step, Calls!Is, Calls!Resting
    <3>. QED BY <3>4, <3>5 DEF Calls!Next
  <2>. QED BY <2>1, <2>3, <2>5, <2>6, <2>7 DEF Decides
<1>19. ins.op \in {"op", "ret", "br", "condbr"} BY <1>9 DEF Carries
<1>. QED BY <1>15, <1>16, <1>17, <1>18, <1>19

LEMMA ExecInitially == ASSUME ExecutionInit PROVE ExecInv /\ Calls!Init
<1>1. Steady /\ Told BY ToldInitially
<1>2. pc = Idle /\ program = <<>> /\ at = 0 /\ turn = FALSE BY DEF ExecutionInit
<1>. QED BY <1>1, <1>2 DEF ExecInv, Calls!Init

LEMMA ExecStep ==
  ASSUME ExecInv, [ExecutionNext]_allVars
  PROVE  ExecInv' /\ [Calls!Next]_(Calls!vars)
<1>1. CASE Building /\ Build BY <1>1, BuildingStep
<1>2. CASE Start BY <1>2, StartStep
<1>3. CASE Execute BY <1>3, ExecuteStep
<1>4. CASE UNCHANGED allVars
  <2>1. Still /\ UNCHANGED <<pc, at, turn, program>> BY <1>4 DEF allVars, Still, record
  <2>2. /\ Steady' /\ Told' /\ (Ready => Ready')
        /\ \A b, i : Live(b, i)' = Live(b, i) /\ CallIn(b, i)' = CallIn(b, i)
    BY <2>1, StillTold DEF ExecInv
  <2>3. \A p : Calls!Settled(p)' = Calls!Settled(p) BY <2>1, SettledStays
  <2>4. Stands => Stands'
    <3>1. CASE pc = Finished /\ at = Len(program) + 1 BY <2>1, <3>1 DEF Stands, Finished
    <3>2. ASSUME NEW b, NEW i, Live(b, i), pc = Point(b, i), at = Calls!Settled(CallIn(b, i))
          PROVE  Stands'
      <4>1. PICK q : q = CallIn(b, i) OBVIOUS
      <4>2. Calls!Settled(q)' = Calls!Settled(q) BY <2>3
      <4>3. at' = Calls!Settled(CallIn(b, i))' BY <2>1, <2>2, <3>2, <4>1, <4>2
      <4>4. Live(b, i)' /\ pc' = Point(b, i) BY <2>1, <2>2, <3>2
      <4>. QED BY <4>3, <4>4 DEF Stands, Point
    <3>. QED BY <3>1, <3>2 DEF Stands
  <2>5. ExecInv' BY <2>1, <2>2, <2>4 DEF ExecInv, Idle
  <2>. QED BY <2>1, <2>5 DEF Calls!vars
<1>. QED BY <1>1, <1>2, <1>3, <1>4 DEF ExecutionNext

(* The function that was built runs as the structured program the client   *)
(* wrote, whatever it wrote and whichever way the branches go.             *)
THEOREM CallsImplemented == ExecutionSpec => ImplementsTheCalls
<1>1. ExecutionInit => ExecInv /\ Calls!Init BY ExecInitially
<1>2. ExecInv /\ [ExecutionNext]_allVars => ExecInv' /\ [Calls!Next]_(Calls!vars) BY ExecStep
<1>. QED BY <1>1, <1>2, PTL DEF ExecutionSpec, ImplementsTheCalls, Calls!Safety

-----------------------------------------------------------------------------
(* The lines of the text and the calls.  A call has its line, but for the  *)
(* end of a condition.                                                     *)

TextLine == LineKind \ {"declaration"}

CountOf(s, w, p) == Cardinality({q \in 1..p : s[q] = w})

LEMMA CountStep ==
  ASSUME NEW s, NEW w, NEW p \in Nat
  PROVE  /\ CountOf(s, w, p) \in Nat
         /\ p # 0 => CountOf(s, w, p) = CountOf(s, w, p - 1) + (IF s[p] = w THEN 1 ELSE 0)
<1>1. PICK holds : holds = [q \in Nat |-> s[q] = w] OBVIOUS
<1>2. \A m \in Nat : {q \in 1..m : holds[q]} = {q \in 1..m : s[q] = w}
  <2>. TAKE m \in Nat
  <2>1. \A q \in 1..m : q \in Nat OBVIOUS
  <2>2. \A q \in 1..m : holds[q] <=> s[q] = w BY <1>1, <2>1
  <2>. QED BY <2>2
<1>3. \A m \in Nat : CountOf(s, w, m) = Cardinality({q \in 1..m : holds[q]}) BY <1>2 DEF CountOf
<1>4. holds[p] <=> s[p] = w BY <1>1
<1>5. /\ Cardinality({q \in 1..p : holds[q]}) \in Nat
      /\ p # 0 => Cardinality({q \in 1..p : holds[q]}) =
                    Cardinality({q \in 1..(p - 1) : holds[q]}) + (IF holds[p] THEN 1 ELSE 0)
  BY Counted
<1>6. p # 0 => p - 1 \in Nat OBVIOUS
<1>. QED BY <1>3, <1>4, <1>5, <1>6

LEMMA CountSteps ==
  ASSUME NEW s, NEW w
  PROVE  /\ CountOf(s, w, 0) = 0
         /\ \A p \in Nat :
              /\ CountOf(s, w, p) \in Nat /\ CountOf(s, w, p) <= p
              /\ p # 0 => CountOf(s, w, p) = CountOf(s, w, p - 1) + (IF s[p] = w THEN 1 ELSE 0)
              /\ \A r \in Nat : p <= r => CountOf(s, w, p) <= CountOf(s, w, r)
<1>1. \A p \in Nat : /\ CountOf(s, w, p) \in Nat
                     /\ p # 0 => CountOf(s, w, p) =
                                  CountOf(s, w, p - 1) + (IF s[p] = w THEN 1 ELSE 0)
  BY CountStep
<1>2. \A p \in Nat : IsFiniteSet({q \in 1..p : s[q] = w}) /\ CountOf(s, w, p) <= p
  <2>. TAKE p \in Nat
  <2>1. IsFiniteSet(1..p) /\ Cardinality(1..p) = p BY FS_Interval
  <2>2. PICK C : C = {q \in 1..p : s[q] = w} OBVIOUS
  <2>3. C \subseteq 1..p BY <2>2
  <2>4. IsFiniteSet(C) /\ Cardinality(C) <= p BY <2>1, <2>3, FS_Subset
  <2>. QED BY <2>2, <2>4 DEF CountOf
<1>3. ASSUME NEW p \in Nat, NEW r \in Nat, p <= r PROVE CountOf(s, w, p) <= CountOf(s, w, r)
  <2>1. PICK C, D : C = {q \in 1..p : s[q] = w} /\ D = {q \in 1..r : s[q] = w} OBVIOUS
  <2>2. C \subseteq D BY <1>3, <2>1
  <2>3. IsFiniteSet(D) BY <1>2, <2>1
  <2>4. Cardinality(C) <= Cardinality(D) BY <2>2, <2>3, FS_Subset
  <2>. QED BY <2>1, <2>4 DEF CountOf
<1>4. CountOf(s, w, 0) = 0
  <2>1. {q \in 1..0 : s[q] = w} = {} OBVIOUS
  <2>. QED BY <2>1, FS_EmptySet DEF CountOf
<1>. QED BY <1>1, <1>2, <1>3, <1>4

LineOf(s, p) == p - CountOf(s, "do", p)
LinesAre(s, text) ==
  /\ Len(text) = LineOf(s, Len(s))
  /\ \A p \in 1..Len(s) : s[p] # "do" => /\ LineOf(s, p) \in 1..Len(text)
                                         /\ text[LineOf(s, p)] = s[p]

LEMMA LinesKept ==
  ASSUME NEW s \in Tokens, NEW t \in Calls!Token, NEW u, Appends(u, s, t),
         NEW text \in Seq(TextLine), NEW text2, LinesAre(s, text),
         t = "do" => text2 = text,
         t # "do" => t \in TextLine /\ text2 = Append(text, t)
  PROVE  LinesAre(u, text2)
<1>1. PICK n : n = Len(s) OBVIOUS
<1>2. /\ n \in Nat /\ Len(u) = n + 1 /\ u[n + 1] = t
      /\ \A p \in 1..n : u[p] = s[p]
  BY <1>1, Appended
<1>3. \A p \in 0..n : CountOf(u, "do", p) = CountOf(s, "do", p) /\ CountOf(s, "do", p) \in Nat
  <2>. TAKE p \in 0..n
  <2>1. \A q \in 1..p : u[q] = s[q] BY <1>2
  <2>2. {q \in 1..p : u[q] = "do"} = {q \in 1..p : s[q] = "do"} BY <2>1
  <2>3. p \in Nat BY <1>2
  <2>. QED BY <2>2, <2>3, CountSteps DEF CountOf
<1>4. CountOf(u, "do", n + 1) = CountOf(s, "do", n) + (IF t = "do" THEN 1 ELSE 0)
  <2>1. PICK m : m = n + 1 OBVIOUS
  <2>2. m \in Nat /\ m # 0 /\ m - 1 = n /\ n \in 0..n BY <1>2, <2>1
  <2>3. CountOf(u, "do", m) = CountOf(u, "do", m - 1) + (IF u[m] = "do" THEN 1 ELSE 0)
    BY <2>2, CountStep
  <2>. QED BY <1>2, <1>3, <2>1, <2>2, <2>3
<1>5. Len(text) = n - CountOf(s, "do", n) BY <1>1 DEF LinesAre, LineOf
<1>6. ASSUME NEW p \in 1..n, u[p] # "do" PROVE LineOf(u, p) \in 1..Len(text) /\ text[LineOf(u, p)] = u[p]
  <2>1. s[p] # "do" /\ u[p] = s[p] BY <1>2, <1>6
  <2>2. LineOf(u, p) = LineOf(s, p) BY <1>2, <1>3 DEF LineOf
  <2>. QED BY <1>1, <2>1, <2>2 DEF LinesAre
<1>7. CASE t = "do"
  <2>1. LineOf(u, n + 1) = Len(text) BY <1>2, <1>3, <1>4, <1>5, <1>7 DEF LineOf
  <2>2. \A p \in 1..(n + 1) : u[p] # "do" => p \in 1..n BY <1>2, <1>7
  <2>. QED BY <1>2, <1>6, <1>7, <2>1, <2>2 DEF LinesAre
<1>8. CASE t # "do"
  <2>1. /\ Len(text2) = Len(text) + 1 /\ Len(text) \in Nat /\ text2[Len(text) + 1] = t
        /\ \A i \in 1..Len(text) : text2[i] = text[i]
    BY <1>8, PushFacts
  <2>2. LineOf(u, n + 1) = Len(text) + 1 BY <1>2, <1>3, <1>4, <1>5, <1>8 DEF LineOf
  <2>3. ASSUME NEW p \in 1..(n + 1), u[p] # "do"
        PROVE  LineOf(u, p) \in 1..Len(text2) /\ text2[LineOf(u, p)] = u[p]
    <3>1. CASE p \in 1..n
      <4>1. LineOf(u, p) \in 1..Len(text) /\ text[LineOf(u, p)] = u[p] BY <1>6, <2>3, <3>1
      <4>. QED BY <2>1, <4>1
    <3>2. CASE p = n + 1 BY <1>2, <2>1, <2>2, <3>2
    <3>. QED BY <1>2, <2>3, <3>1, <3>2
  <2>. QED BY <1>2, <2>1, <2>2, <2>3 DEF LinesAre
<1>. QED BY <1>7, <1>8

(* A condition without statements of its own is one call after "while".    *)
Testing == {i \in DOMAIN stack : stack[i].kind = "cond2"}
TestsSingle ==
  /\ Testing # {} => /\ program # <<>> /\ program[Len(program)] = "while"
                     /\ \A i, j \in Testing : i = j
  /\ \A p \in 1..Len(program) : program[p] = "do" => p # 1 /\ program[p - 1] = "while"
Lined ==
  /\ lines \in Seq(TextLine)
  /\ aborted \/ (LinesAre(program, lines) /\ (Pure => TestsSingle))

(* The line a call adds to the text is the line that is written down.      *)
LEMMA WrittenLines ==
  ASSUME TypeOK, lines \in Seq(TextLine), NEW t, Written(t)
  PROVE  /\ UNCHANGED source_code_ => UNCHANGED lines
         /\ \A k \in TextLine : add_line(k) => lines' = Append(lines, k)
<1>1. source_code_ \in Seq(LineKind) BY DEF TypeOK
<1>2. lines' = lines \o Added(source_code_', source_code_) BY DEF Written
<1>3. ASSUME UNCHANGED source_code_ PROVE UNCHANGED lines
  <2>1. Added(source_code_', source_code_) = <<>> BY <1>1, <1>3, AddedFacts
  <2>. QED BY <1>2, <2>1, ConcatEmptySeq
<1>4. ASSUME NEW k \in TextLine, add_line(k) PROVE lines' = Append(lines, k)
  <2>1. k \in LineKind BY DEF TextLine
  <2>2. Added(source_code_', source_code_) = <<k>> BY <1>1, <1>4, <2>1, AddedFacts DEF add_line
  <2>. QED BY <1>2, <2>2, AppendIsConcat
<1>. QED BY <1>3, <1>4

LEMMA TestingMoves ==
  ASSUME Steady
  PROVE  /\ stack' = stack => Testing' = Testing
         /\ stack # <<>> /\ Pop => Testing' \subseteq Testing
         /\ \A f : f.kind # "cond2" /\ Push(f) => Testing' \subseteq Testing
         /\ \A f : stack # <<>> /\ Replace(f) => Testing' \subseteq Testing \cup {Len(stack)}
         /\ \A f : f.kind # "cond2" /\ stack # <<>> /\ Replace(f)
                     => Testing' \subseteq Testing \ {Len(stack)}
<1>1. stack \in Seq(Frame) /\ Len(stack) \in Nat /\ DOMAIN stack = 1..Len(stack) BY FramesOf
<1>2. stack' = stack => Testing' = Testing BY DEF Testing
<1>3. ASSUME stack # <<>>, Pop PROVE Testing' \subseteq Testing
  <2>1. /\ DOMAIN stack' = 1..(Len(stack) - 1)
        /\ \A i \in 1..(Len(stack) - 1) : stack'[i] = stack[i]
    BY <1>1, <1>3, PopFacts DEF Pop, Outer
  <2>2. \A i \in 1..(Len(stack) - 1) : i \in DOMAIN stack BY <1>1
  <2>. QED BY <2>1, <2>2 DEF Testing
<1>4. ASSUME NEW f, f.kind # "cond2", Push(f) PROVE Testing' \subseteq Testing
  <2>1. PICK S : S = Frame \cup {f} OBVIOUS
  <2>2. stack \in Seq(S) /\ f \in S BY <1>1, <2>1
  <2>3. /\ DOMAIN stack' = 1..(Len(stack) + 1) /\ stack'[Len(stack) + 1] = f
        /\ \A i \in 1..Len(stack) : stack'[i] = stack[i]
    BY <1>4, <2>2, PushFacts DEF Push
  <2>4. \A i \in DOMAIN stack' : i = Len(stack) + 1 \/ i \in 1..Len(stack) BY <1>1, <2>3
  <2>. QED BY <1>1, <1>4, <2>3, <2>4 DEF Testing
<1>5. ASSUME NEW f, stack # <<>>, Replace(f)
      PROVE  /\ Testing' \subseteq Testing \cup {Len(stack)}
             /\ f.kind # "cond2" => Testing' \subseteq Testing \ {Len(stack)}
  <2>1. Len(stack) \in DOMAIN stack BY <1>5, FramesOf
  <2>2. /\ DOMAIN stack' = DOMAIN stack /\ stack'[Len(stack)] = f
        /\ \A i \in DOMAIN stack : i # Len(stack) => stack'[i] = stack[i]
    BY <1>5, <2>1 DEF Replace
  <2>. QED BY <2>1, <2>2 DEF Testing
<1>. QED BY <1>2, <1>3, <1>4, <1>5

LEMMA CallLines ==
  ASSUME Steady, lines \in Seq(TextLine), Build
  PROVE  \/ aborted' /\ UNCHANGED lines
         \/ \E t \in Calls!Token \ {"while", "do"} : /\ Written(t) /\ t \in TextLine
                                                     /\ lines' = Append(lines, t)
                                                     /\ Testing' \subseteq Testing
         \/ /\ Written("while") /\ lines' = Append(lines, "while") /\ Top.kind = "cond1" /\ stack # <<>>
            /\ Testing' \subseteq Testing \cup {Len(stack)}
         \/ /\ Written("do") /\ UNCHANGED lines /\ Len(stack) \in Testing
            /\ Testing' \subseteq Testing \ {Len(stack)}
         \/ Silently /\ UNCHANGED lines /\ Testing' \subseteq Testing
<1> DEFINE Line(t) == Written(t) /\ t \in TextLine /\ add_line(t) /\ Testing' \subseteq Testing
           Stop    == aborted' /\ UNCHANGED source_code_
<1> USE TestingMoves
<1>1. stack # <<>> => Len(stack) \in DOMAIN stack /\ Top = stack[Len(stack)] BY FramesOf
<1>3. ASSUME CreateFunction, Written("function") PROVE Line("function")
  <2>1. PICK fn \in Function : Push([NewFrame("function") EXCEPT !.fn = fn])
    BY <1>3 DEF CreateFunction
  <2>2. PICK f : f = [NewFrame("function") EXCEPT !.fn = fn] OBVIOUS
  <2>3. f.kind = "function" BY <2>2 DEF NewFrame
  <2>4. Testing' \subseteq Testing BY <2>1, <2>2, <2>3
  <2>. QED BY <1>3, <2>4 DEF CreateFunction, LineKind, TextLine
<1>4. ASSUME EndFunction, Written("end") PROVE Line("end")
  BY <1>4 DEF EndFunction, Returns, LineKind, TextLine
<1>5. ASSUME Statement, Written("statement") PROVE Line("statement")
  BY <1>5 DEF Statement, LineKind, TextLine
<1>6. ASSUME Return, Written("return") PROVE Line("return")
  BY <1>6 DEF Return, Exit, LineKind, TextLine
<1>7. ASSUME Break, Written("break") PROVE Stop \/ Line("break")
  BY <1>7 DEF Break, Exit, Abort, LineKind, TextLine
<1>8. ASSUME Continue, Written("continue") PROVE Stop \/ Line("continue")
  BY <1>8 DEF Continue, Exit, Abort, LineKind, TextLine
<1>9. ASSUME NEW k \in {"then_else", "then"}, NEW n, IfBegin(k, n), Written("if")
      PROVE  Stop \/ Line("if")
  <2>1. CASE exited_block_ BY <1>9, <2>1 DEF IfBegin, Abort
  <2>2. CASE ~exited_block_
    <3>1. /\ add_line("if")
          /\ \E e, m : Push([NewFrame(k) EXCEPT !.exit_block = e, !.next_block = m])
      BY <1>9, <2>2 DEF IfBegin
    <3>2. PICK e, m : Push([NewFrame(k) EXCEPT !.exit_block = e, !.next_block = m]) BY <3>1
    <3>3. PICK f : f = [NewFrame(k) EXCEPT !.exit_block = e, !.next_block = m] OBVIOUS
    <3>4. f.kind = k BY <3>3 DEF NewFrame
    <3>5. Testing' \subseteq Testing BY <1>9, <3>2, <3>3, <3>4
    <3>. QED BY <1>9, <3>1, <3>5 DEF LineKind, TextLine
  <2>. QED BY <2>1, <2>2
<1>10. ASSUME Else, Written("else") PROVE Line("else")
  <2>1. PICK f : f = [Top EXCEPT !.kind = "else", !.next_block = 0] OBVIOUS
  <2>2. Replace(f) /\ stack # <<>> BY <1>10, <2>1 DEF Else, Returns
  <2>3. f.kind # "cond2"
    <3>1. Top \in Frame BY <2>2, FramesOf
    <3>. QED BY <2>1, <3>1 DEF Frame
  <2>4. Testing' \subseteq Testing BY <2>2, <2>3
  <2>. QED BY <1>10, <2>4 DEF Else, LineKind, TextLine
<1>11. ASSUME EndIf, Written("end") PROVE Line("end")
  BY <1>11 DEF EndIf, Returns, LineKind, TextLine
<1>12. ASSUME WhileBegin, Silently PROVE Silently /\ UNCHANGED lines /\ Testing' \subseteq Testing
  <2>1. NewFrame("cond1").kind = "cond1" BY DEF NewFrame
  <2>2. PICK f : f = NewFrame("cond1") OBVIOUS
  <2>3. Push(f) /\ f.kind # "cond2" BY <1>12, <2>1, <2>2 DEF WhileBegin
  <2>. QED BY <1>12, <2>3 DEF Silently, record
<1>13. ASSUME WhileTest, Written("while")
       PROVE  /\ Written("while") /\ add_line("while") /\ Top.kind = "cond1" /\ stack # <<>>
              /\ Testing' \subseteq Testing \cup {Len(stack)}
  <2>1. stack # <<>> /\ \E f : Replace(f) BY <1>13 DEF WhileTest, Returns
  <2>2. Testing' \subseteq Testing \cup {Len(stack)} BY <2>1
  <2>. QED BY <1>13, <2>1, <2>2 DEF WhileTest, Returns
<1>14. ASSUME WhileBody, Written("do")
       PROVE  \/ Stop
              \/ /\ Written("do") /\ UNCHANGED source_code_ /\ Len(stack) \in Testing
                 /\ Testing' \subseteq Testing \ {Len(stack)}
  <2>1. stack # <<>> /\ Top.kind = "cond2" BY <1>14 DEF WhileBody, Returns
  <2>2. Len(stack) \in Testing BY <1>1, <2>1 DEF Testing
  <2>3. CASE exited_block_ BY <1>14, <2>3 DEF WhileBody, Abort
  <2>4. CASE ~exited_block_
    <3>1. PICK f : f = [Top EXCEPT !.kind = "body", !.next_block = 0, !.parent_scope = dbg_scope_]
      OBVIOUS
    <3>2. Replace(f) /\ UNCHANGED source_code_ BY <1>14, <2>4, <3>1 DEF WhileBody
    <3>3. f.kind # "cond2"
      <4>1. Top \in Frame BY <2>1, FramesOf
      <4>. QED BY <3>1, <4>1 DEF Frame
    <3>4. Testing' \subseteq Testing \ {Len(stack)} BY <2>1, <3>2, <3>3
    <3>. QED BY <1>14, <2>2, <3>2, <3>4
  <2>. QED BY <2>3, <2>4
<1>15. ASSUME EndWhile, Written("end") PROVE Line("end")
  BY <1>15 DEF EndWhile, Returns, LineKind, TextLine
<1>16. ASSUME VariableDecl \/ VariableGet, Silently
       PROVE  Silently /\ UNCHANGED lines /\ Testing' \subseteq Testing
  BY <1>16 DEF VariableDecl, VariableGet, Silently, record
<1> DEFINE Other == {"function", "statement", "if", "else", "end", "return", "break", "continue"}
<1>17. Other \subseteq Calls!Token \ {"while", "do"} BY DEF Calls!Token
<1>. HIDE DEF Line, Stop
<1>18. Build =>
         \/ \E t \in Other : Written(t) /\ (Stop \/ Line(t))
         \/ WhileBegin /\ Silently
         \/ (VariableDecl \/ VariableGet) /\ Silently
         \/ WhileTest /\ Written("while")
         \/ WhileBody /\ Written("do")
  BY <1>3, <1>4, <1>5, <1>6, <1>7, <1>8, <1>9, <1>10, <1>11, <1>15 DEF Build, IfElse, IfOnly
<1>19. TypeOK BY DEF Steady, IInv
<1>20. ASSUME NEW t \in Other, Line(t) PROVE lines' = Append(lines, t)
  BY <1>19, <1>20, WrittenLines DEF Line
<1>21. ASSUME NEW t, Written(t), Stop PROVE aborted' /\ UNCHANGED lines
  BY <1>19, <1>21, WrittenLines DEF Stop
<1>22. ASSUME Written("while"), add_line("while") PROVE lines' = Append(lines, "while")
  <2>1. "while" \in TextLine BY DEF TextLine, LineKind
  <2>. QED BY <1>19, <1>22, <2>1, WrittenLines
<1>23. ASSUME Written("do"), UNCHANGED source_code_ PROVE UNCHANGED lines
  BY <1>19, <1>23, WrittenLines
<1>24. ASSUME NEW t \in Other, Line(t)
       PROVE  /\ t \in Calls!Token \ {"while", "do"} /\ Written(t) /\ t \in TextLine
              /\ lines' = Append(lines, t) /\ Testing' \subseteq Testing
  BY <1>17, <1>20, <1>24 DEF Line
<1>. HIDE DEF Other
<1>25. CASE \E t \in Other : Written(t) /\ (Stop \/ Line(t)) BY <1>21, <1>24, <1>25
<1>26. CASE WhileTest /\ Written("while") BY <1>13, <1>22, <1>26
<1>27. CASE WhileBody /\ Written("do") BY <1>14, <1>21, <1>23, <1>27
<1>. QED BY <1>12, <1>16, <1>18, <1>25, <1>26, <1>27

LEMMA PureBefore ==
  ASSUME Steady, NEW t \in Calls!Token, Written(t), Pure'
  PROVE  /\ Pure
         /\ Len(program') = Len(program) + 1 /\ program'[Len(program) + 1] = t
         /\ \A p \in 1..Len(program) : program'[p] = program[p]
         /\ program # <<>> /\ program[Len(program)] = "while" => t = "do"
<1>1. Appends(program', program, t) BY DEF Written, Appends
<1>2. program \in Tokens /\ Len(program) \in Nat /\ DOMAIN program = 1..Len(program)
  BY FramesOf DEF Tokens
<1>3. /\ program' \in Tokens /\ Len(program') = Len(program) + 1
      /\ program'[Len(program) + 1] = t
      /\ \A p \in 1..Len(program) : program'[p] = program[p]
  BY <1>1, <1>2, Appended
<1>4. DOMAIN program' = 1..(Len(program) + 1) BY <1>3 DEF Tokens
<1>5. ASSUME NEW p \in 1..Len(program), program[p] = "while"
      PROVE  program'[p + 1] = "do"
  <2>1. p \in DOMAIN program' /\ program'[p] = "while" /\ p < Len(program')
    BY <1>2, <1>3, <1>4, <1>5
  <2>. QED BY <2>1 DEF Pure
<1>6. Pure
  <2>. SUFFICES ASSUME NEW p \in 1..Len(program), program[p] = "while", p < Len(program)
                PROVE  program[p + 1] = "do"
    BY <1>2 DEF Pure
  <2>1. program'[p + 1] = "do" BY <1>5
  <2>2. p + 1 \in 1..Len(program) BY <1>2
  <2>. QED BY <1>3, <2>1, <2>2
<1>7. ASSUME program # <<>>, program[Len(program)] = "while" PROVE t = "do"
  <2>1. Len(program) # 0 BY <1>2, <1>7 DEF Tokens
  <2>2. Len(program) \in 1..Len(program) BY <1>2, <2>1
  <2>. QED BY <1>3, <1>5, <1>7, <2>2
<1>. QED BY <1>3, <1>6, <1>7

LEMMA LinedKept ==
  ASSUME Steady, Lined, Build
  PROVE  Lined'
<1>1. ~aborted /\ LinesAre(program, lines) /\ lines \in Seq(TextLine) BY BuildCalls DEF Lined
<1>2. program \in Tokens /\ Len(program) \in Nat /\ (Pure => TestsSingle)
  BY <1>1, FramesOf DEF Lined
<1>3. ASSUME NEW t \in Calls!Token, t # "do", Written(t), t \in TextLine, lines' = Append(lines, t)
      PROVE  lines' \in Seq(TextLine) /\ LinesAre(program', lines')
  <2>1. Appends(program', program, t) BY <1>3 DEF Written, Appends
  <2>2. LinesAre(program', lines') BY <1>1, <1>2, <1>3, <2>1, LinesKept
  <2>. QED BY <1>1, <1>3, <2>2
<1>4. ASSUME NEW t \in Calls!Token, Written(t), Pure', TestsSingle,
             Testing' # {} => /\ t = "while" /\ \A i, j \in Testing' : i = j,
             t = "do" => program # <<>> /\ program[Len(program)] = "while"
      PROVE  TestsSingle'
  <2>1. /\ Len(program') = Len(program) + 1 /\ program'[Len(program) + 1] = t
        /\ \A p \in 1..Len(program) : program'[p] = program[p]
    BY <1>4, PureBefore
  <2>2. Testing' # {} => /\ program' # <<>> /\ program'[Len(program')] = "while"
                         /\ \A i, j \in Testing' : i = j
    BY <1>2, <1>4, <2>1
  <2>3. ASSUME NEW p \in 1..Len(program'), program'[p] = "do"
        PROVE  p # 1 /\ program'[p - 1] = "while"
    <3>1. CASE p \in 1..Len(program)
      <4>1. p # 1 /\ program[p - 1] = "while" BY <1>4, <2>1, <2>3, <3>1 DEF TestsSingle
      <4>2. p - 1 \in 1..Len(program) BY <1>2, <3>1, <4>1
      <4>. QED BY <2>1, <4>1, <4>2
    <3>2. CASE p = Len(program) + 1
      <4>1. program # <<>> /\ program[Len(program)] = "while" BY <1>4, <2>1, <2>3, <3>2
      <4>2. Len(program) # 0 BY <1>2, <4>1 DEF Tokens
      <4>3. Len(program) \in 1..Len(program) /\ p # 1 /\ p - 1 = Len(program) BY <1>2, <3>2, <4>2
      <4>. QED BY <2>1, <4>1, <4>3
    <3>. QED BY <1>2, <2>1, <2>3, <3>1, <3>2
  <2>. QED BY <2>2, <2>3 DEF TestsSingle
<1>5. ASSUME NEW t \in Calls!Token, t # "do", Written(t), Pure'
      PROVE  TestsSingle /\ Testing = {}
  <2>1. TestsSingle BY <1>2, <1>5, PureBefore
  <2>2. Testing # {} => program # <<>> /\ program[Len(program)] = "while"
    BY <2>1 DEF TestsSingle
  <2>. QED BY <1>5, <2>1, <2>2, PureBefore
<1>6. CASE aborted' /\ UNCHANGED lines BY <1>1, <1>6 DEF Lined
<1>7. ASSUME NEW t \in Calls!Token \ {"while", "do"}, Written(t), t \in TextLine,
             lines' = Append(lines, t), Testing' \subseteq Testing
      PROVE  Lined'
  <2>1. lines' \in Seq(TextLine) /\ LinesAre(program', lines') BY <1>3, <1>7
  <2>2. ASSUME Pure' PROVE TestsSingle'
    <3>1. TestsSingle /\ Testing = {} BY <1>5, <1>7, <2>2
    <3>2. Testing' = {} BY <1>7, <3>1
    <3>. QED BY <1>4, <1>7, <2>2, <3>1, <3>2
  <2>. QED BY <2>1, <2>2 DEF Lined, LinesAre, LineOf, CountOf
<1>8. ASSUME Written("while"), lines' = Append(lines, "while"), Testing' \subseteq Testing \cup {Len(stack)}
      PROVE  Lined'
  <2>1. "while" \in Calls!Token /\ "while" \in TextLine BY DEF Calls!Token, LineKind, TextLine
  <2>2. lines' \in Seq(TextLine) /\ LinesAre(program', lines') BY <1>3, <1>8, <2>1
  <2>3. ASSUME Pure' PROVE TestsSingle'
    <3>1. TestsSingle /\ Testing = {} BY <1>5, <1>8, <2>1, <2>3
    <3>2. \A i, j \in Testing' : i = j BY <1>8, <3>1
    <3>. QED BY <1>4, <1>8, <2>1, <2>3, <3>1, <3>2
  <2>. QED BY <2>2, <2>3 DEF Lined, LinesAre, LineOf, CountOf
<1>9. ASSUME Written("do"), UNCHANGED lines, Len(stack) \in Testing,
             Testing' \subseteq Testing \ {Len(stack)}
      PROVE  Lined'
  <2>1. "do" \in Calls!Token BY DEF Calls!Token
  <2>2. lines' \in Seq(TextLine) /\ LinesAre(program', lines')
    <3>1. Appends(program', program, "do") BY <1>9 DEF Written, Appends
    <3>2. LinesAre(program', lines') BY <1>1, <1>2, <1>9, <2>1, <3>1, LinesKept
    <3>. QED BY <1>1, <1>9, <3>2
  <2>3. ASSUME Pure' PROVE TestsSingle'
    <3>1. TestsSingle BY <1>2, <1>9, <2>1, <2>3, PureBefore
    <3>2. program # <<>> /\ program[Len(program)] = "while" /\ \A i, j \in Testing : i = j
      BY <1>9, <3>1 DEF TestsSingle
    <3>3. Testing' = {} BY <1>9, <3>2
    <3>. QED BY <1>4, <1>9, <2>1, <2>3, <3>1, <3>2, <3>3
  <2>. QED BY <2>2, <2>3 DEF Lined, LinesAre, LineOf, CountOf
<1>10. ASSUME Silently, UNCHANGED lines, Testing' \subseteq Testing PROVE Lined'
  <2>1. program' = program BY <1>10 DEF Silently, record
  <2>2. (Pure' <=> Pure) BY <2>1 DEF Pure
  <2>3. Pure => TestsSingle' BY <1>2, <1>10, <2>1 DEF TestsSingle
  <2>4. LinesAre(program, lines)' BY <1>1, <1>10, <2>1 DEF LinesAre, LineOf, CountOf
  <2>5. lines' \in Seq(TextLine) BY <1>1, <1>10
  <2>. QED BY <2>2, <2>3, <2>4, <2>5 DEF Lined
<1>. QED BY <1>1, <1>6, <1>7, <1>8, <1>9, <1>10, CallLines

LEMMA LinedStays ==
  ASSUME Lined, Still
  PROVE  Lined' /\ Pure' = Pure
<1>1. /\ program' = program /\ lines' = lines /\ stack' = stack /\ aborted' = aborted
  BY DEF Still, vars, record
<1>2. Pure' = Pure BY <1>1 DEF Pure
<1>3. LinesAre(program, lines)' = LinesAre(program, lines)
  BY <1>1 DEF LinesAre, LineOf, CountOf
<1>4. TestsSingle' = TestsSingle BY <1>1 DEF TestsSingle, Testing
<1>. QED BY <1>1, <1>2, <1>3, <1>4 DEF Lined

LEMMA LinedInitially == ASSUME ExecutionInit PROVE Lined
<1>1. program = <<>> /\ lines = <<>> /\ stack = <<>> BY DEF ExecutionInit, Init
<1>2. Len(program) = 0 /\ Len(lines) = 0 /\ Testing = {} BY <1>1 DEF Testing
<1>3. LinesAre(program, lines)
  <2>1. LineOf(program, 0) = 0 BY CountSteps DEF LineOf
  <2>. QED BY <1>2, <2>1 DEF LinesAre
<1>. QED BY <1>2, <1>3 DEF Lined, TestsSingle

(* The finished function, if its conditions have no statements: each       *)
(* "while" has its "do", and all other calls their line.                   *)
Plainly == Ready /\ Lined /\ Pure

LEMMA TestsFollow ==
  ASSUME Plainly
  PROVE  /\ Len(program) \in Nat \ {0} /\ DOMAIN program = 1..Len(program)
         /\ lines \in Seq(TextLine) /\ Len(lines) \in Nat
         /\ LinesAre(program, lines)
         /\ program[Len(program)] = "end"
         /\ \A p \in 1..Len(program) :
              program[p] = "do" <=> p # 1 /\ program[p - 1] = "while"
<1>1. Ready /\ LinesAre(program, lines) /\ TestsSingle /\ Pure
  BY DEF Plainly, Lined, Ready
<1>2. /\ Len(program) \in Nat \ {0} /\ DOMAIN program = 1..Len(program)
      /\ program[Len(program)] = "end"
  BY <1>1, ReadyFacts DEF Begun, Ready
<1>3. lines \in Seq(TextLine) /\ Len(lines) \in Nat
  BY DEF Plainly, Lined
<1>4. ASSUME NEW p \in 1..Len(program), p # 1, program[p - 1] = "while" PROVE program[p] = "do"
  <2>1. PICK r \in DOMAIN program : r = p - 1 /\ r < Len(program) BY <1>2, <1>4
  <2>2. program[r + 1] = "do" BY <1>1, <1>4, <2>1 DEF Pure
  <2>. QED BY <2>1, <2>2
<1>5. \A p \in 1..Len(program) : program[p] = "do" => p # 1 /\ program[p - 1] = "while"
  BY <1>1 DEF TestsSingle
<1>. QED BY <1>1, <1>2, <1>3, <1>4, <1>5

Whiles(p) == CountOf(program, "while", p)
Dos(p)    == CountOf(program, "do", p)
Tested(p) == p # 0 /\ program[p] = "while"

LEMMA TestsCounted ==
  ASSUME Plainly
  PROVE  \A p \in 0..Len(program) :
           /\ Dos(p) \in Nat /\ Dos(p) <= p
           /\ Whiles(p) = Dos(p) + (IF Tested(p) THEN 1 ELSE 0)
           /\ CountOf(lines, "while", LineOf(program, p)) = Whiles(p)
           /\ LineOf(program, p) \in 0..Len(lines)
<1> DEFINE L(p) == LineOf(program, p)
           P(p) == p <= Len(program) =>
                     /\ Dos(p) \in Nat /\ Dos(p) <= p
                     /\ Whiles(p) = Dos(p) + (IF Tested(p) THEN 1 ELSE 0)
                     /\ CountOf(lines, "while", L(p)) = Whiles(p)
                     /\ L(p) \in 0..Len(lines)
<1>1. /\ Len(program) \in Nat \ {0} /\ Len(lines) \in Nat
      /\ LinesAre(program, lines)
      /\ \A p \in 1..Len(program) : program[p] = "do" <=> p # 1 /\ program[p - 1] = "while"
  BY TestsFollow
<1>2. P(0)
  <2>1. Dos(0) = 0 /\ Whiles(0) = 0 BY CountSteps DEF Dos, Whiles
  <2>2. L(0) = 0 BY CountSteps DEF LineOf
  <2>3. CountOf(lines, "while", L(0)) = 0 BY <2>2, CountSteps
  <2>4. ~Tested(0) BY DEF Tested
  <2>. QED BY <1>1, <2>1, <2>2, <2>3, <2>4
<1>3. ASSUME NEW p \in Nat, P(p) PROVE P(p + 1)
  <2>. SUFFICES ASSUME p + 1 <= Len(program) PROVE P(p + 1) OBVIOUS
  <2>1. PICK r : r = p + 1 OBVIOUS
  <2>2. r \in Nat /\ r # 0 /\ r - 1 = p /\ r \in 1..Len(program) /\ p <= Len(program)
    BY <1>1, <2>1
  <2>3. /\ Dos(p) \in Nat /\ Dos(p) <= p
        /\ Whiles(p) = Dos(p) + (IF Tested(p) THEN 1 ELSE 0)
        /\ CountOf(lines, "while", L(p)) = Whiles(p)
        /\ L(p) \in 0..Len(lines)
    BY <1>3, <2>2
  <2>4. /\ Dos(r) = Dos(p) + (IF program[r] = "do" THEN 1 ELSE 0) /\ Dos(r) \in Nat /\ Dos(r) <= r
        /\ Whiles(r) = Whiles(p) + (IF program[r] = "while" THEN 1 ELSE 0)
    <3>0. r \in Nat /\ r # 0 BY <2>2
    <3>1. CountOf(program, "do", r) = CountOf(program, "do", r - 1) +
            (IF program[r] = "do" THEN 1 ELSE 0)
      BY <3>0, CountStep
    <3>3. CountOf(program, "do", r) \in Nat /\ CountOf(program, "do", r) <= r
      BY <3>0, CountSteps
    <3>2. CountOf(program, "while", r) = CountOf(program, "while", r - 1) +
            (IF program[r] = "while" THEN 1 ELSE 0)
      BY <3>0, CountStep
    <3>. QED BY <2>2, <3>1, <3>2, <3>3 DEF Dos, Whiles
  <2>5. program[r] = "do" <=> Tested(p)
    <3>1. program[r] = "do" <=> r # 1 /\ program[p] = "while" BY <1>1, <2>2
    <3>. QED BY <2>2, <3>1 DEF Tested
  <2>6. Tested(r) <=> program[r] = "while" BY <2>2 DEF Tested
  <2>7. Whiles(r) = Dos(r) + (IF Tested(r) THEN 1 ELSE 0) BY <2>3, <2>4, <2>5, <2>6
  <2>8. L(p) = p - Dos(p) /\ L(r) = r - Dos(r) BY DEF LineOf, Dos
  <2>9. CASE program[r] = "do"
    <3>1. L(r) = L(p) /\ Whiles(r) = Whiles(p) BY <2>2, <2>3, <2>4, <2>8, <2>9
    <3>. QED BY <2>1, <2>3, <2>4, <2>7, <3>1
  <2>10. CASE program[r] # "do"
    <3>1. PICK n : n = L(r) OBVIOUS
    <3>2. n = L(p) + 1 BY <2>2, <2>3, <2>4, <2>8, <2>10, <3>1
    <3>3. n \in 1..Len(lines) /\ lines[n] = program[r]
      BY <1>1, <2>2, <2>10, <3>1 DEF LinesAre
    <3>4. n \in Nat /\ n # 0 /\ n - 1 = L(p) BY <1>1, <2>3, <3>2
    <3>5. CountOf(lines, "while", n) = CountOf(lines, "while", n - 1) +
            (IF lines[n] = "while" THEN 1 ELSE 0)
      BY <3>4, CountStep
    <3>6. CountOf(lines, "while", n) = Whiles(r) BY <2>3, <2>4, <3>3, <3>4, <3>5
    <3>7. L(r) \in 0..Len(lines) BY <3>1, <3>3
    <3>. QED BY <2>1, <2>4, <2>7, <3>1, <3>6, <3>7
  <2>. QED BY <2>9, <2>10
<1>. HIDE DEF P
<1>4. \A p \in Nat : P(p)
  <2>1. PICK S : S = {p \in Nat : P(p)} OBVIOUS
  <2>2. 0 \in S /\ \A p \in S : p + 1 \in S BY <1>2, <1>3, <2>1
  <2>3. Nat \subseteq S BY <2>1, <2>2, NatSetInduction
  <2>. QED BY <2>1, <2>3
<1>. QED BY <1>1, <1>4 DEF P

(* The calls the first n lines of the text spell out, and the line that    *)
(* holds call p.                                                           *)
Lines(n) == CountOf(lines, "while", n) + n
Holds(n, p) == n \in 1..Len(lines) /\ p \in (Lines(n - 1) + 1)..Lines(n)
LineHolding(p) == CHOOSE n \in 1..Len(lines) : p \in (Lines(n - 1) + 1)..Lines(n)
CallHeld(p) ==
  IF p < Lines(LineHolding(p)) \/ lines[LineHolding(p)] # "while"
  THEN lines[LineHolding(p)] ELSE "do"

LEMMA SpelledOut == TestsSpelledOut = [p \in 1..Lines(Len(lines)) |-> CallHeld(p)]
BY DEF TestsSpelledOut, CallHeld, LineHolding, Lines, CountOf

LEMMA LinesGrow ==
  /\ Lines(0) = 0
  /\ \A n \in Nat : Lines(n) \in Nat /\ n <= Lines(n)
  /\ \A n, m \in Nat : n <= m => Lines(n) <= Lines(m)
<1>1. PICK s : s = lines OBVIOUS
<1>2. /\ CountOf(s, "while", 0) = 0
      /\ \A n \in Nat : CountOf(s, "while", n) \in Nat
      /\ \A n, m \in Nat : n <= m => CountOf(s, "while", n) <= CountOf(s, "while", m)
  BY CountSteps
<1>3. \A n : Lines(n) = CountOf(s, "while", n) + n BY <1>1 DEF Lines
<1>4. Lines(0) = 0 BY <1>2, <1>3
<1>5. \A n \in Nat : Lines(n) \in Nat /\ n <= Lines(n) BY <1>2, <1>3
<1>6. ASSUME NEW n \in Nat, NEW m \in Nat, n <= m PROVE Lines(n) <= Lines(m)
  <2>1. CountOf(s, "while", n) <= CountOf(s, "while", m) BY <1>2, <1>6
  <2>2. CountOf(s, "while", n) \in Nat /\ CountOf(s, "while", m) \in Nat BY <1>2
  <2>. QED BY <1>3, <1>6, <2>1, <2>2
<1>. QED BY <1>4, <1>5, <1>6

LEMMA HeldOnce ==
  ASSUME Len(lines) \in Nat, NEW p \in Nat, NEW n, Holds(n, p)
  PROVE  LineHolding(p) = n
<1>1. ASSUME NEW m, Holds(m, p), NEW k, Holds(k, p) PROVE ~(m < k)
  <2>. SUFFICES ASSUME m < k PROVE FALSE OBVIOUS
  <2>1. /\ m \in Nat /\ k \in Nat /\ k # 0 /\ k - 1 \in Nat /\ m <= k - 1
        /\ p \in (Lines(m - 1) + 1)..Lines(m) /\ p \in (Lines(k - 1) + 1)..Lines(k)
    BY <1>1 DEF Holds
  <2>2. Lines(m) <= Lines(k - 1) /\ Lines(m) \in Nat /\ Lines(k - 1) \in Nat BY <2>1, LinesGrow
  <2>3. p <= Lines(m) /\ Lines(k - 1) + 1 <= p BY <2>1
  <2>. QED BY <2>2, <2>3
<1>2. \A m : Holds(m, p) => m = n
  <2>. TAKE m
  <2>. HAVE Holds(m, p)
  <2>1. m \in Nat /\ n \in Nat BY DEF Holds
  <2>2. ~(m < n) /\ ~(n < m) BY <1>1
  <2>. QED BY <2>1, <2>2
<1>3. LineHolding(p) = CHOOSE m : Holds(m, p) BY DEF LineHolding, Holds
<1>. QED BY <1>2, <1>3

(* Some line holds each call the text spells out.                          *)
LEMMA AllHeld ==
  ASSUME Len(lines) \in Nat, NEW p \in 1..Lines(Len(lines))
  PROVE  \E n : Holds(n, p)
<1>1. Lines(Len(lines)) \in Nat /\ p \in Nat /\ p # 0 /\ p <= Lines(Len(lines))
  BY LinesGrow
<1>2. PICK S : S = {n \in Nat : p <= Lines(n)} OBVIOUS
<1>3. Len(lines) \in S /\ S \subseteq Nat BY <1>1, <1>2
<1>4. PICK n \in S : \A m \in S : n <= m BY <1>3, LeastNatural
<1>5. n \in Nat /\ n <= Len(lines) /\ p <= Lines(n) BY <1>2, <1>3, <1>4
<1>6. n # 0 BY <1>1, <1>5, LinesGrow
<1>7. n - 1 \in Nat /\ ~(n <= n - 1) BY <1>5, <1>6
<1>8. ~(p <= Lines(n - 1)) BY <1>2, <1>4, <1>7
<1>9. Lines(n - 1) \in Nat /\ Lines(n) \in Nat BY <1>5, <1>7, LinesGrow
<1>10. p \in (Lines(n - 1) + 1)..Lines(n) BY <1>1, <1>5, <1>8, <1>9
<1>. QED BY <1>5, <1>6, <1>10 DEF Holds

LEMMA TextSpellsTokens ==
  ASSUME lines \in Seq(TextLine)
  PROVE  TestsSpelledOut \in Seq(Calls!Token)
<1>1. Len(lines) \in Nat /\ \A n \in 1..Len(lines) : lines[n] \in TextLine
  OBVIOUS
<1>2. Lines(Len(lines)) \in Nat BY <1>1, LinesGrow
<1>3. ASSUME NEW p \in 1..Lines(Len(lines)) PROVE CallHeld(p) \in Calls!Token
  <2>1. PICK n : Holds(n, p) BY <1>1, AllHeld
  <2>2. p \in Nat BY <1>2
  <2>3. LineHolding(p) = n BY <1>1, <2>1, <2>2, HeldOnce
  <2>4. lines[n] \in TextLine BY <1>1, <2>1 DEF Holds
  <2>5. TextLine \subseteq Calls!Token /\ "do" \in Calls!Token BY DEF TextLine, LineKind, Calls!Token
  <2>. QED BY <2>3, <2>4, <2>5 DEF CallHeld
<1>. QED BY <1>2, <1>3, SpelledOut

LEMMA TextReads ==
  ASSUME Plainly
  PROVE  TestsSpelledOut = program
<1>1. /\ Len(program) \in Nat \ {0} /\ DOMAIN program = 1..Len(program)
      /\ Len(lines) \in Nat
      /\ LinesAre(program, lines)
      /\ program[Len(program)] = "end"
      /\ \A p \in 1..Len(program) : program[p] = "do" <=> p # 1 /\ program[p - 1] = "while"
  BY TestsFollow
<1> DEFINE L(p) == LineOf(program, p)
<1>2. ASSUME NEW p \in 0..Len(program)
      PROVE  /\ Lines(L(p)) = IF Tested(p) THEN p + 1 ELSE p
             /\ L(p) \in 0..Len(lines) /\ L(p) = p - Dos(p) /\ Dos(p) \in Nat
  <2>1. /\ Dos(p) \in Nat /\ Dos(p) <= p
        /\ Whiles(p) = Dos(p) + (IF Tested(p) THEN 1 ELSE 0)
        /\ CountOf(lines, "while", L(p)) = Whiles(p)
        /\ L(p) \in 0..Len(lines)
    BY TestsCounted
  <2>2. L(p) = p - Dos(p) BY DEF LineOf, Dos
  <2>3. Lines(L(p)) = Whiles(p) + L(p) BY <2>1 DEF Lines
  <2>4. p \in Nat BY <1>1
  <2>. QED BY <2>1, <2>2, <2>3, <2>4
<1>3. ASSUME NEW p \in 1..Len(program)
      PROVE  Dos(p) = Dos(p - 1) + (IF program[p] = "do" THEN 1 ELSE 0)
  <2>1. p \in Nat /\ p # 0 BY <1>1
  <2>. QED BY <2>1, CountStep DEF Dos
<1>4. ASSUME NEW p \in 1..Len(program), program[p] # "do" PROVE CallHeld(p) = program[p]
  <2>1. /\ p \in Nat /\ p # 0 /\ p \in 0..Len(program) /\ p - 1 \in 0..Len(program)
    BY <1>1
  <2>2. L(p) \in 1..Len(lines) /\ lines[L(p)] = program[p]
    BY <1>1, <1>4 DEF LinesAre
  <2>3. ~Tested(p - 1) BY <1>1, <1>4, <2>1 DEF Tested
  <2>4. L(p) - 1 = L(p - 1)
    <3>1. Dos(p) = Dos(p - 1) + 0 BY <1>3, <1>4
    <3>2. L(p) = p - Dos(p) /\ L(p - 1) = (p - 1) - Dos(p - 1) /\ Dos(p - 1) \in Nat
      BY <1>2, <2>1
    <3>. QED BY <2>1, <3>1, <3>2
  <2>5. Lines(L(p) - 1) = p - 1 BY <1>2, <2>1, <2>3, <2>4
  <2>6. Lines(L(p)) = IF Tested(p) THEN p + 1 ELSE p BY <1>2, <2>1
  <2>7. Holds(L(p), p) BY <2>1, <2>2, <2>5, <2>6 DEF Holds
  <2>8. LineHolding(p) = L(p) BY <1>1, <2>1, <2>7, HeldOnce
  <2>9. p < Lines(L(p)) \/ lines[L(p)] # "while" BY <2>1, <2>2, <2>6 DEF Tested
  <2>. QED BY <2>2, <2>8, <2>9 DEF CallHeld
<1>5. ASSUME NEW p \in 1..Len(program), program[p] = "do" PROVE CallHeld(p) = program[p]
  <2>1. p # 1 /\ program[p - 1] = "while" BY <1>1, <1>5
  <2>2. PICK r : r = p - 1 OBVIOUS
  <2>3. /\ p \in Nat /\ r \in Nat /\ r # 0 /\ r \in 1..Len(program) /\ r \in 0..Len(program)
        /\ p \in 0..Len(program) /\ r - 1 \in 0..Len(program) /\ r + 1 = p /\ p # r
    BY <1>1, <2>1, <2>2
  <2>4. program[r] = "while" /\ program[r] # "do" BY <2>1, <2>2
  <2>5. Tested(r) /\ ~Tested(p) BY <1>5, <2>3, <2>4 DEF Tested
  <2>6. ~Tested(r - 1) BY <1>1, <2>3, <2>4 DEF Tested
  <2>7. L(p) = L(r) /\ L(r) - 1 = L(r - 1)
    <3>1. Dos(p) = Dos(r) + 1 BY <1>3, <1>5, <2>2
    <3>2. Dos(r) = Dos(r - 1) + (IF program[r] = "do" THEN 1 ELSE 0) BY <1>3, <2>3
    <3>3. /\ L(p) = p - Dos(p) /\ L(r) = r - Dos(r) /\ L(r - 1) = (r - 1) - Dos(r - 1)
          /\ Dos(p) \in Nat /\ Dos(r) \in Nat /\ Dos(r - 1) \in Nat
      BY <1>2, <2>3
    <3>4. Dos(r) = Dos(r - 1) BY <2>4, <3>2, <3>3
    <3>. QED BY <2>3, <3>1, <3>3, <3>4
  <2>8. Lines(L(p)) = p BY <1>2, <2>3, <2>5
  <2>9. Lines(L(p) - 1) = r - 1 BY <1>2, <2>3, <2>6, <2>7
  <2>10. L(p) \in 1..Len(lines) /\ lines[L(p)] = "while"
    BY <1>1, <2>3, <2>4, <2>7 DEF LinesAre
  <2>11. Holds(L(p), p) BY <2>3, <2>8, <2>9, <2>10 DEF Holds
  <2>12. LineHolding(p) = L(p) BY <1>1, <2>3, <2>11, HeldOnce
  <2>13. ~(p < Lines(L(p))) BY <2>3, <2>8
  <2>. QED BY <1>5, <2>10, <2>12, <2>13 DEF CallHeld
<1>6. Lines(Len(lines)) = Len(program)
  <2>1. L(Len(program)) = Len(lines) BY <1>1 DEF LinesAre
  <2>2. ~Tested(Len(program)) BY <1>1 DEF Tested
  <2>3. Len(program) \in 0..Len(program) BY <1>1
  <2>. QED BY <1>2, <2>1, <2>2, <2>3
<1>7. TestsSpelledOut = [p \in 1..Len(program) |-> program[p]]
  BY <1>4, <1>5, <1>6, SpelledOut
<1>8. program \in Seq(Calls!Token) BY ReadyFacts DEF Plainly, Tokens
<1>. QED BY <1>1, <1>7, <1>8

LEMMA BeforeCounts ==
  ASSUME Plainly, NEW w, NEW p \in 1..(Len(program) + 1)
  PROVE  Before({w}, p) = CountOf(program, w, p - 1)
<1>1. Len(program) \in Nat /\ DOMAIN program = 1..Len(program) BY TestsFollow
<1>2. \A q \in 1..(p - 1) : q \in DOMAIN program BY <1>1
<1>3. {q \in 1..(p - 1) : q \in DOMAIN program /\ program[q] \in {w}} =
        {q \in 1..(p - 1) : program[q] = w}
  BY <1>2
<1>. QED BY <1>3 DEF Before, CountOf

LEMMA InTextIs ==
  ASSUME Plainly, NEW p \in 1..(Len(program) + 1)
  PROVE  InText(p) = IF Tested(p - 1) THEN p + 1 ELSE p
<1>1. Len(program) \in Nat BY TestsFollow
<1>2. PICK r : r = p - 1 OBVIOUS
<1>3. r \in 0..Len(program) /\ p \in Nat BY <1>1, <1>2
<1>4. Before({"while"}, p) = Whiles(r) /\ Before({"do"}, p) = Dos(r)
  BY <1>2, BeforeCounts DEF Whiles, Dos
<1>5. Dos(r) \in Nat /\ Whiles(r) = Dos(r) + (IF Tested(r) THEN 1 ELSE 0)
  BY <1>3, TestsCounted
<1>6. InText(p) = p + Whiles(r) - Dos(r) BY <1>4 DEF InText
<1>. QED BY <1>2, <1>3, <1>5, <1>6

LEMMA BeforeStart ==
  ASSUME at = 0, program \in Tokens
  PROVE  AtInText = 0
<1>1. DOMAIN program = 1..Len(program) BY DEF Tokens
<1>2. at \notin DOMAIN program BY <1>1
<1>3. \A tokens : Before(tokens, 0) = 0
  <2>. TAKE tokens
  <2>1. 1..(0 - 1) = {} OBVIOUS
  <2>2. {q \in 1..(0 - 1) : q \in DOMAIN program /\ program[q] \in tokens} = {} BY <2>1
  <2>. QED BY <2>2, FS_EmptySet DEF Before
<1>4. InText(0) = 0 BY <1>3 DEF InText
<1>. QED BY <1>2, <1>4 DEF AtInText

LEMMA LoopBefore ==
  ASSUME Plainly, NEW p \in 1..Len(program), program[p] = "do"
  PROVE  Calls!Loop(p) = p - 1
<1>1. /\ Len(program) \in Nat \ {0} /\ p # 1 /\ program[p - 1] = "while" /\ program \in Tokens
      /\ Ready
  BY TestsFollow, ReadyFacts DEF Plainly
<1>2. PICK r : r = p - 1 OBVIOUS
<1>3. /\ r \in 1..(p - 1) /\ r \in 0..Len(program) /\ program[r] = "while"
      /\ \A q \in r..(p - 1) : q = r
  BY <1>1, <1>2
<1>4. DepthOf(program)[r] \in Int BY <1>1, <1>3, DepthSteps DEF Tokens
<1>5. r \in AroundIn(program, p) BY <1>3, <1>4 DEF AroundIn, Calls!Openers
<1>6. \A q \in AroundIn(program, p) : q <= r BY <1>1, <1>2 DEF AroundIn
<1>7. LoopIs(program, p, r) BY <1>3, <1>5, <1>6 DEF LoopIs, IsLast
<1>. QED BY <1>1, <1>2, <1>7, CallsMeaning

LEMMA PlaceReads ==
  ASSUME Plainly, at \in 0..(Len(program) + 1)
  PROVE  AtInText = at
<1>1. /\ Len(program) \in Nat \ {0} /\ DOMAIN program = 1..Len(program)
      /\ program[Len(program)] = "end"
      /\ \A p \in 1..Len(program) : program[p] = "do" <=> p # 1 /\ program[p - 1] = "while"
  BY TestsFollow
<1>2. CASE at = 0 BY <1>2, BeforeStart, ReadyFacts DEF Plainly
<1>3. CASE at # 0 /\ ~(at \in DOMAIN program /\ program[at] = "do")
  <2>1. at \in 1..(Len(program) + 1) BY <1>1, <1>3
  <2>2. ~Tested(at - 1)
    <3>1. CASE at = Len(program) + 1
      <4>1. at - 1 = Len(program) BY <1>1, <3>1
      <4>. QED BY <1>1, <4>1 DEF Tested
    <3>2. CASE at \in 1..Len(program)
      <4>1. at = 1 \/ program[at - 1] # "while" BY <1>1, <1>3, <3>2
      <4>. QED BY <3>2, <4>1 DEF Tested
    <3>. QED BY <1>1, <2>1, <3>1, <3>2
  <2>3. InText(at) = at BY <2>1, <2>2, InTextIs
  <2>. QED BY <1>3, <2>3 DEF AtInText
<1>4. CASE at \in DOMAIN program /\ program[at] = "do"
  <2>1. PICK r : r = at - 1 OBVIOUS
  <2>2. at \in 1..Len(program) /\ Calls!Loop(at) = r BY <1>1, <1>4, <2>1, LoopBefore
  <2>3. at # 1 /\ program[r] = "while" BY <1>1, <1>4, <2>1, <2>2
  <2>4. r \in 1..Len(program) /\ r \in 1..(Len(program) + 1) /\ r + 1 = at
    BY <1>1, <2>1, <2>2, <2>3
  <2>5. ~Tested(r - 1) BY <1>1, <2>3, <2>4 DEF Tested
  <2>6. InText(r) = r BY <2>4, <2>5, InTextIs
  <2>. QED BY <1>4, <2>2, <2>4, <2>6 DEF AtInText
<1>. QED BY <1>2, <1>3, <1>4

(* The text, read as a structured program, means what the calls mean once  *)
(* the two are the same.                                                   *)
Shown == IF Pure THEN TestsSpelledOut ELSE <<>>

LEMMA SameMeaning ==
  ASSUME Shown = program
  PROVE  /\ \A p : PureText!Settled(p) = Calls!Settled(p)
         /\ \A p : PureText!Otherwise(p) = Calls!Otherwise(p)
         /\ \A p : PureText!EndOf(p) = Calls!EndOf(p)
         /\ \A p : PureText!Loop(p) = Calls!Loop(p)
         /\ PureText!Complete = Calls!Complete
<1>1. \A S : PureText!Cardinality(S) = Calls!Cardinality(S)
  BY DEF PureText!Cardinality, Calls!Cardinality
<1>2. PureText!Openers = Calls!Openers BY DEF PureText!Openers, Calls!Openers
<1>3. \A S : PureText!First(S) = Calls!First(S) /\ PureText!Last(S) = Calls!Last(S)
  BY DEF PureText!First, Calls!First, PureText!Last, Calls!Last
<1>4. PureText!Depth = Calls!Depth
  BY <1>1, <1>2 DEF PureText!Depth, Calls!Depth, Shown
<1>5. \A p : PureText!EndOf(p) = Calls!EndOf(p)
  BY <1>3, <1>4 DEF PureText!EndOf, Calls!EndOf, Shown
<1>6. \A p : PureText!Around(p) = Calls!Around(p)
  BY <1>2, <1>4 DEF PureText!Around, Calls!Around, Shown
<1>7. \A p : PureText!Loop(p) = Calls!Loop(p)
  BY <1>3, <1>6 DEF PureText!Loop, Calls!Loop, Shown
<1>8. \A p : PureText!Opener(p) = Calls!Opener(p)
  BY <1>3, <1>6 DEF PureText!Opener, Calls!Opener, Shown
<1>9. \A p : PureText!Otherwise(p) = Calls!Otherwise(p)
  BY <1>3, <1>5, <1>8 DEF PureText!Otherwise, Calls!Otherwise, Shown
<1>10. \A p : PureText!Onward(p) = Calls!Onward(p)
  BY <1>5, <1>7, <1>8 DEF PureText!Onward, Calls!Onward, PureText!Is, Calls!Is, Shown
<1>11. ASSUME NEW p PROVE PureText!Settled(p) = Calls!Settled(p)
  <2> DEFINE Is(f) == f = [n \in 0..Len(program) |->
                            IF n = 0 THEN {p} ELSE {Calls!Onward(q) : q \in f[n - 1]}]
             Reads(f) == f = [n \in 0..Len(Shown) |->
                               IF n = 0 THEN {p} ELSE {PureText!Onward(q) : q \in f[n - 1]}]
             h == CHOOSE f : Is(f)
             k == CHOOSE f : Reads(f)
  <2>1. Calls!Settled(p) = CHOOSE q \in h[Len(program)] : TRUE BY DEF Calls!Settled
  <2>2. PureText!Settled(p) = CHOOSE q \in k[Len(Shown)] : TRUE BY DEF PureText!Settled, Shown
  <2>3. \A f : Reads(f) <=> Is(f) BY <1>10
  <2>. HIDE DEF Is, Reads
  <2>4. k = h BY <2>3
  <2>. HIDE DEF h, k
  <2>. QED BY <2>1, <2>2, <2>4
<1>12. PureText!Complete = Calls!Complete
  BY <1>4 DEF PureText!Complete, Calls!Complete, Shown
<1>. QED BY <1>5, <1>7, <1>9, <1>11, <1>12

Place  == IF Pure THEN AtInText ELSE 0
Turned == Pure /\ turn

ReadInv ==
  /\ ExecInv /\ Lined
  /\ pc = Idle => turn = FALSE

(* What the text shows of a state.                                         *)
ShowsRight ==
  /\ Shown \in Seq(Calls!Token)
  /\ pc = Idle => Place = 0 /\ ~Turned
  /\ Ready /\ Pure => Shown = program /\ Place = at /\ Turned = turn

LEMMA StandsWithin ==
  ASSUME Ready, Stands
  PROVE  at \in 0..(Len(program) + 1)
<1>1. Len(program) \in Nat BY ReadyFacts
<1>2. CASE at = Len(program) + 1 BY <1>1, <1>2
<1>3. ASSUME NEW b, NEW i, Live(b, i), at = Calls!Settled(CallIn(b, i))
      PROVE  at \in 0..(Len(program) + 1)
  <2>1. PICK q : q = CallIn(b, i) OBVIOUS
  <2>2. Comes(b, i, q) BY <1>3, <2>1 DEF Comes
  <2>3. PICK o, l : Mapped(o, l) BY ReadyFacts
  <2>4. q \in 1..Len(program) BY <2>2, <2>3, ComesWhere
  <2>5. q \in Met BY <2>2, <2>4 DEF Met
  <2>6. Calls!Settled(q) \in Met BY <2>5, Settling
  <2>7. at \in 1..Len(program) BY <1>3, <2>1, <2>6 DEF Met
  <2>. QED BY <1>1, <2>7
<1>. QED BY <1>2, <1>3 DEF Stands

LEMMA ShownRight == ReadInv => ShowsRight
<1>. SUFFICES ASSUME ReadInv PROVE ShowsRight OBVIOUS
<1>1. ExecInv /\ Lined /\ Steady BY DEF ReadInv, ExecInv
<1>2. lines \in Seq(TextLine) /\ program \in Tokens BY <1>1, FramesOf DEF Lined
<1>3. Shown \in Seq(Calls!Token)
  <2>1. TestsSpelledOut \in Seq(Calls!Token) /\ <<>> \in Seq(Calls!Token) BY <1>2, TextSpellsTokens
  <2>. QED BY <2>1 DEF Shown
<1>4. ASSUME pc = Idle PROVE Place = 0 /\ ~Turned
  <2>1. at = 0 /\ turn = FALSE BY <1>4 DEF ReadInv, ExecInv
  <2>2. AtInText = 0 BY <1>2, <2>1, BeforeStart
  <2>. QED BY <2>1, <2>2 DEF Place, Turned
<1>5. ASSUME Ready, Pure PROVE Shown = program /\ Place = at /\ Turned = turn
  <2>1. Plainly BY <1>1, <1>5 DEF Plainly
  <2>2. at \in 0..(Len(program) + 1)
    <3>1. CASE pc = Idle
      <4>1. at = 0 /\ Len(program) \in Nat BY <1>5, <3>1, ReadyFacts DEF ReadInv, ExecInv
      <4>. QED BY <4>1
    <3>2. CASE pc # Idle
      <4>1. Stands BY <3>2 DEF ReadInv, ExecInv
      <4>. QED BY <1>5, <4>1, StandsWithin
    <3>. QED BY <3>1, <3>2
  <2>3. TestsSpelledOut = program /\ AtInText = at BY <2>1, <2>2, TextReads, PlaceReads
  <2>4. turn \in BOOLEAN BY DEF ReadInv, ExecInv
  <2>. QED BY <1>5, <2>3, <2>4 DEF Shown, Place, Turned
<1>. QED BY <1>3, <1>4, <1>5 DEF ShowsRight

LEMMA ShownRightNext == ReadInv' => ShowsRight'
BY ShownRight, PTL

(* A step of the calls is a step of the text that shows them.              *)
LEMMA StepShown ==
  ASSUME Shown = program, Place = at, Turned = turn,
         Shown' = program', Place' = at', Turned' = turn',
         UNCHANGED program, [Calls!Next]_(Calls!vars)
  PROVE  [PureText!Next]_(PureText!vars)
<1>1. Shown' = Shown OBVIOUS
<1>2. CASE UNCHANGED Calls!vars
  <2>1. UNCHANGED <<Shown, Place, Turned>> BY <1>2 DEF Calls!vars
  <2>. QED BY <2>1 DEF PureText!vars, Shown, Place, Turned
<1>3. CASE Calls!Edit
  <2>1. UNCHANGED <<Shown, Place, Turned>> BY <1>3 DEF Calls!Edit
  <2>. QED BY <2>1 DEF PureText!vars, Shown, Place, Turned
<1>4. CASE Calls!Start
  <2>1. Place = 0 /\ PureText!Complete /\ Place' = PureText!Settled(2) /\ UNCHANGED <<Shown, Turned>>
    BY <1>1, <1>4, SameMeaning DEF Calls!Start
  <2>2. PureText!Start BY <2>1 DEF PureText!Start, Shown, Place, Turned
  <2>. QED BY <2>2 DEF PureText!Next
<1>5. CASE Calls!Step
  <2>1. /\ Place \in DOMAIN Shown /\ Shown[Place] \in PureText!Resting
        /\ \/ Shown[Place] # "return" /\ Place' = PureText!Settled(Place + 1)
           \/ Shown[Place] = "if" /\ Place' = PureText!Settled(PureText!Otherwise(Place) + 1)
           \/ Shown[Place] = "do" /\ Place' = PureText!Settled(PureText!EndOf(PureText!Loop(Place)) + 1)
           \/ Shown[Place] = "return" /\ Place' = Len(Shown) + 1
    BY <1>5, SameMeaning DEF Calls!Step, Calls!Is, Calls!Resting, PureText!Resting
  <2>2. Turned' = ~Turned BY <1>5 DEF Calls!Step
  <2>3. PureText!Step
    BY <1>1, <2>1, <2>2 DEF PureText!Step, PureText!Is, Shown, Place, Turned
  <2>. QED BY <2>3 DEF PureText!Next
<1>. QED BY <1>2, <1>3, <1>4, <1>5 DEF Calls!Next

LEMMA RunningStays ==
  ASSUME ReadInv, Start \/ Execute
  PROVE  Ready /\ Still /\ pc' # Idle
<1>1. ASSUME NEW c, c.index # 0, Continues(c) PROVE pc' # Idle
  <2>1. Idle.index = 0 /\ pc' = c BY <1>1 DEF Idle, Continues
  <2>. QED BY <1>1, <2>1
<1>2. CASE Start
  <2>1. Ready /\ Still BY <1>2 DEF ReadInv, ExecInv, Ready, Start, Still
  <2>2. PICK c : c = [block |-> entry[function_], index |-> 1] OBVIOUS
  <2>3. c.index # 0 /\ Continues(c) BY <1>2, <2>2 DEF Start
  <2>. QED BY <1>1, <2>1, <2>3
<1>3. CASE Execute
  <2>1. pc \notin {Idle, Finished} /\ ~FellOff(pc) /\ Still BY <1>3 DEF Execute, Still
  <2>2. Ready /\ Stands BY <2>1 DEF ReadInv, ExecInv
  <2>3. PICK b, i : Live(b, i) /\ pc = Point(b, i) BY <2>1, <2>2 DEF Stands
  <2>4. pc.index = i /\ i \in Nat \ {0} BY <2>3 DEF Live, Point
  <2>5. CASE Continues([pc EXCEPT !.index = @ + 1])
    <3>1. PICK c : c = [pc EXCEPT !.index = @ + 1] OBVIOUS
    <3>2. c.index = i + 1 BY <2>3, <2>4, <3>1 DEF Point
    <3>3. c.index # 0 /\ Continues(c) BY <2>4, <2>5, <3>1, <3>2
    <3>. QED BY <1>1, <2>1, <2>2, <3>3
  <2>6. ASSUME NEW b2, Continues([block |-> b2, index |-> 1]) PROVE pc' # Idle
    <3>1. PICK c : c = [block |-> b2, index |-> 1] OBVIOUS
    <3>2. c.index # 0 /\ Continues(c) BY <2>6, <3>1
    <3>. QED BY <1>1, <3>2
  <2>7. CASE Continues(Finished)
    <3>1. Finished.index # 0 BY DEF Finished
    <3>. QED BY <1>1, <2>1, <2>2, <2>7, <3>1
  <2>8. \/ Continues([pc EXCEPT !.index = @ + 1])
        \/ \E b2 : Continues([block |-> b2, index |-> 1])
        \/ Continues(Finished)
    BY <1>3 DEF Execute
  <2>. QED BY <2>1, <2>2, <2>5, <2>6, <2>7, <2>8
<1>. QED BY <1>2, <1>3

LEMMA ReadKept ==
  ASSUME ReadInv, [ExecutionNext]_allVars
  PROVE  ReadInv'
<1>1. ExecInv' BY ExecStep DEF ReadInv
<1>2. CASE Building /\ Build
  <2>1. Lined' BY <1>2, LinedKept DEF ReadInv, ExecInv
  <2>. QED BY <1>1, <1>2, <2>1 DEF ReadInv, Building
<1>3. CASE Start \/ Execute
  <2>1. Lined' /\ pc' # Idle BY <1>3, RunningStays, LinedStays DEF ReadInv
  <2>. QED BY <1>1, <2>1 DEF ReadInv, Idle
<1>4. CASE UNCHANGED allVars
  <2>1. Still /\ UNCHANGED <<pc, turn>> BY <1>4 DEF allVars, Still
  <2>2. Lined' BY <2>1, LinedStays DEF ReadInv
  <2>. QED BY <1>1, <2>1, <2>2 DEF ReadInv, Idle
<1>. QED BY <1>2, <1>3, <1>4 DEF ExecutionNext

LEMMA ReadStep ==
  ASSUME ReadInv, [ExecutionNext]_allVars
  PROVE  [PureText!Next]_(PureText!vars)
<1>1. ReadInv' /\ ShowsRight /\ ShowsRight' BY ReadKept, ShownRight, ShownRightNext
<1>2. CASE Building /\ Build
  <2>1. pc = Idle /\ pc' = Idle' BY <1>2 DEF Building, Idle
  <2>2. Place = 0 /\ ~Turned /\ Place' = 0 /\ ~Turned' /\ Shown' \in Seq(Calls!Token)
    BY <1>1, <2>1 DEF ShowsRight
  <2>3. Calls!Token = PureText!Token BY DEF Calls!Token, PureText!Token
  <2>4. PureText!Edit BY <2>2, <2>3 DEF PureText!Edit, Shown, Place, Turned
  <2>. QED BY <2>4 DEF PureText!Next
<1>3. ASSUME Ready, Still, Ready' PROVE [PureText!Next]_(PureText!vars)
  <2>1. Pure' = Pure /\ UNCHANGED program BY <1>3, LinedStays DEF ReadInv, Still, record
  <2>2. CASE Pure
    <3>1. /\ Shown = program /\ Place = at /\ Turned = turn
          /\ Shown' = program' /\ Place' = at' /\ Turned' = turn'
      BY <1>1, <1>3, <2>1, <2>2 DEF ShowsRight
    <3>2. [Calls!Next]_(Calls!vars) BY ExecStep DEF ReadInv
    <3>. QED BY <2>1, <3>1, <3>2, StepShown
  <2>3. CASE ~Pure
    <3>1. UNCHANGED <<Shown, Place, Turned>> BY <2>1, <2>3 DEF Shown, Place, Turned
    <3>. QED BY <3>1 DEF PureText!vars, Shown, Place, Turned
  <2>. QED BY <2>2, <2>3
<1>4. CASE Start \/ Execute
  <2>1. Ready /\ Still BY <1>4, RunningStays
  <2>2. Ready' BY <2>1, StillTold DEF Ready
  <2>. QED BY <1>3, <2>1, <2>2
<1>5. CASE UNCHANGED allVars
  <2>1. UNCHANGED <<Shown, Place, Turned>>
    BY <1>5 DEF allVars, vars, record, Shown, Place, Turned, Pure, TestsSpelledOut, AtInText, InText, Before,
                Calls!Loop, Calls!Around, Calls!Depth
  <2>. QED BY <2>1 DEF PureText!vars, Shown, Place, Turned
<1>. QED BY <1>2, <1>4, <1>5 DEF ExecutionNext

LEMMA ReadInitially == ASSUME ExecutionInit PROVE ReadInv /\ PureText!Init
<1>1. ReadInv BY ExecInitially, LinedInitially DEF ReadInv, ExecutionInit
<1>2. program = <<>> /\ lines = <<>> /\ pc = Idle BY DEF ExecutionInit, Init
<1>3. Place = 0 /\ ~Turned BY <1>1, <1>2, ShownRight DEF ShowsRight
<1>4. Shown = <<>>
  <2>1. Len(lines) = 0 /\ Lines(0) = 0 BY <1>2, LinesGrow
  <2>2. TestsSpelledOut = <<>> BY <2>1, SpelledOut
  <2>. QED BY <2>2 DEF Shown
<1>. QED BY <1>1, <1>3, <1>4 DEF PureText!Init, Shown, Place, Turned

(* When no condition has statements of its own, the lines of the text,     *)
(* read as a structured program, run as the blocks do.                     *)
THEOREM TextReadsRight == ExecutionSpec => PureConditionsReadRight
<1>1. ExecutionInit => ReadInv /\ PureText!Init BY ReadInitially
<1>2. ReadInv /\ [ExecutionNext]_allVars => ReadInv' /\ [PureText!Next]_(PureText!vars)
  BY ReadKept, ReadStep
<1>. QED BY <1>1, <1>2, PTL DEF ExecutionSpec, PureConditionsReadRight, PureText!Safety
=============================================================================
