---------------------------- MODULE SessionProofs ----------------------------
(***************************************************************************)
(* Proofs about Session, for every number of threads, builders and         *)
(* functions, and every depth of lambdas in lambdas.                       *)
(***************************************************************************)
EXTENDS Session, SequenceTheorems, TLAPS

-----------------------------------------------------------------------------
(* The inductive invariant.                                                *)

SessionTypeOK ==
  /\ asserts \in BOOLEAN
  /\ current_builder \in [Thread -> Builder \cup {None}]
  /\ calls \in [Thread -> Seq(Call)]
  /\ function_ \in [Builder -> 0..MaxFunctions]
  /\ threw \subseteq Thread /\ misplaced \subseteq Thread
  /\ aborted \in Thread \cup {None}

(* create_function puts back the builder of the lambda it was called in.   *)
WellNested ==
  \A t \in Thread : Sound(t) =>
    \A i \in DOMAIN calls[t] :
      i > 1 => calls[t][i].prev_builder = calls[t][i - 1].builder

(* The assert keeps a thread to one builder.                               *)
OneBuilder ==
  asserts => \A t \in Thread : \A i \in DOMAIN calls[t] :
               calls[t][i].builder = current_builder[t]

(* The outermost create_function puts back the null pointer.               *)
OutermostFoundNone ==
  \A t \in Thread : t \notin threw /\ calls[t] # <<>> => calls[t][1].prev_builder = None

(* A builder's function is that of the lambda it is running.               *)
FunctionCurrent ==
  \A t \in Thread : \A i \in DOMAIN calls[t] :
    calls[t][i].fn = function_[calls[t][i].builder]

FindInv == SessionTypeOK /\ WellNested /\ OneBuilder /\ LambdaFindsItsBuilder
IdleInv == OutermostFoundNone /\ IdleThreadHasNone
WriteInv == FunctionCurrent /\ LambdaWritesOwnFunction
SessionInv == FindInv /\ IdleInv /\ WriteInv /\ AssertStopsOnlyMixing

-----------------------------------------------------------------------------
(* Stacks of calls.                                                        *)

LEMMA StackFacts ==
  ASSUME NEW s \in Seq(Call)
  PROVE  /\ Len(s) \in Nat /\ DOMAIN s = 1..Len(s)
         /\ \A i \in 1..Len(s) : s[i] \in Call
         /\ s # <<>> => Len(s) \in 1..Len(s)
<1>1. Len(s) \in Nat /\ DOMAIN s = 1..Len(s) BY LenProperties
<1>2. \A i \in 1..Len(s) : s[i] \in Call BY ElementOfSeq
<1>3. s # <<>> => Len(s) \in Nat \ {0} BY EmptySeq
<1>4. s # <<>> => Len(s) \in 1..Len(s) BY <1>3
<1>. QED BY <1>1, <1>2, <1>4

(* Lambdas that returned or threw leave the ones around them.              *)
LEMMA PrefixFacts ==
  ASSUME NEW s \in Seq(Call), NEW k \in 0..Len(s)
  PROVE  /\ SubSeq(s, 1, k) \in Seq(Call) /\ Len(SubSeq(s, 1, k)) = k
         /\ DOMAIN SubSeq(s, 1, k) = 1..k
         /\ \A i \in 1..k : SubSeq(s, 1, k)[i] = s[i] /\ i \in DOMAIN s
<1> DEFINE p == SubSeq(s, 1, k)
<1>1. Len(s) \in Nat /\ k \in Int BY StackFacts
<1>2. \A i \in 1..k : i \in 1..Len(s) BY <1>1
<1>3. \A i \in 1..k : s[i] \in Call /\ i \in DOMAIN s BY <1>2, StackFacts
<1>4. /\ p \in Seq(Call) /\ Len(p) = IF 1 <= k THEN k - 1 + 1 ELSE 0
      /\ \A i \in 1..(k - 1 + 1) : p[i] = s[1 + i - 1]
  BY <1>1, <1>3, SubSeqProperties
<1>. HIDE DEF p
<1>5. Len(p) = k /\ \A i \in 1..k : p[i] = s[i] BY <1>1, <1>4
<1>6. DOMAIN p = 1..k BY <1>4, <1>5, LenProperties
<1>. QED BY <1>3, <1>4, <1>5, <1>6 DEF p

LEMMA NewCallFacts ==
  ASSUME NEW s \in Seq(Call), NEW c \in Call
  PROVE  /\ Append(s, c) \in Seq(Call) /\ Append(s, c) # <<>>
         /\ Len(s) \in Nat /\ Len(Append(s, c)) = Len(s) + 1
         /\ DOMAIN s = 1..Len(s) /\ DOMAIN Append(s, c) = 1..(Len(s) + 1)
         /\ \A i \in 1..Len(s) : Append(s, c)[i] = s[i]
         /\ Append(s, c)[Len(s) + 1] = c
  BY Z3

(* What create_function's part before the lambda does when its assert      *)
(* does not fail.                                                          *)
Starts(t, b, c) ==
  /\ c = [builder |-> b, prev_builder |-> current_builder[t], fn |-> function_[b] + 1]
  /\ calls' = [calls EXCEPT ![t] = Append(@, c)]
  /\ current_builder' = [current_builder EXCEPT ![t] = b]
  /\ function_' = [function_ EXCEPT ![b] = @ + 1]
  /\ UNCHANGED <<asserts, threw, misplaced, aborted>>

(* The k outermost lambdas of t are still running.                         *)
Unwinds(t, k) ==
  /\ calls' = [calls EXCEPT ![t] = SubSeq(@, 1, k)]
  /\ UNCHANGED <<asserts, function_, misplaced, aborted>>

Ends(t) ==
  /\ calls[t] # <<>> /\ Len(calls[t]) - 1 \in 0..Len(calls[t])
  /\ Unwinds(t, Len(calls[t]) - 1)
  /\ current_builder' = [current_builder EXCEPT ![t] = PreviousBuilder(t)]
  /\ UNCHANGED threw
ThrowsTo(t, k) ==
  /\ Unwinds(t, k)
  /\ threw' = threw \cup {t} /\ UNCHANGED current_builder

(* Every step starts a lambda, ends one, throws through some, is a         *)
(* statement, or ends the process.                                         *)
LEMMA StepCases ==
  ASSUME SessionTypeOK, [Next]_vars
  PROVE  \/ \E t \in Thread, b \in Builder, c \in Call :
              MayUse(t, b) /\ ~Builds(t, b) /\ ~AssertFails(t, b) /\ Starts(t, b, c)
         \/ \E t \in Thread : Ends(t)
         \/ \E t \in Thread : \E k \in 0..Len(calls[t]) : ThrowsTo(t, k)
         \/ \E t \in Thread : Statement(t)
         \/ \E t \in Thread, b \in Builder : MayUse(t, b) /\ AssertFails(t, b) /\ Abort(t)
         \/ UNCHANGED vars
<1>2. ASSUME NEW t \in Thread, NEW b \in Builder, CreateFunction(t, b),
             ~AssertFails(t, b)
      PROVE  \E c \in Call : Starts(t, b, c)
  <2> DEFINE c == [builder |-> b, prev_builder |-> current_builder[t],
                   fn |-> function_[b] + 1]
  <2>1. function_[b] + 1 \in 1..MaxFunctions
    BY <1>2, SessionAssumption DEF CreateFunction, SessionTypeOK
  <2>2. c \in Call BY <2>1 DEF SessionTypeOK, Call
  <2>3. Starts(t, b, c) BY <1>2 DEF CreateFunction, Starts, Installed
  <2>. QED BY <2>2, <2>3
<1>3. ASSUME NEW t \in Thread, NEW b \in Builder, CreateFunction(t, b)
      PROVE  \/ MayUse(t, b) /\ AssertFails(t, b) /\ Abort(t)
             \/ /\ MayUse(t, b) /\ ~Builds(t, b) /\ ~AssertFails(t, b)
                /\ \E c \in Call : Starts(t, b, c)
  <2>1. CASE AssertFails(t, b) BY <1>3, <2>1 DEF CreateFunction
  <2>2. CASE ~AssertFails(t, b)
    <3>1. \E c \in Call : Starts(t, b, c) BY <1>2, <1>3, <2>2
    <3>. QED BY <1>3, <2>2, <3>1 DEF CreateFunction
  <2>. QED BY <2>1, <2>2
<1>4. ASSUME NEW t \in Thread, NEW b \in Builder, DeclareExternal(t, b)
      PROVE  UNCHANGED vars \/ (MayUse(t, b) /\ AssertFails(t, b) /\ Abort(t))
  BY <1>4 DEF DeclareExternal
<1>5. ASSUME NEW t \in Thread, EndFunction(t) PROVE Ends(t)
  <2>1. calls[t] \in Seq(Call) BY DEF SessionTypeOK
  <2>2. calls[t] # <<>> BY <1>5 DEF EndFunction
  <2>3. Len(calls[t]) \in Nat \ {0} BY <2>1, <2>2, EmptySeq
  <2>4. Len(calls[t]) - 1 \in 0..Len(calls[t]) BY <2>3
  <2>. QED BY <1>5, <2>2, <2>4 DEF EndFunction, Ends, Unwinds, Installed
<1>6. ASSUME NEW t \in Thread, Throw(t)
      PROVE  \E k \in 0..Len(calls[t]) : ThrowsTo(t, k)
  <2>1. PICK k \in 0..(Len(calls[t]) - 1) : calls' = [calls EXCEPT ![t] = SubSeq(@, 1, k)]
    BY <1>6 DEF Throw
  <2>2. calls[t] \in Seq(Call) BY DEF SessionTypeOK
  <2>3. Len(calls[t]) \in Nat BY <2>2, StackFacts
  <2>4. k \in 0..Len(calls[t]) BY <2>3
  <2>. QED BY <1>6, <2>1, <2>4 DEF Throw, ThrowsTo, Unwinds
<1>. QED BY <1>3, <1>4, <1>5, <1>6 DEF Next

-----------------------------------------------------------------------------
(* What each kind of step keeps: of the current builder...                 *)

LEMMA StartsKeeps ==
  ASSUME FindInv, NEW t \in Thread, NEW b \in Builder, NEW c \in Call,
         Starts(t, b, c), ~AssertFails(t, b)
  PROVE  FindInv'
<1> DEFINE s == calls[t]
<1>0. FindInv /\ SessionTypeOK /\ WellNested /\ OneBuilder /\ LambdaFindsItsBuilder
  BY DEF FindInv
<1>1. s \in Seq(Call) BY <1>0 DEF SessionTypeOK
<1>2. /\ calls'[t] = Append(s, c) /\ current_builder'[t] = b
      /\ \A u \in Thread \ {t} : calls'[u] = calls[u] /\ current_builder'[u] = current_builder[u]
  BY <1>0 DEF Starts, SessionTypeOK
<1>3. /\ Append(s, c) \in Seq(Call) /\ Append(s, c) # <<>>
      /\ Len(s) \in Nat /\ Len(Append(s, c)) = Len(s) + 1
      /\ DOMAIN s = 1..Len(s) /\ DOMAIN Append(s, c) = 1..(Len(s) + 1)
      /\ \A i \in 1..Len(s) : Append(s, c)[i] = s[i]
      /\ Append(s, c)[Len(s) + 1] = c
  BY <1>1, NewCallFacts
<1>4. Sound(t) /\ s # <<>> => current_builder[t] = s[Len(s)].builder
  BY <1>0 DEF LambdaFindsItsBuilder, Innermost
<1>5. /\ c.builder = b /\ c.prev_builder = current_builder[t]
      /\ UNCHANGED <<asserts, threw>> /\ \A u \in Thread : Sound(u)' <=> Sound(u)
  BY DEF Starts, Sound
<1>. HIDE DEF s
<1>6. SessionTypeOK'
  <2>1. calls' \in [Thread -> Seq(Call)]
    BY <1>0, <1>3 DEF Starts, SessionTypeOK, s
  <2>2. current_builder' \in [Thread -> Builder \cup {None}]
    BY <1>0 DEF Starts, SessionTypeOK
  <2>3. function_[b] + 1 \in 0..MaxFunctions
    BY SessionAssumption DEF Call, Starts
  <2>4. function_' \in [Builder -> 0..MaxFunctions]
    BY <1>0, <2>3 DEF Starts, SessionTypeOK
  <2>. QED BY <1>0, <2>1, <2>2, <2>4 DEF Starts, SessionTypeOK
<1>7. WellNested'
  <2>. SUFFICES ASSUME NEW u \in Thread, Sound(u), NEW i \in DOMAIN calls'[u], i > 1
                PROVE  calls'[u][i].prev_builder = calls'[u][i - 1].builder
    BY <1>5 DEF WellNested
  <2>1. CASE u # t BY <1>0, <1>2, <2>1 DEF WellNested
  <2>2. CASE u = t /\ i = Len(s) + 1
    <3>1. i - 1 = Len(s) /\ Len(s) \in 1..Len(s) BY <1>3, <2>2
    <3>2. s # <<>> BY <3>1, <1>3
    <3>. QED BY <1>2, <1>3, <1>4, <1>5, <2>2, <3>1, <3>2
  <2>3. CASE u = t /\ i # Len(s) + 1
    <3>1. i \in 1..Len(s) /\ i - 1 \in 1..Len(s) BY <1>2, <1>3, <2>3
    <3>2. s[i].prev_builder = s[i - 1].builder BY <1>0, <1>3, <2>3, <3>1 DEF WellNested, s
    <3>. QED BY <1>2, <1>3, <2>3, <3>1, <3>2
  <2>. QED BY <2>1, <2>2, <2>3
<1>8. OneBuilder'
  <2>. SUFFICES ASSUME asserts, NEW u \in Thread, NEW i \in DOMAIN calls'[u]
                PROVE  calls'[u][i].builder = current_builder'[u]
    BY <1>5 DEF OneBuilder
  <2>1. CASE u # t BY <1>0, <1>2, <2>1 DEF OneBuilder
  <2>2. CASE u = t /\ i = Len(s) + 1 BY <1>2, <1>3, <1>5, <2>2
  <2>3. CASE u = t /\ i # Len(s) + 1
    <3>1. i \in 1..Len(s) BY <1>2, <1>3, <2>3
    <3>2. s[i].builder = current_builder[t] BY <1>0, <1>3, <3>1 DEF OneBuilder, s
    <3>3. s[i].builder \in Builder BY <1>1, <3>1, StackFacts DEF Call, s
    <3>4. current_builder[t] = b BY <3>2, <3>3, SessionAssumption DEF AssertFails
    <3>. QED BY <1>2, <1>3, <2>3, <3>1, <3>2, <3>4
  <2>. QED BY <2>1, <2>2, <2>3
<1>9. LambdaFindsItsBuilder'
  <2>1. ASSUME NEW u \in Thread, Sound(u), u # t, calls'[u] # <<>>
        PROVE  current_builder'[u] = calls'[u][Len(calls'[u])].builder
    BY <1>0, <1>2, <2>1 DEF LambdaFindsItsBuilder, Innermost
  <2>2. current_builder'[t] = calls'[t][Len(calls'[t])].builder
    BY <1>2, <1>3, <1>5
  <2>. QED BY <1>5, <2>1, <2>2 DEF LambdaFindsItsBuilder, Innermost
<1>. QED BY <1>6, <1>7, <1>8, <1>9 DEF FindInv

(* Unwinding keeps what does not depend on current_builder.                *)
LEMMA UnwindsKeeps ==
  ASSUME FindInv, NEW t \in Thread, NEW k \in 0..Len(calls[t]), Unwinds(t, k)
  PROVE  /\ calls' \in [Thread -> Seq(Call)]
         /\ threw \subseteq threw' => WellNested'
         /\ Len(calls'[t]) = k /\ DOMAIN calls'[t] = 1..k
         /\ k # 0 => calls[t] # <<>>
         /\ \A i \in 1..k : calls'[t][i] = calls[t][i] /\ i \in DOMAIN calls[t]
         /\ \A u \in Thread \ {t} : calls'[u] = calls[u]
<1>0. SessionTypeOK /\ WellNested BY DEF FindInv
<1>1. calls[t] \in Seq(Call) BY <1>0 DEF SessionTypeOK
<1>2. /\ calls'[t] = SubSeq(calls[t], 1, k)
      /\ \A u \in Thread \ {t} : calls'[u] = calls[u]
  BY <1>0 DEF Unwinds, SessionTypeOK
<1>3. /\ SubSeq(calls[t], 1, k) \in Seq(Call) /\ Len(SubSeq(calls[t], 1, k)) = k
      /\ DOMAIN SubSeq(calls[t], 1, k) = 1..k
      /\ \A i \in 1..k : SubSeq(calls[t], 1, k)[i] = calls[t][i] /\ i \in DOMAIN calls[t]
  BY <1>1, PrefixFacts
<1>4. calls' \in [Thread -> Seq(Call)]
  BY <1>0, <1>3 DEF Unwinds, SessionTypeOK
<1>5. k # 0 => calls[t] # <<>>
  <2>1. Len(<<>>) = 0 BY EmptySeq
  <2>. QED BY <2>1
<1>6. ASSUME threw \subseteq threw' PROVE WellNested'
  <2>. SUFFICES ASSUME NEW u \in Thread, Sound(u)', NEW i \in DOMAIN calls'[u], i > 1
                PROVE  calls'[u][i].prev_builder = calls'[u][i - 1].builder
    BY DEF WellNested
  <2>0. Sound(u) BY <1>6 DEF Sound, Unwinds
  <2>1. CASE u # t BY <1>0, <1>2, <2>0, <2>1 DEF WellNested
  <2>2. CASE u = t
    <3>1. i \in 1..k BY <1>2, <1>3, <2>2
    <3>2. k \in Nat BY <1>1, StackFacts
    <3>3. i - 1 \in 1..k BY <3>1, <3>2
    <3>. QED BY <1>0, <1>2, <1>3, <2>0, <2>2, <3>1, <3>3 DEF WellNested
  <2>. QED BY <2>1, <2>2
<1>. QED BY <1>2, <1>3, <1>4, <1>5, <1>6

LEMMA EndKeeps ==
  ASSUME FindInv, NEW t \in Thread, Ends(t)
  PROVE  FindInv'
<1> DEFINE n == Len(calls[t])
<1>0. /\ SessionTypeOK /\ WellNested /\ OneBuilder /\ LambdaFindsItsBuilder
      /\ calls[t] # <<>> /\ UNCHANGED <<asserts, threw>>
      /\ \A u \in Thread : Sound(u)' <=> Sound(u)
  BY DEF FindInv, Ends, Unwinds, Sound
<1>1. calls[t] \in Seq(Call) BY <1>0 DEF SessionTypeOK
<1>2. n \in Nat \ {0} /\ n \in DOMAIN calls[t] /\ calls[t][n] \in Call
  BY <1>0, <1>1, EmptySeq, StackFacts
<1>3. /\ calls' \in [Thread -> Seq(Call)] /\ WellNested'
      /\ Len(calls'[t]) = n - 1 /\ DOMAIN calls'[t] = 1..(n - 1)
      /\ \A i \in 1..(n - 1) : calls'[t][i] = calls[t][i] /\ i \in DOMAIN calls[t]
      /\ \A u \in Thread \ {t} : calls'[u] = calls[u]
  BY <1>0, UnwindsKeeps DEF Ends
<1>4. /\ current_builder'[t] = calls[t][n].prev_builder
      /\ \A u \in Thread \ {t} : current_builder'[u] = current_builder[u]
  BY <1>0 DEF Ends, SessionTypeOK, PreviousBuilder, Innermost
<1>. HIDE DEF n
<1>5. SessionTypeOK'
  <2>1. calls[t][n].prev_builder \in Builder \cup {None} BY <1>2 DEF Call
  <2>2. current_builder' \in [Thread -> Builder \cup {None}]
    BY <1>0, <2>1 DEF Ends, SessionTypeOK, PreviousBuilder, Innermost, n
  <2>. QED BY <1>0, <1>3, <2>2 DEF Ends, SessionTypeOK, Unwinds
<1>6. Sound(t) /\ n > 1 => current_builder'[t] = calls[t][n - 1].builder
  BY <1>0, <1>2, <1>4 DEF WellNested
<1>7. OneBuilder'
  <2>. SUFFICES ASSUME asserts, NEW u \in Thread, NEW i \in DOMAIN calls'[u]
                PROVE  calls'[u][i].builder = current_builder'[u]
    BY <1>0 DEF OneBuilder
  <2>0. Sound(t) BY DEF Sound
  <2>1. CASE u # t BY <1>0, <1>3, <1>4, <2>1 DEF OneBuilder
  <2>2. CASE u = t
    <3>1. i \in 1..(n - 1) /\ n - 1 \in 1..(n - 1) /\ n > 1 BY <1>2, <1>3, <2>2
    <3>2. calls[t][i].builder = current_builder[t] /\ calls[t][n - 1].builder = current_builder[t]
      BY <1>0, <1>3, <3>1 DEF OneBuilder
    <3>. QED BY <1>3, <1>6, <2>0, <2>2, <3>1, <3>2
  <2>. QED BY <2>1, <2>2
<1>8. LambdaFindsItsBuilder'
  <2>1. ASSUME NEW u \in Thread, Sound(u), u # t, calls'[u] # <<>>
        PROVE  current_builder'[u] = calls'[u][Len(calls'[u])].builder
    BY <1>0, <1>3, <1>4, <2>1 DEF LambdaFindsItsBuilder, Innermost
  <2>2. ASSUME Sound(t), calls'[t] # <<>>
        PROVE  current_builder'[t] = calls'[t][Len(calls'[t])].builder
    <3>1. Len(calls'[t]) \in Nat \ {0} BY <1>3, <2>2, EmptySeq
    <3>2. n > 1 /\ n - 1 \in 1..(n - 1) BY <1>2, <1>3, <3>1
    <3>. QED BY <1>3, <1>6, <2>2, <3>2
  <2>. QED BY <1>0, <2>1, <2>2 DEF LambdaFindsItsBuilder, Innermost
<1>. QED BY <1>3, <1>5, <1>7, <1>8 DEF FindInv

(* After a throw current_builder is stale; with the assert it can only be  *)
(* the one builder the thread was using.                                   *)
LEMMA ThrowKeeps ==
  ASSUME FindInv, NEW t \in Thread, NEW k \in 0..Len(calls[t]), ThrowsTo(t, k)
  PROVE  FindInv'
<1>0. /\ SessionTypeOK /\ OneBuilder /\ LambdaFindsItsBuilder
      /\ UNCHANGED <<asserts, current_builder>> /\ threw' = threw \cup {t}
  BY DEF FindInv, ThrowsTo, Unwinds
<1>1. /\ calls' \in [Thread -> Seq(Call)] /\ WellNested'
      /\ DOMAIN calls'[t] = 1..k
      /\ \A i \in 1..k : calls'[t][i] = calls[t][i] /\ i \in DOMAIN calls[t]
      /\ \A u \in Thread \ {t} : calls'[u] = calls[u]
  BY <1>0, UnwindsKeeps DEF ThrowsTo
<1>2. SessionTypeOK' BY <1>0, <1>1 DEF SessionTypeOK, ThrowsTo, Unwinds
<1>3. OneBuilder'
  <2>. SUFFICES ASSUME asserts, NEW u \in Thread, NEW i \in DOMAIN calls'[u]
                PROVE  calls'[u][i].builder = current_builder'[u]
    BY <1>0 DEF OneBuilder
  <2>1. CASE u # t BY <1>0, <1>1, <2>1 DEF OneBuilder
  <2>2. CASE u = t BY <1>0, <1>1, <2>2 DEF OneBuilder
  <2>. QED BY <2>1, <2>2
<1>4. LambdaFindsItsBuilder'
  <2>. SUFFICES ASSUME NEW u \in Thread, Sound(u)', calls'[u] # <<>>
                PROVE  current_builder'[u] = calls'[u][Len(calls'[u])].builder
    BY DEF LambdaFindsItsBuilder, Innermost
  <2>1. CASE asserts
    <3>1. calls'[u] \in Seq(Call) BY <1>1
    <3>2. Len(calls'[u]) \in DOMAIN calls'[u] BY <3>1, StackFacts
    <3>. QED BY <1>0, <1>3, <2>1, <3>2 DEF OneBuilder
  <2>2. CASE ~asserts
    <3>1. u # t /\ Sound(u) BY <1>0, <2>2 DEF Sound
    <3>. QED BY <1>0, <1>1, <3>1 DEF LambdaFindsItsBuilder, Innermost
  <2>. QED BY <2>1, <2>2
<1>. QED BY <1>1, <1>2, <1>3, <1>4 DEF FindInv

LEMMA QuietKeeps ==
  ASSUME FindInv, UNCHANGED <<asserts, current_builder, calls, function_, threw>>,
         misplaced' \subseteq Thread, aborted' \in Thread \cup {None}
  PROVE  FindInv'
  BY DEF FindInv, SessionTypeOK, WellNested, OneBuilder, LambdaFindsItsBuilder, Innermost,
         Sound

LEMMA FindStep == FindInv /\ [Next]_vars => FindInv'
<1>. SUFFICES ASSUME FindInv, [Next]_vars PROVE FindInv' OBVIOUS
<1>1. SessionTypeOK BY DEF FindInv
<1>2. ASSUME NEW t \in Thread, Statement(t) PROVE FindInv'
  <2>1. misplaced' \subseteq Thread BY <1>1, <1>2 DEF Statement, SessionTypeOK
  <2>. QED BY <1>1, <1>2, <2>1, QuietKeeps DEF Statement, SessionTypeOK
<1>3. ASSUME NEW t \in Thread, Abort(t) PROVE FindInv'
  BY <1>1, <1>3, QuietKeeps DEF Abort, SessionTypeOK
<1>4. CASE UNCHANGED vars BY <1>1, <1>4, QuietKeeps DEF vars, SessionTypeOK
<1>. QED BY <1>1, <1>2, <1>3, <1>4, StepCases, StartsKeeps, EndKeeps, ThrowKeeps

-----------------------------------------------------------------------------
(* ... of what the outermost lambda will put back...                       *)

LEMMA IdleStep == FindInv /\ IdleInv /\ [Next]_vars => IdleInv'
<1>. SUFFICES ASSUME FindInv, IdleInv, [Next]_vars PROVE IdleInv' OBVIOUS
<1>0. OutermostFoundNone /\ IdleThreadHasNone /\ SessionTypeOK BY DEF IdleInv, FindInv
<1>1. ASSUME NEW t \in Thread, NEW b \in Builder, NEW c \in Call, Starts(t, b, c)
      PROVE  IdleInv'
  <2> DEFINE s == calls[t]
  <2>1. s \in Seq(Call) BY <1>0 DEF SessionTypeOK
  <2>2. /\ calls'[t] = Append(s, c) /\ UNCHANGED threw
        /\ \A u \in Thread \ {t} : calls'[u] = calls[u] /\ current_builder'[u] = current_builder[u]
    BY <1>0, <1>1 DEF Starts, SessionTypeOK
  <2>3. /\ Append(s, c) # <<>> /\ Len(s) \in Nat
        /\ \A i \in 1..Len(s) : Append(s, c)[i] = s[i]
        /\ Append(s, c)[Len(s) + 1] = c
    BY <2>1, NewCallFacts
  <2>4. c.prev_builder = current_builder[t] BY <1>1 DEF Starts
  <2>5. t \notin threw => calls'[t][1].prev_builder = None
    <3>1. CASE s = <<>>
      <4>1. Len(s) = 0 BY <3>1, EmptySeq
      <4>. QED BY <1>0, <2>2, <2>3, <2>4, <3>1, <4>1 DEF IdleThreadHasNone
    <3>2. CASE s # <<>>
      <4>1. Len(s) \in Nat \ {0} BY <2>1, <3>2, EmptySeq
      <4>2. 1 \in 1..Len(s) BY <4>1
      <4>. QED BY <1>0, <2>2, <2>3, <3>2, <4>2 DEF OutermostFoundNone
    <3>. QED BY <3>1, <3>2
  <2>. QED BY <1>0, <2>2, <2>3, <2>5 DEF IdleInv, OutermostFoundNone, IdleThreadHasNone
<1>2. ASSUME NEW t \in Thread, Ends(t) PROVE IdleInv'
  <2> DEFINE n == Len(calls[t])
  <2>1. /\ calls' \in [Thread -> Seq(Call)] /\ Len(calls'[t]) = n - 1
        /\ \A i \in 1..(n - 1) : calls'[t][i] = calls[t][i]
        /\ \A u \in Thread \ {t} : calls'[u] = calls[u]
    BY <1>2, UnwindsKeeps DEF Ends
  <2>2. /\ current_builder'[t] = calls[t][n].prev_builder
        /\ \A u \in Thread \ {t} : current_builder'[u] = current_builder[u]
        /\ calls[t] # <<>> /\ UNCHANGED threw
    BY <1>0, <1>2 DEF Ends, SessionTypeOK, PreviousBuilder, Innermost
  <2>3. calls[t] \in Seq(Call) /\ calls'[t] \in Seq(Call)
    BY <1>0, <2>1 DEF SessionTypeOK
  <2>4. n \in Nat \ {0} BY <2>2, <2>3, EmptySeq
  <2>. HIDE DEF n
  <2>5. t \notin threw /\ calls'[t] # <<>> => calls'[t][1].prev_builder = None
    <3>1. ASSUME calls'[t] # <<>> PROVE 1 \in 1..(n - 1)
      <4>1. Len(calls'[t]) \in Nat \ {0} BY <2>3, <3>1, EmptySeq
      <4>. QED BY <2>1, <2>4, <4>1
    <3>. QED BY <1>0, <2>1, <2>2, <3>1 DEF OutermostFoundNone
  <2>6. t \notin threw /\ calls'[t] = <<>> => current_builder'[t] = None
    <3>1. ASSUME calls'[t] = <<>> PROVE n = 1
      <4>1. Len(calls'[t]) = 0 BY <3>1, EmptySeq
      <4>. QED BY <2>1, <2>4, <4>1
    <3>. QED BY <1>0, <2>2, <3>1 DEF OutermostFoundNone
  <2>. QED BY <1>0, <2>1, <2>2, <2>5, <2>6 DEF IdleInv, OutermostFoundNone, IdleThreadHasNone
<1>3. ASSUME NEW t \in Thread, NEW k \in 0..Len(calls[t]), ThrowsTo(t, k) PROVE IdleInv'
  <2>1. \A u \in Thread \ {t} : calls'[u] = calls[u] BY <1>3, UnwindsKeeps DEF ThrowsTo
  <2>. QED BY <1>0, <1>3, <2>1 DEF ThrowsTo, IdleInv, OutermostFoundNone, IdleThreadHasNone
<1>4. ASSUME UNCHANGED <<current_builder, calls, threw>> PROVE IdleInv'
  BY <1>0, <1>4 DEF IdleInv, OutermostFoundNone, IdleThreadHasNone
<1>5. ASSUME NEW t \in Thread, Statement(t) \/ Abort(t)
      PROVE  UNCHANGED <<current_builder, calls, threw>>
  BY <1>5 DEF Statement, Abort
<1>6. UNCHANGED vars => UNCHANGED <<current_builder, calls, threw>> BY DEF vars
<1>. QED BY <1>0, <1>1, <1>2, <1>3, <1>4, <1>5, <1>6, StepCases

-----------------------------------------------------------------------------
(* ... of the functions statements write to...                             *)

LEMMA WriteStep == FindInv /\ WriteInv /\ [Next]_vars => WriteInv'
<1>. SUFFICES ASSUME FindInv, WriteInv, [Next]_vars PROVE WriteInv' OBVIOUS
<1>0. /\ FunctionCurrent /\ LambdaWritesOwnFunction
      /\ SessionTypeOK /\ LambdaFindsItsBuilder
  BY DEF WriteInv, FindInv
<1>1. ASSUME threw \subseteq threw', UNCHANGED <<asserts, misplaced>>
      PROVE  LambdaWritesOwnFunction'
  BY <1>0, <1>1 DEF LambdaWritesOwnFunction, Sound
<1>2. ASSUME NEW t \in Thread, NEW b \in Builder, NEW c \in Call, Starts(t, b, c),
             MayUse(t, b), ~Builds(t, b)
      PROVE  WriteInv'
  <2> DEFINE s == calls[t]
  <2>1. s \in Seq(Call) BY <1>0 DEF SessionTypeOK
  <2>2. /\ calls'[t] = Append(s, c)
        /\ \A u \in Thread \ {t} : calls'[u] = calls[u]
    BY <1>0, <1>2 DEF Starts, SessionTypeOK
  <2>3. /\ Len(s) \in Nat /\ DOMAIN s = 1..Len(s) /\ DOMAIN Append(s, c) = 1..(Len(s) + 1)
        /\ \A i \in 1..Len(s) : Append(s, c)[i] = s[i]
        /\ Append(s, c)[Len(s) + 1] = c
    BY <2>1, NewCallFacts
  <2>4. /\ function_'[b] = function_[b] + 1
        /\ \A d \in Builder \ {b} : function_'[d] = function_[d]
    BY <1>0, <1>2 DEF Starts, SessionTypeOK
  <2>5. c.builder = b /\ c.fn = function_[b] + 1 BY <1>2 DEF Starts
  <2>6. ASSUME NEW u \in Thread, NEW i \in DOMAIN calls[u]
        PROVE  /\ calls[u][i].builder \in Builder \ {b}
               /\ calls[u][i].fn = function_'[calls[u][i].builder]
    <3>1. calls[u] \in Seq(Call) BY <1>0 DEF SessionTypeOK
    <3>2. calls[u][i].builder \in Builder BY <3>1, StackFacts DEF Call
    <3>3. calls[u][i].builder # b BY <1>2 DEF MayUse, Builds
    <3>. QED BY <1>0, <2>4, <3>2, <3>3 DEF FunctionCurrent
  <2>7. ASSUME NEW u \in Thread, NEW i \in DOMAIN calls'[u]
        PROVE  calls'[u][i].fn = function_'[calls'[u][i].builder]
    <3>1. CASE u # t BY <2>2, <2>6, <3>1
    <3>2. CASE u = t /\ i = Len(s) + 1 BY <2>2, <2>3, <2>4, <2>5, <3>2
    <3>3. CASE u = t /\ i # Len(s) + 1
      <4>1. i \in 1..Len(s) BY <2>2, <2>3, <3>3
      <4>. QED BY <2>2, <2>3, <2>6, <3>3, <4>1
    <3>. QED BY <3>1, <3>2, <3>3
  <2>8. LambdaWritesOwnFunction' BY <1>1, <1>2 DEF Starts
  <2>. QED BY <2>7, <2>8 DEF WriteInv, FunctionCurrent
<1>3. ASSUME NEW t \in Thread, NEW k \in 0..Len(calls[t]), Unwinds(t, k),
             threw \subseteq threw'
      PROVE  WriteInv'
  <2>1. /\ DOMAIN calls'[t] = 1..k
        /\ \A i \in 1..k : calls'[t][i] = calls[t][i] /\ i \in DOMAIN calls[t]
        /\ \A u \in Thread \ {t} : calls'[u] = calls[u]
    BY <1>3, UnwindsKeeps
  <2>2. function_' = function_ /\ UNCHANGED <<asserts, misplaced>> BY <1>3 DEF Unwinds
  <2>3. ASSUME NEW u \in Thread, NEW i \in DOMAIN calls'[u]
        PROVE  calls'[u][i].fn = function_[calls'[u][i].builder]
    <3>1. CASE u # t BY <1>0, <2>1, <3>1 DEF FunctionCurrent
    <3>2. CASE u = t BY <1>0, <2>1, <3>2 DEF FunctionCurrent
    <3>. QED BY <3>1, <3>2
  <2>4. LambdaWritesOwnFunction' BY <1>1, <1>3, <2>2
  <2>. QED BY <2>2, <2>3, <2>4 DEF WriteInv, FunctionCurrent
<1>4. ASSUME NEW t \in Thread, Statement(t) PROVE WriteInv'
  <2>1. calls[t] # <<>> /\ calls[t] \in Seq(Call)
    BY <1>0, <1>4 DEF Statement, SessionTypeOK
  <2>2. Len(calls[t]) \in DOMAIN calls[t] BY <2>1, StackFacts
  <2>3. Sound(t) => current_builder[t] = Innermost(t).builder
    BY <1>0, <2>1 DEF LambdaFindsItsBuilder
  <2>4. Innermost(t).fn = function_[Innermost(t).builder]
    BY <1>0, <2>2 DEF FunctionCurrent, Innermost
  <2>5. \/ misplaced' = misplaced
        \/ misplaced' = misplaced \cup {t} /\ ~Sound(t)
    BY <1>4, <2>3, <2>4 DEF Statement
  <2>6. LambdaWritesOwnFunction'
    BY <1>0, <1>4, <2>5 DEF Statement, LambdaWritesOwnFunction, Sound
  <2>. QED BY <1>0, <1>4, <2>6 DEF Statement, WriteInv, FunctionCurrent
<1>5. ASSUME UNCHANGED <<asserts, current_builder, calls, function_, threw, misplaced>>
      PROVE  WriteInv'
  BY <1>0, <1>5 DEF WriteInv, FunctionCurrent, LambdaWritesOwnFunction, Sound
<1>6. ASSUME NEW t \in Thread, Abort(t) PROVE WriteInv' BY <1>5, <1>6 DEF Abort
<1>7. CASE UNCHANGED vars BY <1>5, <1>7 DEF vars
<1>8. ASSUME NEW t \in Thread, Ends(t) PROVE WriteInv' BY <1>3, <1>8 DEF Ends
<1>9. ASSUME NEW t \in Thread, NEW k \in 0..Len(calls[t]), ThrowsTo(t, k) PROVE WriteInv'
  BY <1>3, <1>9 DEF ThrowsTo
<1>. QED BY <1>0, <1>2, <1>4, <1>6, <1>7, <1>8, <1>9, StepCases

-----------------------------------------------------------------------------
(* ... and of when the assert fails.                                       *)

LEMMA AssertStep == SessionInv /\ [Next]_vars => AssertStopsOnlyMixing'
<1>. SUFFICES ASSUME SessionInv, [Next]_vars PROVE AssertStopsOnlyMixing' OBVIOUS
<1>0. SessionTypeOK /\ IdleThreadHasNone /\ AssertStopsOnlyMixing
  BY DEF SessionInv, FindInv, IdleInv
<1>1. ASSUME NEW t \in Thread, NEW b \in Builder, AssertFails(t, b), Abort(t)
      PROVE  AssertStopsOnlyMixing'
  <2>1. current_builder[t] # None BY <1>1 DEF AssertFails
  <2>2. t \in threw \/ calls[t] # <<>> BY <1>0, <2>1 DEF IdleThreadHasNone
  <2>. QED BY <1>1, <2>2 DEF Abort, AssertStopsOnlyMixing
<1>2. aborted = None /\ aborted' = aborted => AssertStopsOnlyMixing'
  BY DEF AssertStopsOnlyMixing
<1>3. ASSUME UNCHANGED vars PROVE AssertStopsOnlyMixing'
  BY <1>0, <1>3 DEF vars, AssertStopsOnlyMixing
<1>4. ASSUME NEW t \in Thread, EndFunction(t) \/ Throw(t) \/ Statement(t)
      PROVE  aborted = None /\ aborted' = aborted
  BY <1>4 DEF EndFunction, Throw, Statement
<1>5. ASSUME NEW t \in Thread, NEW b \in Builder, CreateFunction(t, b)
      PROVE  AssertStopsOnlyMixing'
  BY <1>1, <1>2, <1>5 DEF CreateFunction, MayUse
<1>6. ASSUME NEW t \in Thread, NEW b \in Builder, DeclareExternal(t, b)
      PROVE  AssertStopsOnlyMixing'
  BY <1>1, <1>3, <1>6 DEF DeclareExternal
<1>. QED BY <1>2, <1>3, <1>4, <1>5, <1>6 DEF Next

LEMMA SessionInit == Init => SessionInv
<1>. SUFFICES ASSUME Init PROVE SessionInv OBVIOUS
<1>1. ASSUME NEW t \in Thread
      PROVE  calls[t] = <<>> /\ DOMAIN calls[t] = {} /\ current_builder[t] = None
  <2>1. calls[t] = <<>> BY DEF Init
  <2>2. <<>> \in Seq(Call) /\ Len(<<>>) = 0 BY EmptySeq
  <2>3. DOMAIN calls[t] = 1..0 BY <2>1, <2>2, LenProperties
  <2>. QED BY <2>1, <2>3 DEF Init
<1>2. SessionTypeOK
  <2>1. calls \in [Thread -> Seq(Call)]
    <3>1. <<>> \in Seq(Call) BY EmptySeq
    <3>. QED BY <3>1, Zenon DEF Init
  <2>2. current_builder \in [Thread -> Builder \cup {None}] BY DEF Init
  <2>3. function_ \in [Builder -> 0..MaxFunctions] BY SessionAssumption DEF Init
  <2>. QED BY <2>1, <2>2, <2>3 DEF Init, SessionTypeOK
<1>3. FindInv
  BY <1>1, <1>2 DEF FindInv, WellNested, OneBuilder, LambdaFindsItsBuilder
<1>4. IdleInv BY <1>1 DEF IdleInv, OutermostFoundNone, IdleThreadHasNone
<1>5. WriteInv BY <1>1 DEF Init, WriteInv, FunctionCurrent, LambdaWritesOwnFunction
<1>. QED BY <1>3, <1>4, <1>5 DEF Init, SessionInv, AssertStopsOnlyMixing

-----------------------------------------------------------------------------
(* The theorems.                                                           *)

THEOREM SessionInvariance == Spec => []SessionInv
<1>1. SessionInv /\ [Next]_vars => SessionInv'
  BY FindStep, IdleStep, WriteStep, AssertStep DEF SessionInv
<1>. QED BY <1>1, SessionInit, PTL DEF Spec

(* On every thread the statements of a lambda find that lambda's builder   *)
(* in current_builder: with the assert wherever exceptions are thrown and  *)
(* caught, without it until one leaves a create_function on that thread.   *)
THEOREM LambdasFindTheirBuilder == Spec => []LambdaFindsItsBuilder
<1>1. SessionInv => LambdaFindsItsBuilder BY DEF SessionInv, FindInv
<1>. QED BY <1>1, SessionInvariance, PTL

(* Filling other modules from inside a lambda, on any thread, never makes  *)
(* a statement land in another function than its lambda's.                 *)
THEOREM LambdasWriteOwnFunction == Spec => []LambdaWritesOwnFunction
<1>1. SessionInv => LambdaWritesOwnFunction BY DEF SessionInv, WriteInv
<1>. QED BY <1>1, SessionInvariance, PTL

(* A thread that is done, and on which no exception left a                 *)
(* create_function, can use any builder next.                              *)
THEOREM IdleThreadsHaveNone == Spec => []IdleThreadHasNone
<1>1. SessionInv => IdleThreadHasNone BY DEF SessionInv, IdleInv
<1>. QED BY <1>1, SessionInvariance, PTL

(* The assert of create_function and declare_external_function fails only  *)
(* inside a lambda, or after an exception left a create_function.          *)
THEOREM AssertStopsMixing == Spec => []AssertStopsOnlyMixing
<1>1. SessionInv => AssertStopsOnlyMixing BY DEF SessionInv
<1>. QED BY <1>1, SessionInvariance, PTL
=============================================================================
