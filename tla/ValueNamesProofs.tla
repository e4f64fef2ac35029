-------------------------- MODULE ValueNamesProofs --------------------------
(***************************************************************************)
(* For any variables, callees and data, and any number of units and loads: *)
(* what the names of loads mean whatever the client does, and, for a       *)
(* client that keeps off the three uses of a value nothing prevents, that  *)
(* the listing leaves in every variable what the code does.                *)
(***************************************************************************)
EXTENDS ValueNames, TLAPS

(* Uses no value whose name it has given to another one.                   *)
Careful == Liberties = {}

ValueTypes ==
  /\ memory \in [Variable -> Data \cup {None}]
  /\ reads \in [Name -> Data \cup {None}]
  /\ held \in SUBSET value
  /\ id_counter \in [Unit -> Nat]

(* A value loaded has a number some unit's counter has passed.             *)
NumbersGiven == \A x \in held : x.name[1] = "val" =>
                  \E u \in Unit : x.name[2] < id_counter[u]
NamesInv == ValueTypes /\ NumbersGiven /\ LoadNamesKeepTheirMeaning

(* The other names mean what they meant when the client got the value, but *)
(* for those values that the client knows to be out of date.               *)
FreshReadTrue == \A x \in held : x.name[1] # "val" /\ x \notin stale =>
                   reads[x.name] = x.data

(* The three kinds of name are apart, and each is a name.                  *)
LEMMA Names ==
  /\ \A v \in Variable : <<"variable", v>> \in Name
  /\ \A f \in Callee : <<"ret", f>> \in Name
  /\ \A i \in 0..MaxLoads : <<"val", i>> \in Name
  /\ \A a, b : <<"variable", a>> # <<"ret", b>> /\ <<"variable", a>> # <<"val", b>>
               /\ <<"ret", a>> # <<"val", b>>
BY DEF Name

LEMMA NumbersAreNumbers ==
  ASSUME NEW n \in Name
  PROVE  /\ n[1] = "val" => n[2] \in Nat /\ n = <<"val", n[2]>>
         /\ n[1] \in {"variable", "ret", "val"}
BY ValueNamesAssumption DEF Name

LEMMA NamesInit == Init => NamesInv
<1>. SUFFICES ASSUME Init PROVE NamesInv OBVIOUS
<1>1. ValueTypes BY DEF Init, ValueTypes
<1>. QED BY <1>1 DEF Init, NamesInv, NumbersGiven, LoadNamesKeepTheirMeaning

(* What Get, Set and Call do to the names of loads: nothing.               *)
LEMMA LoadsLeftAlone ==
  ASSUME NamesInv, ValueTypes', UNCHANGED id_counter,
         \A n \in Name : n[1] = "val" => reads'[n] = reads[n],
         \A x \in held' : x.name[1] = "val" => x \in held
  PROVE  NamesInv'
<1>1. NumbersGiven' BY DEF NamesInv, NumbersGiven
<1>2. LoadNamesKeepTheirMeaning'
  BY DEF NamesInv, ValueTypes, value, LoadNamesKeepTheirMeaning, GivenTwice
<1>. QED BY <1>1, <1>2 DEF NamesInv

LEMMA GetKeepsNames ==
  ASSUME NamesInv, NEW v \in Variable, Get(v)
  PROVE  NamesInv'
<1>. DEFINE new == [name |-> <<"variable", v>>, data |-> memory[v]]
<1>1. /\ held' = held \cup {new} /\ memory[v] # None
      /\ UNCHANGED <<memory, reads, id_counter>>
  BY DEF Get
<1>2. new \in value BY <1>1, Names DEF NamesInv, ValueTypes, value
<1>3. ValueTypes' BY <1>1, <1>2 DEF NamesInv, ValueTypes
<1>. QED BY <1>1, <1>3, LoadsLeftAlone

(* The value a variable is given, in the code and in the listing.          *)
LEMMA SetDoes ==
  ASSUME NamesInv, NEW v \in Variable, Set(v)
  PROVE  \E d \in Data, m \in Data \cup {None} :
           /\ memory' = [memory EXCEPT ![v] = d]
           /\ reads' = [reads EXCEPT ![<<"variable", v>>] = m]
           /\ m = d \/ \E x \in held : Uses(x) /\ d = x.data /\ m = reads[x.name]
<1>1. CASE \E x \in held : /\ Uses(x) /\ memory' = [memory EXCEPT ![v] = x.data]
                           /\ Line(<<"variable", v>>, reads[x.name])
  BY <1>1 DEF Line, NamesInv, ValueTypes, value
<1>2. CASE \E d \in Data : /\ memory' = [memory EXCEPT ![v] = d]
                           /\ Line(<<"variable", v>>, d)
  BY <1>2 DEF Line
<1>. QED BY <1>1, <1>2 DEF Set

LEMMA SetKeepsNames ==
  ASSUME NamesInv, NEW v \in Variable, Set(v)
  PROVE  NamesInv'
<1>1. PICK d \in Data, m \in Data \cup {None} :
        /\ memory' = [memory EXCEPT ![v] = d]
        /\ reads' = [reads EXCEPT ![<<"variable", v>>] = m]
  BY SetDoes
<1>2. UNCHANGED <<held, id_counter>> BY DEF Set
<1>3. ValueTypes' BY <1>1, <1>2 DEF NamesInv, ValueTypes
<1>4. \A n \in Name : n[1] = "val" => reads'[n] = reads[n]
  BY <1>1 DEF NamesInv, ValueTypes
<1>. QED BY <1>2, <1>3, <1>4, LoadsLeftAlone

(* A number that a load takes and an earlier one has is now two units'.    *)
LEMMA LoadKeepsNames ==
  ASSUME NamesInv, NEW u \in Unit, Load(u)
  PROVE  NamesInv'
<1>. DEFINE n == id_counter[u]
            name == <<"val", n>>
<1>1. PICK d \in Data : held' = held \cup {[name |-> name, data |-> d]} /\ Line(name, d)
  BY DEF Load
<1>. DEFINE new == [name |-> name, data |-> d]
<1>2. id_counter' = [id_counter EXCEPT ![u] = n + 1] /\ memory' = memory /\ n < MaxLoads
  BY DEF Load, Increment
<1>3. n \in Nat /\ n \in 0..MaxLoads /\ name \in Name
  BY <1>2, Names, ValueNamesAssumption DEF NamesInv, ValueTypes
<1>4. new \in value BY <1>3 DEF value
<1>5. ValueTypes' BY <1>1, <1>2, <1>3, <1>4 DEF NamesInv, ValueTypes, Line
<1>6. \A w \in Unit : id_counter'[w] \in Nat /\ id_counter[w] \in Nat
                      /\ id_counter[w] <= id_counter'[w] /\ id_counter'[u] = n + 1
  BY <1>2, <1>3, <1>5 DEF NamesInv, ValueTypes
<1>7. \A i \in Nat : GivenTwice(i) => GivenTwice(i)' BY <1>6 DEF GivenTwice
<1>8. \A x \in held : x.name \in Name BY DEF NamesInv, ValueTypes, value
<1>9. NumbersGiven'
  <2>. SUFFICES ASSUME NEW x \in held', x.name[1] = "val"
                PROVE  \E w \in Unit : x.name[2] < id_counter'[w]
    BY DEF NumbersGiven
  <2>1. CASE x \in held
    <3>1. x.name[2] \in Nat BY <1>8, <2>1, NumbersAreNumbers
    <3>2. PICK w \in Unit : x.name[2] < id_counter[w]
      BY <2>1 DEF NamesInv, NumbersGiven
    <3>. QED BY <1>6, <3>1, <3>2
  <2>2. CASE x = new
    <3>1. x.name[2] = n BY <2>2
    <3>. QED BY <1>3, <1>6, <3>1
  <2>. QED BY <1>1, <2>1, <2>2
<1>10. LoadNamesKeepTheirMeaning'
  <2>. SUFFICES ASSUME NEW x \in held', x.name[1] = "val"
                PROVE  reads'[x.name] = x.data \/ GivenTwice(x.name[2])'
    BY DEF LoadNamesKeepTheirMeaning
  <2>1. CASE x = new BY <1>1, <1>3, <2>1 DEF Line, NamesInv, ValueTypes
  <2>2. CASE x \in held /\ x.name = name
    <3>1. PICK w \in Unit : n < id_counter[w] BY <2>2 DEF NamesInv, NumbersGiven
    <3>2. w # u /\ id_counter'[w] > n /\ id_counter'[u] > n BY <1>3, <1>6, <3>1
    <3>. QED BY <2>2, <3>2 DEF GivenTwice
  <2>3. CASE x \in held /\ x.name # name
    <3>1. reads'[x.name] = reads[x.name]
      BY <1>1, <1>8, <2>3 DEF Line, NamesInv, ValueTypes
    <3>2. x.name[2] \in Nat BY <1>8, <2>3, NumbersAreNumbers
    <3>. QED BY <1>7, <2>3, <3>1, <3>2 DEF NamesInv, LoadNamesKeepTheirMeaning
  <2>. QED BY <1>1, <2>1, <2>2, <2>3
<1>. QED BY <1>5, <1>9, <1>10 DEF NamesInv

LEMMA CallDoes ==
  ASSUME NamesInv, NEW f \in Callee, Call(f)
  PROVE  \E d \in Data : LET new == [name |-> <<"ret", f>>, data |-> d] IN
           /\ held' = held \cup {new} /\ stale' = (stale \cup Named(new.name)) \ {new}
           /\ reads' = [reads EXCEPT ![new.name] = d] /\ UNCHANGED <<memory, id_counter>>
BY DEF Call, Line

LEMMA CallKeepsNames ==
  ASSUME NamesInv, NEW f \in Callee, Call(f)
  PROVE  NamesInv'
<1>. DEFINE name == <<"ret", f>>
<1>1. PICK d \in Data :
        /\ held' = held \cup {[name |-> name, data |-> d]}
        /\ reads' = [reads EXCEPT ![name] = d] /\ UNCHANGED <<memory, id_counter>>
  BY CallDoes
<1>2. name \in Name /\ [name |-> name, data |-> d] \in value BY Names DEF value
<1>3. ValueTypes' BY <1>1, <1>2 DEF NamesInv, ValueTypes
<1>4. \A n \in Name : n[1] = "val" => reads'[n] = reads[n]
  BY <1>1 DEF NamesInv, ValueTypes
<1>. QED BY <1>1, <1>3, <1>4, LoadsLeftAlone

LEMMA NamesStep == NamesInv /\ [Next]_vars => NamesInv'
<1>. SUFFICES ASSUME NamesInv, [Next]_vars PROVE NamesInv' OBVIOUS
<1>1. CASE UNCHANGED vars
  BY <1>1 DEF vars, NamesInv, ValueTypes, NumbersGiven, LoadNamesKeepTheirMeaning, GivenTwice
<1>2. CASE Next
  BY <1>2, GetKeepsNames, SetKeepsNames, LoadKeepsNames, CallKeepsNames DEF Next
<1>. QED BY <1>1, <1>2

(* README.md, "human-readable source code".  Whatever the client does, and *)
(* however long it keeps the value, the name of a load is the value loaded *)
(* as long as no two translation units have given that name.               *)
THEOREM LoadNamesKept == Spec => []LoadNamesKeepTheirMeaning
<1>1. NamesInv => LoadNamesKeepTheirMeaning BY DEF NamesInv
<1>. QED BY <1>1, NamesInit, NamesStep, PTL DEF Spec

-----------------------------------------------------------------------------
(* The variables, for a careful client.                                    *)

LEMMA UsedReadTrue ==
  ASSUME Careful, NamesInv, FreshReadTrue, NEW x \in held, Uses(x)
  PROVE  reads[x.name] = x.data
<1>1. x.name[1] \in {"variable", "ret", "val"}
  BY NumbersAreNumbers DEF NamesInv, ValueTypes, value
<1>. QED BY <1>1 DEF Careful, Uses, FreshReadTrue, NamesInv, LoadNamesKeepTheirMeaning

LEMMA SetReadsTrue ==
  ASSUME Careful, NamesInv, FreshReadTrue, VariablesReadAsWritten,
         NEW v \in Variable, Set(v)
  PROVE  FreshReadTrue' /\ VariablesReadAsWritten'
<1>. DEFINE name == <<"variable", v>>
<1>1. PICK d \in Data : /\ memory' = [memory EXCEPT ![v] = d]
                        /\ reads' = [reads EXCEPT ![name] = d]
  BY SetDoes, UsedReadTrue
<1>2. stale' = stale \cup Named(name) /\ held' = held BY DEF Set
<1>3. name \in Name BY Names
<1>4. FreshReadTrue'
  <2>. SUFFICES ASSUME NEW x \in held, x.name[1] # "val", x \notin stale'
                PROVE  reads'[x.name] = x.data
    BY <1>2 DEF FreshReadTrue
  <2>1. x.name # name /\ x \notin stale BY <1>2 DEF Named
  <2>2. x.name \in Name BY DEF NamesInv, ValueTypes, value
  <2>. QED BY <1>1, <2>1, <2>2 DEF NamesInv, ValueTypes, FreshReadTrue
<1>5. VariablesReadAsWritten'
  <2>. SUFFICES ASSUME NEW w \in Variable PROVE reads'[<<"variable", w>>] = memory'[w]
    BY DEF VariablesReadAsWritten
  <2>1. CASE w = v BY <1>1, <1>3, <2>1 DEF NamesInv, ValueTypes
  <2>2. CASE w # v
    <3>1. <<"variable", w>> # name BY <2>2
    <3>. QED BY <1>1, <2>2, <3>1, Names DEF NamesInv, ValueTypes, VariablesReadAsWritten
  <2>. QED BY <2>1, <2>2
<1>. QED BY <1>4, <1>5

LEMMA OthersReadTrue ==
  ASSUME NamesInv, FreshReadTrue, VariablesReadAsWritten,
         \/ \E v \in Variable : Get(v)
         \/ \E u \in Unit : Load(u)
         \/ \E f \in Callee : Call(f)
  PROVE  FreshReadTrue' /\ VariablesReadAsWritten'
<1>1. ASSUME NEW v \in Variable, Get(v) PROVE FreshReadTrue' /\ VariablesReadAsWritten'
  <2>. DEFINE new == [name |-> <<"variable", v>>, data |-> memory[v]]
  <2>1. held' = held \cup {new} /\ stale' = stale \ {new} /\ UNCHANGED <<memory, reads>>
    BY <1>1 DEF Get
  <2>2. reads[new.name] = new.data BY DEF VariablesReadAsWritten
  <2>3. FreshReadTrue' BY <2>1, <2>2 DEF FreshReadTrue
  <2>. QED BY <2>1, <2>3 DEF VariablesReadAsWritten
<1>2. ASSUME NEW u \in Unit, Load(u) PROVE FreshReadTrue' /\ VariablesReadAsWritten'
  <2>. DEFINE name == <<"val", id_counter[u]>>
  <2>1. PICK d \in Data : held' = held \cup {[name |-> name, data |-> d]} /\ Line(name, d)
    BY <1>2 DEF Load
  <2>2. UNCHANGED <<memory, stale>> BY <1>2 DEF Load
  <2>3. \A n \in Name : n # name => reads'[n] = reads[n]
    BY <2>1 DEF Line, NamesInv, ValueTypes
  <2>4. FreshReadTrue'
    <3>. SUFFICES ASSUME NEW x \in held', x.name[1] # "val", x \notin stale
                  PROVE  reads'[x.name] = x.data
      BY <2>2 DEF FreshReadTrue
    <3>1. x \in held /\ x.name # name BY <2>1
    <3>2. x.name \in Name BY <3>1 DEF NamesInv, ValueTypes, value
    <3>. QED BY <2>3, <3>1, <3>2 DEF FreshReadTrue
  <2>5. VariablesReadAsWritten'
    BY <2>2, <2>3, Names DEF VariablesReadAsWritten
  <2>. QED BY <2>4, <2>5
<1>3. ASSUME NEW f \in Callee, Call(f) PROVE FreshReadTrue' /\ VariablesReadAsWritten'
  <2>. DEFINE name == <<"ret", f>>
  <2>1. PICK d \in Data :
          LET new == [name |-> name, data |-> d] IN
          /\ held' = held \cup {new} /\ stale' = (stale \cup Named(new.name)) \ {new}
          /\ reads' = [reads EXCEPT ![new.name] = d] /\ UNCHANGED memory
    BY <1>3, CallDoes
  <2>. DEFINE new == [name |-> name, data |-> d]
  <2>2. /\ held' = held \cup {new} /\ stale' = (stale \cup Named(name)) \ {new}
        /\ reads' = [reads EXCEPT ![name] = d] /\ UNCHANGED memory
    BY <2>1
  <2>3. name \in Name BY Names
  <2>4. FreshReadTrue'
    <3>. SUFFICES ASSUME NEW x \in held', x.name[1] # "val", x \notin stale'
                  PROVE  reads'[x.name] = x.data
      BY DEF FreshReadTrue
    <3>1. CASE x = new BY <2>2, <2>3, <3>1 DEF NamesInv, ValueTypes
    <3>2. CASE x \in held /\ x # new
      <4>1. x.name # name /\ x \notin stale BY <2>2, <3>2 DEF Named
      <4>2. x.name \in Name BY <3>2 DEF NamesInv, ValueTypes, value
      <4>. QED BY <2>2, <3>2, <4>1, <4>2 DEF NamesInv, ValueTypes, FreshReadTrue
    <3>. QED BY <2>2, <3>1, <3>2
  <2>5. VariablesReadAsWritten'
    BY <2>2, Names DEF NamesInv, ValueTypes, VariablesReadAsWritten
  <2>. QED BY <2>4, <2>5
<1>. QED BY <1>1, <1>2, <1>3

(* A reader who executes the listing line by line finds in every variable  *)
(* what the code keeps in it, if the client uses no value whose name it    *)
(* has given to another one: it may keep such values, and load in as many  *)
(* translation units as it likes.                                          *)
THEOREM VariablesReadTrue ==
  ASSUME Careful
  PROVE  Spec => []VariablesReadAsWritten
<1>. DEFINE Inv == NamesInv /\ FreshReadTrue /\ VariablesReadAsWritten
<1>1. Init => Inv BY NamesInit, Names DEF Init, FreshReadTrue, VariablesReadAsWritten
<1>2. Inv /\ [Next]_vars => Inv'
  <2>. SUFFICES ASSUME Inv, [Next]_vars PROVE FreshReadTrue' /\ VariablesReadAsWritten'
    BY NamesStep
  <2>1. CASE UNCHANGED vars BY <2>1 DEF vars, FreshReadTrue, VariablesReadAsWritten
  <2>2. CASE Next BY <2>2, SetReadsTrue, OthersReadTrue DEF Next
  <2>. QED BY <2>1, <2>2
<1>. QED BY <1>1, <1>2, PTL DEF Spec
=============================================================================
