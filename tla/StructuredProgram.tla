------------------------- MODULE StructuredProgram -------------------------
(***************************************************************************)
(* What if_, while_, break_, continue_ and return_ promise, said of the    *)
(* calls themselves and of no basic block: the function a client writes,   *)
(* call after call, runs as a structured program.  Conditions may come out *)
(* either way.                                                             *)
(***************************************************************************)
EXTENDS Naturals, Sequences, FiniteSets

VARIABLES
  program,  (* the calls, in order.  A loop is "while", its condition,      *)
            (* "do", its body, "end"                                        *)
  at,       (* the call being executed; 0 before the function is called,    *)
            (* the final "end" when control falls off it, and one more      *)
            (* after a return                                               *)
  turn      (* flips at each call executed: executing one again is a step   *)

vars == <<program, at, turn>>

Token   == {"function", "statement", "if", "else", "while", "do", "end",
            "return", "break", "continue"}
Openers == {"function", "if", "while"}
(* Where an execution can stand: the other calls only say where to go on.  *)
Resting == {"statement", "if", "do", "return"}

Init == program = <<>> /\ at = 0 /\ turn = FALSE

Is(tokens, p) == p \in DOMAIN program /\ program[p] \in tokens
(* How many brackets are open after p calls.                               *)
Depth ==
  [p \in 0..Len(program) |-> Cardinality({q \in 1..p : program[q] \in Openers})
                              - Cardinality({q \in 1..p : program[q] = "end"})]
Complete == program # <<>> /\ Depth[Len(program)] = 0

First(set) == CHOOSE p \in set : \A q \in set : p <= q
Last(set)  == CHOOSE p \in set : \A q \in set : q <= p

EndOf(opener) ==
  LET depth == Depth
  IN First({p \in (opener + 1)..Len(program) : depth[p] < depth[opener]})
Around(p) ==
  LET depth == Depth
  IN {q \in 1..(p - 1) : /\ program[q] \in Openers
                         /\ \A r \in q..(p - 1) : depth[r] >= depth[q]}
Loop(p)   == Last({q \in Around(p) : program[q] = "while"})
Opener(p) == Last(Around(p))
(* Where a false condition of an if goes: past its else, or past its end.  *)
Otherwise(opener) ==
  First({p \in opener..EndOf(opener) : program[p] \in {"else", "end"} /\ Opener(p) = opener})

(* Where control goes from a call that only directs it.                    *)
Onward(p) ==
  CASE Is({"while"}, p)    -> p + 1
    [] Is({"else"}, p)     -> EndOf(Opener(p)) + 1
    [] Is({"break"}, p)    -> EndOf(Loop(p)) + 1
    [] Is({"continue"}, p) -> Loop(p)
    [] Is({"end"}, p)      -> IF program[Opener(p)] = "while" THEN Opener(p)
                              ELSE IF program[Opener(p)] = "if" THEN p + 1 ELSE p
    [] OTHER               -> p
Settled(p) ==
  LET onward[n \in 0..Len(program)] ==
        IF n = 0 THEN {p} ELSE {Onward(q) : q \in onward[n - 1]}
  IN CHOOSE q \in onward[Len(program)] : TRUE

Edit  == at = 0 /\ program' \in Seq(Token) /\ UNCHANGED <<at, turn>>
Start == at = 0 /\ Complete /\ at' = Settled(2) /\ UNCHANGED <<program, turn>>
Step ==
  /\ Is(Resting, at)
  /\ \/ program[at] # "return" /\ at' = Settled(at + 1)
     \/ program[at] = "if" /\ at' = Settled(Otherwise(at) + 1)
     \/ program[at] = "do" /\ at' = Settled(EndOf(Loop(at)) + 1)
     \/ program[at] = "return" /\ at' = Len(program) + 1
  /\ turn' = ~turn
  /\ UNCHANGED program

Next   == Edit \/ Start \/ Step
Safety == Init /\ [][Next]_vars
Spec   == Safety /\ WF_vars(Step)
=============================================================================
