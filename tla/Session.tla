------------------------------- MODULE Session -------------------------------
(***************************************************************************)
(* Several threads and several module_builders: how the statements, which  *)
(* are free functions, find the builder of the lambda they are called in.  *)
(* A builder is used by one thread at a time, any thread in its turn.  (A  *)
(* second function of a module inside a lambda of the first is the subject *)
(* of ModuleBuilder.)                                                      *)
(***************************************************************************)
EXTENDS Naturals, Sequences

CONSTANTS
  Thread,
  Builder,       (* module_builders                                         *)
  None,          (* the null pointer                                        *)
  MaxFunctions,  (* bound: functions created in one module                  *)
  MaxDepth,      (* bound: functions under construction on one thread       *)
  Liberties      (* what the client does                                    *)

ASSUME SessionAssumption ==
  /\ None \notin Builder
  /\ None \notin Thread
  /\ MaxFunctions \in Nat /\ MaxDepth \in Nat
  /\ Liberties \subseteq {"other_builder", "throw"}

VARIABLES
  asserts,          (* which build this is: Debug, with assert(), or not    *)
  current_builder,  (* detail::current_builder, thread_local                *)
  calls,            (* thread -> its create_functions, innermost last       *)
  function_,        (* builder -> the last function it started, 0 for none  *)
  threw,            (* threads an exception of whose left a create_function *)
  misplaced,        (* threads a statement of whose went into a function    *)
                    (* that is not its lambda's                             *)
  aborted           (* the thread whose assert() ended the process          *)

vars == <<asserts, current_builder, calls, function_, threw, misplaced, aborted>>

Call == [builder : Builder, prev_builder : Builder \cup {None}, fn : 1..MaxFunctions]

Init ==
  /\ asserts \in BOOLEAN
  /\ current_builder = [t \in Thread |-> None]
  /\ calls = [t \in Thread |-> <<>>]
  /\ function_ = [b \in Builder |-> 0]
  /\ threw = {} /\ misplaced = {} /\ aborted = None

Innermost(t) == calls[t][Len(calls[t])]
Builds(t, b) == \E i \in DOMAIN calls[t] : calls[t][i].builder = b

(* Which calls the client makes on thread t with builder b.                *)
MayUse(t, b) ==
  /\ aborted = None
  /\ \A u \in Thread \ {t} : ~Builds(u, b)
  /\ \A i \in DOMAIN calls[t] : calls[t][i].builder # b => "other_builder" \in Liberties

(* std::exchange(detail::current_builder, b).                              *)
MutantNotThreadLocal(t, b) == [u \in Thread |-> b]
Installed(t, b) == [current_builder EXCEPT ![t] = b]

AssertFails(t, b) == asserts /\ current_builder[t] \notin {b, None}
Abort(t) ==
  /\ aborted' = t
  /\ UNCHANGED <<asserts, current_builder, calls, function_, threw, misplaced>>

(* create_function, until its lambda is called.                            *)
CreateFunction(t, b) ==
  /\ MayUse(t, b) /\ ~Builds(t, b)
  /\ function_[b] < MaxFunctions /\ Len(calls[t]) < MaxDepth
  /\ IF AssertFails(t, b) THEN Abort(t)
     ELSE /\ calls' = [calls EXCEPT ![t] = Append(@, [builder |-> b,
                         prev_builder |-> current_builder[t], fn |-> function_[b] + 1])]
          /\ current_builder' = Installed(t, b)
          /\ function_' = [function_ EXCEPT ![b] = @ + 1]
          /\ UNCHANGED <<asserts, threw, misplaced, aborted>>

(* The lambda returned.                                                    *)
MutantRestoreNone(t) == None
MutantNoRestore(t) == current_builder[t]
PreviousBuilder(t) == Innermost(t).prev_builder

EndFunction(t) ==
  /\ aborted = None /\ calls[t] # <<>>
  /\ current_builder' = Installed(t, PreviousBuilder(t))
  /\ calls' = [calls EXCEPT ![t] = SubSeq(@, 1, Len(@) - 1)]
  /\ UNCHANGED <<asserts, function_, threw, misplaced, aborted>>

(* The lambda threw, and the k-th lambda, or for none the code around      *)
(* them all, caught.                                                       *)
Throw(t) ==
  /\ aborted = None /\ "throw" \in Liberties
  /\ \E k \in 0..(Len(calls[t]) - 1) :
       calls' = [calls EXCEPT ![t] = SubSeq(@, 1, k)]
  /\ threw' = threw \cup {t}
  /\ UNCHANGED <<asserts, current_builder, function_, misplaced, aborted>>

(* Any statement: `auto& mb = *detail::current_builder', then mb.function_.*)
Statement(t) ==
  /\ aborted = None /\ calls[t] # <<>>
  /\ LET mb == current_builder[t]
         finds == mb = Innermost(t).builder /\ function_[mb] = Innermost(t).fn
     IN misplaced' = IF finds THEN misplaced ELSE misplaced \cup {t}
  /\ UNCHANGED <<asserts, current_builder, calls, function_, threw, aborted>>

(* declare_external_function installs its builder and takes it back        *)
(* before anything else happens.                                           *)
DeclareExternal(t, b) ==
  /\ MayUse(t, b)
  /\ IF AssertFails(t, b) THEN Abort(t) ELSE UNCHANGED vars

Next ==
  \E t \in Thread :
    \/ \E b \in Builder : CreateFunction(t, b) \/ DeclareExternal(t, b)
    \/ EndFunction(t) \/ Throw(t) \/ Statement(t)

Spec == Init /\ [][Next]_vars

-----------------------------------------------------------------------------
(* Properties.                                                             *)

(* A thread's statements find the builder of the lambda they are called    *)
(* in, whatever the other threads build: with the assert also after any    *)
(* exception, without it unless one left a create_function on the thread.  *)
Sound(t) == asserts \/ t \notin threw
LambdaFindsItsBuilder ==
  \A t \in Thread : Sound(t) /\ calls[t] # <<>> =>
                     current_builder[t] = Innermost(t).builder

(* ... and write to that lambda's function, also when other modules are    *)
(* filled from inside it.                                                  *)
LambdaWritesOwnFunction == \A t \in misplaced : ~Sound(t)

(* A thread that is done leaves nothing behind that would make the assert  *)
(* refuse the next builder it uses.                                        *)
IdleThreadHasNone ==
  \A t \in Thread : t \notin threw /\ calls[t] = <<>> => current_builder[t] = None

(* The assert never stops a client that uses one builder at a time, unless *)
(* an exception left a create_function on the thread before.               *)
AssertStopsOnlyMixing ==
  aborted # None => aborted \in threw \/ calls[aborted] # <<>>

(* assert(detail::current_builder == this || !detail::current_builder) in  *)
(* create_function and declare_external_function: for a client that never  *)
(* uses two builders at once the assertion holds.                          *)
AssertionsHold == aborted = None
=============================================================================
