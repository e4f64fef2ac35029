----------------------------- MODULE Operations -----------------------------
(***************************************************************************)
(* What the expression templates compute: constants, arithmetic,           *)
(* relational and pointer operators, casts and bswap.  An expression is    *)
(* built bottom up.  Each operand has the bits LLVM computes, by the       *)
(* instructions the code selects for its C++ type, and the number the C++  *)
(* expression of the listing denotes; a value without either is Undefined. *)
(*                                                                         *)
(* Sizes are those of a small machine: Byte bits in a byte, pointers and   *)
(* uint64_t of Word bytes.  A floating-point type holds the multiples of   *)
(* one half up to Halves/2, and NaN.                                       *)
(***************************************************************************)
EXTENDS Integers, Sequences, FiniteSets

CONSTANTS
  Byte,         (* bits in a byte                                           *)
  Word,         (* sizeof(uint64_t), also of a pointer                      *)
  Halves,       (* sizes of the floating-point types -> greatest value      *)
  Length,       (* elements of the array pointers point into                *)
  MaxOperands,  (* bound: operands waiting for their operator               *)
  Liberties     (* expressions the type checks accept, but should they?     *)

(* Powers of two, and numbers put together from n digits of b bits each.    *)
two[n \in Nat] == IF n = 0 THEN 1 ELSE 2 * two[n - 1]

Digit(b, x, i) == (x \div two[b * i]) % two[b]
Assembled(b, n, digit) ==
  LET sum[i \in 0..n] == IF i = 0 THEN 0 ELSE sum[i - 1] + digit[i - 1] * two[b * (i - 1)]
  IN sum[n]

ASSUME OperationsAssumption ==
  /\ Byte \in Nat \ {0} /\ Word \in Nat \ {0} /\ MaxOperands \in Nat \ {0}
  /\ \A n \in DOMAIN Halves : Halves[n] \in 0..two[Word * Byte + 1]
  /\ Length \in 1..(two[Word * Byte - 1] - 1)
  /\ Liberties \subseteq {"nan_not_equal", "cast_to_bool", "bool_sum", "no_instruction"}

VARIABLES
  operands,   (* the expressions built so far, as a stack                   *)
  malformed   (* LLVM was asked for an instruction that does not exist      *)

vars == <<operands, malformed>>

Init == operands = <<>> /\ malformed = FALSE

-----------------------------------------------------------------------------
(* C++ types: is_integral, is_signed, sizeof and what LLVM calls them.     *)

IntN(signed, size) == [kind |-> "int", signed |-> signed, size |-> size]
Bool              == [kind |-> "bool", signed |-> FALSE, size |-> 1]
Pointer           == [kind |-> "pointer", signed |-> FALSE, size |-> Word]
Floating          == {[kind |-> "float", signed |-> TRUE, size |-> n] : n \in DOMAIN Halves}
Integral          == {IntN(s, n) : s \in BOOLEAN, n \in {1, 2, 4, 8} \cap 1..Word} \cup {Bool}
Type              == Integral \cup Floating \cup {Pointer}

Width(t)  == IF t = Bool THEN 1 ELSE t.size * Byte
Values(t) == two[Width(t)]

Undefined == two[4 * Word * Byte + 4]
NaN       == Undefined - 1

(* The numbers of a type, and how LLVM represents them.                    *)
Numbers(t) ==
  CASE t.kind = "pointer" -> 0..Length
    [] t.kind = "float"   -> (-Halves[t.size])..Halves[t.size] \cup {NaN}
    [] t.kind = "bool"    -> 0..1
    [] t.kind = "int"     -> IF t.signed THEN -(Values(t) \div 2)..(Values(t) \div 2 - 1)
                             ELSE 0..(Values(t) - 1)
Signed(w, bits) == IF bits >= two[w - 1] THEN bits - two[w] ELSE bits
Number(t, bits) == IF t.kind = "int" /\ t.signed THEN Signed(Width(t), bits) ELSE bits
Within(t, x)    == IF x \in Numbers(t) THEN x ELSE Undefined

MutantUnmasked(t, x) == x

(* get_constant: APInt(sizeof(Type) * 8, v, is_signed), one bit for a bool.*)
get_constant(t, x) == IF t \in Integral THEN x % Values(t) ELSE x

(* A C++ value brought into an integer type keeps its low bits.            *)
Wrapped(t, x) == Number(t, x % Values(t))

-----------------------------------------------------------------------------
(* LLVM's instructions, on operands of w bits.                             *)

Abs(x) == IF x < 0 THEN -x ELSE x
Quotient(x, y) == IF (x < 0) = (y < 0) THEN Abs(x) \div Abs(y) ELSE -(Abs(x) \div Abs(y))
Remainder(x, y) == x - y * Quotient(x, y)

Traps(instruction, w, a, b) ==
  \/ instruction \in {"udiv", "urem", "sdiv", "srem"} /\ b = 0
  \/ instruction \in {"sdiv", "srem"} /\ Signed(w, a) = -(two[w - 1]) /\ Signed(w, b) = -1

BothBits(w, a, b)  == [i \in 0..(w - 1) |-> Digit(1, a, i) * Digit(1, b, i)]
EitherBit(w, a, b) == [i \in 0..(w - 1) |-> IF Digit(1, a, i) + Digit(1, b, i) = 0 THEN 0 ELSE 1]
OneBit(w, a, b)    == [i \in 0..(w - 1) |-> (Digit(1, a, i) + Digit(1, b, i)) % 2]

Integer(instruction, w, a, b) ==
  IF Traps(instruction, w, a, b) THEN Undefined
  ELSE CASE instruction = "add"  -> (a + b) % two[w]
         [] instruction = "sub"  -> (a - b) % two[w]
         [] instruction = "mul"  -> (a * b) % two[w]
         [] instruction = "udiv" -> a \div b
         [] instruction = "urem" -> a % b
         [] instruction = "sdiv" -> Quotient(Signed(w, a), Signed(w, b)) % two[w]
         [] instruction = "srem" -> Remainder(Signed(w, a), Signed(w, b)) % two[w]
         [] instruction = "and"  -> Assembled(1, w, BothBits(w, a, b))
         [] instruction = "or"   -> Assembled(1, w, EitherBit(w, a, b))
         [] instruction = "xor"  -> Assembled(1, w, OneBit(w, a, b))

(* IEEE arithmetic, shared with C++, in halves: exact or else rounded      *)
(* towards zero; a result too great for the type is beyond this machine.   *)
IEEE(op, x, y) ==
  IF NaN \in {x, y} THEN NaN
  ELSE CASE op = "add" -> x + y
         [] op = "sub" -> x - y
         [] op = "mul" -> Quotient(x * y, 2)
         [] op = "div" -> IF y # 0 THEN Quotient(2 * x, y) ELSE IF x = 0 THEN NaN ELSE Undefined
         [] op = "mod" -> IF y # 0 THEN Remainder(x, y) ELSE NaN

Ordering(op, x, y) ==
  CASE op = "eq" -> x = y [] op = "ne" -> x # y [] op = "ge" -> x >= y
    [] op = "gt" -> x > y [] op = "le" -> x <= y [] op = "lt" -> x < y
Truth(p) == IF p THEN 1 ELSE 0

(* icmp with a predicate that is signed or not; fcmp with an ordered one.  *)
ICmp(signed, op, w, a, b) ==
  IF signed THEN Truth(Ordering(op, Signed(w, a), Signed(w, b))) ELSE Truth(Ordering(op, a, b))
FCmpOrdered(op, a, b) == Truth(NaN \notin {a, b} /\ Ordering(op, a, b))

Extended(signed, from, to, a) ==
  IF signed /\ to > from THEN Signed(from, a) % two[to] ELSE a % two[to]

(* getelementptr inbounds, in elements of the array.                       *)
InBoundsGEP(p, index) == Within(Pointer, p + Signed(Width(Pointer), index))

-----------------------------------------------------------------------------
(* The instructions the code selects.                                      *)

ArithmeticOp == {"add", "sub", "mul", "div", "mod"}
BitwiseOp    == {"and", "or", "xor"}
RelationalOp == {"eq", "ne", "ge", "gt", "le", "lt"}

(* arithmetic_operation::eval. *)
MutantUnsignedRemainder(t, op) ==
  IF t.kind = "float" THEN op
  ELSE CASE op = "div" -> IF t.signed THEN "sdiv" ELSE "udiv"
         [] op = "mod" -> "urem"
         [] OTHER      -> op

ArithmeticInstruction(t, op) ==
  IF t.kind = "float" THEN op
  ELSE CASE op = "div" -> IF t.signed THEN "sdiv" ELSE "udiv"
         [] op = "mod" -> IF t.signed THEN "srem" ELSE "urem"
         [] OTHER      -> op

Arithmetic(t, op, a, b) ==
  IF t.kind = "float" THEN Within(t, IEEE(ArithmeticInstruction(t, op), a, b))
  ELSE Integer(ArithmeticInstruction(t, op), Width(t), a, b)

(* relational_operation::eval: ordered predicates for floating point.      *)
Relational(t, op, a, b) ==
  IF t.kind = "float" THEN FCmpOrdered(op, a, b) ELSE ICmp(t.signed, op, Width(t), a, b)

(* pointer_arithmetic_operation::eval: a narrow index is extended to 64    *)
(* bits as its type says, a subtraction adds 0 - rhs.                      *)
MutantIndexUnextended(t, b) == b
Index(t, b) ==
  IF t.size < Word THEN Extended(t.signed, Width(t), Width(Pointer), b) ELSE b

Displaced(t, op, p, b) ==
  InBoundsGEP(p, IF op = "add" THEN Index(t, b)
                 ELSE Integer("sub", Width(Pointer), 0, Index(t, b)))

(* cast_impl::eval. *)
Truncated(x) == Quotient(x, 2)
Converted(from, to, a) ==
  IF from.kind = "float" THEN
    IF to.kind = "float" THEN Within(to, a)                          (* FPCast         *)
    ELSE IF a = NaN \/ Truncated(a) \notin Numbers(to) THEN Undefined (* FPToSI, FPToUI *)
    ELSE Truncated(a) % Values(to)
  ELSE
    IF to.kind = "float" THEN Within(to, 2 * Number(from, a))        (* SIToFP, UIToFP *)
    ELSE Extended(from.signed, Width(from), Width(to), a)            (* -ExtOrTrunc    *)

(* bswap_impl::eval. *)
Swapped(t, a) ==
  Assembled(Byte, t.size, [i \in 0..(t.size - 1) |-> Digit(Byte, a, t.size - 1 - i)])

-----------------------------------------------------------------------------
(* The numbers the C++ expressions denote, brought back into the operands' *)
(* own type, without a bit in sight where C++ has none: bool is no integer *)
(* of one bit, and whatever is not zero becomes true.                      *)

SymmetricDifference(a, b) == (a \ b) \cup (b \ a)
BitsOf(t, x) == {i \in 0..(Width(t) - 1) : Digit(1, x % Values(t), i) = 1}
FromBits(t, set) ==
  Wrapped(t, Assembled(1, Width(t), [i \in 0..(Width(t) - 1) |-> IF i \in set THEN 1 ELSE 0]))

Brought(t, x) == IF t = Bool THEN Truth(x # 0) ELSE Wrapped(t, x)

CppArithmetic(t, op, x, y) ==
  IF t.kind = "float" THEN Within(t, IEEE(op, x, y))
  ELSE CASE op = "add" -> Brought(t, x + y)
         [] op = "sub" -> Brought(t, x - y)
         [] op = "mul" -> Brought(t, x * y)
         [] op = "div" -> IF y = 0 THEN Undefined ELSE Within(t, Quotient(x, y))
         [] op = "mod" -> IF y = 0 \/ Quotient(x, y) \notin Numbers(t) THEN Undefined
                          ELSE Remainder(x, y)
         [] op = "and" -> FromBits(t, BitsOf(t, x) \cap BitsOf(t, y))
         [] op = "or"  -> FromBits(t, BitsOf(t, x) \cup BitsOf(t, y))
         [] op = "xor" -> FromBits(t, SymmetricDifference(BitsOf(t, x), BitsOf(t, y)))

(* A NaN is unequal to everything, itself included.                        *)
CppRelational(op, x, y) ==
  Truth(IF NaN \in {x, y} THEN op = "ne" ELSE Ordering(op, x, y))

CppDisplaced(op, p, y) == Within(Pointer, IF op = "add" THEN p + y ELSE p - y)

One(t) == IF t.kind = "float" THEN 2 ELSE 1
CppConverted(from, to, x) ==
  IF to = Bool THEN Brought(to, x)
  ELSE IF from.kind = "float" THEN
    IF to.kind = "float" THEN Within(to, x)
    ELSE IF x = NaN THEN Undefined ELSE Within(to, Truncated(x))
  ELSE IF to.kind = "float" THEN Within(to, 2 * x) ELSE Brought(to, x)

-----------------------------------------------------------------------------
(* Building expressions.                                                   *)

Operand(t, bits, number) == [type |-> t, bits |-> bits, number |-> number]
Top(n)    == operands[Len(operands) - n]
Rest(n)   == SubSeq(operands, 1, Len(operands) - n)

(* The result takes the place of its n operands; what was undefined stays  *)
(* so.                                                                     *)
Result(n, t, bits, number) ==
  /\ operands' = Append(Rest(n),
       Operand(t, IF \E i \in 0..(n - 1) : Top(i).bits = Undefined THEN Undefined ELSE bits,
                  IF \E i \in 0..(n - 1) : Top(i).number = Undefined THEN Undefined ELSE number))
  /\ UNCHANGED malformed

Malformed == malformed' = TRUE /\ UNCHANGED operands

(* constant(v), true_(), false_(), or an argument of the function.         *)
Constant ==
  /\ ~malformed /\ Len(operands) < MaxOperands
  /\ \E t \in Type : \E x \in Numbers(t) : Result(0, t, get_constant(t, x), x)

(* 200_i8: the literal is an unsigned long long, brought into the type.    *)
Literal ==
  /\ ~malformed /\ Len(operands) < MaxOperands
  /\ \E t \in Integral \ {Bool} : \E v \in 0..(two[Word * Byte] - 1) :
       Result(0, t, get_constant(t, Wrapped(t, v)), Wrapped(t, v))

(* operator+ to operator^: both operands of one type, no bitwise operator  *)
(* on floating point (and none of either on pointers).                     *)
ArithmeticOperator ==
  /\ ~malformed /\ Len(operands) >= 2 /\ Top(0).type = Top(1).type
  /\ LET t == Top(0).type IN
     \E op \in ArithmeticOp \cup BitwiseOp :
       /\ t.kind # "pointer" /\ (op \in BitwiseOp => t \in Integral)
       /\ t = Bool /\ op = "add" /\ Top(0).number = 1 /\ Top(1).number = 1
            => "bool_sum" \in Liberties
       /\ Result(2, t, Arithmetic(t, op, Top(1).bits, Top(0).bits),
                       CppArithmetic(t, op, Top(1).number, Top(0).number))

(* operator== to operator<: the result is a bool.                          *)
RelationalOperator ==
  /\ ~malformed /\ Len(operands) >= 2 /\ Top(0).type = Top(1).type
  /\ LET t == Top(0).type IN
     \E op \in RelationalOp :
       /\ t.kind # "pointer"
       /\ op = "ne" /\ NaN \in {Top(0).number, Top(1).number} => "nan_not_equal" \in Liberties
       /\ Result(2, Bool, Relational(t, op, Top(1).bits, Top(0).bits),
                          CppRelational(op, Top(1).number, Top(0).number))

PointerOperator ==
  /\ ~malformed /\ Len(operands) >= 2
  /\ Top(1).type = Pointer /\ Top(0).type \in Integral
  /\ \E op \in {"add", "sub"} :
       Result(2, Pointer, Displaced(Top(0).type, op, Top(1).bits, Top(0).bits),
                          CppDisplaced(op, Top(1).number, Top(0).number))

(* cast<To>(from), neither a pointer.                                      *)
Cast ==
  /\ ~malformed /\ operands # <<>> /\ Top(0).type # Pointer
  /\ \E to \in Type \ {Pointer} :
       /\ to = Bool /\ Top(0).number \notin {0, One(Top(0).type)} => "cast_to_bool" \in Liberties
       /\ Result(1, to, Converted(Top(0).type, to, Top(0).bits),
                        CppConverted(Top(0).type, to, Top(0).number))

(* bit_cast<To>(from), between integers: static_assert compares sizeof,    *)
(* LLVM has no bitcast between types of different widths.                  *)
SameSize(from, to) == from.size = to.size

BitCast ==
  /\ ~malformed /\ operands # <<>> /\ Top(0).type \in Integral
  /\ \E to \in Integral :
       /\ SameSize(Top(0).type, to)
       /\ Bool \in {Top(0).type, to} /\ Top(0).type # to => "no_instruction" \in Liberties
       /\ IF Width(Top(0).type) # Width(to) THEN Malformed
          ELSE Result(1, to, Top(0).bits, Wrapped(to, Top(0).number))

(* bswap(v): LLVM's intrinsic exists for an even number of bytes only.     *)
Bswap ==
  /\ ~malformed /\ operands # <<>> /\ Top(0).type \in Integral
  /\ Top(0).type.size % 2 = 1 => "no_instruction" \in Liberties
  /\ LET t == Top(0).type IN
     IF t.size % 2 = 1 THEN Malformed
     ELSE Result(1, t, Swapped(t, Top(0).bits),
                       Number(t, Swapped(t, Top(0).number % Values(t))))

Next ==
  \/ Constant \/ Literal \/ ArithmeticOperator \/ RelationalOperator
  \/ PointerOperator \/ Cast \/ BitCast \/ Bswap

Spec == Init /\ [][Next]_vars

-----------------------------------------------------------------------------
(* Properties.                                                             *)

(* Operands are bits and numbers of their types, or undefined.             *)
TypeOK ==
  /\ malformed \in BOOLEAN
  /\ operands \in Seq([type : Type, bits : Int, number : Int])
  /\ \A i \in DOMAIN operands :
       LET e == operands[i] IN
       /\ e.type \in Type
       /\ e.number \in Numbers(e.type) \cup {Undefined}
       /\ \/ e.bits = Undefined
          \/ IF e.type \in Integral THEN e.bits \in 0..(Values(e.type) - 1)
             ELSE e.bits \in Numbers(e.type)

(* However expressions are combined, what the generated code computes is   *)
(* the number the C++ expression denotes wherever that is defined: signed  *)
(* and unsigned instructions, extensions of indices and casts are chosen   *)
(* right, and nothing is undefined in LLVM that is not in C++.             *)
ValueIsTheCppValue ==
  \A i \in DOMAIN operands :
    LET e == operands[i] IN
    e.number # Undefined => e.bits # Undefined /\ Number(e.type, e.bits) = e.number

(* tests/arithmetic_ops.cpp mul_div_mod2: (x / y) * y + x % y is x for all *)
(* integers of a type for which x / y exists, negative ones included.      *)
DivModRestores ==
  Len(operands) = 2 /\ Top(0).type = Top(1).type /\ Top(0).type \in Integral =>
    LET t == Top(0).type
        x == Top(1).bits
        y == Top(0).bits
        quotient == Arithmetic(t, "div", x, y)
    IN Undefined \notin {x, y} /\ quotient # Undefined =>
         x = Arithmetic(t, "add", Arithmetic(t, "mul", quotient, y), Arithmetic(t, "mod", x, y))

(* builtin.hpp and module_builder.hpp assert the types they accept:        *)
(* whatever passes those checks becomes an instruction that LLVM has.      *)
AcceptedIsWellFormed == ~malformed
=============================================================================
