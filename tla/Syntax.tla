------------------------------- MODULE Syntax -------------------------------
(***************************************************************************)
(* The syntax trees and the types of the compiler (Include/noqeri/ast.hpp, *)
(* types.hpp and the type functions of Compiler/core.cpp), without floats, *)
(* strings and generic records.  A node keeps its sub-expressions in       *)
(* `kids`; the fields that the checkers fill in start at the defaults of   *)
(* ast.hpp.                                                                *)
(* Sizes are in words: every scalar takes one, a slice descriptor two.     *)
(***************************************************************************)
EXTENDS Integers, Sequences

CONSTANT WordSize      \* the number of values of a 64-bit word, 2^64 in the code

Null == <<"null">>
IntV(n) == <<"int", n>>
BoolV(b) == <<"bool", b>>

(* The two's-complement word that holds n.                                 *)
Wrapped(n) == ((n + (WordSize \div 2)) % WordSize) - (WordSize \div 2)
SmallestInt == -(WordSize \div 2)

Magnitude(n) == IF n < 0 THEN -n ELSE n
(* C++ division and remainder, which truncate toward zero.                 *)
Quotient(a, b) ==
  LET q == Magnitude(a) \div Magnitude(b) IN IF (a < 0) = (b < 0) THEN q ELSE -q
Remainder(a, b) == a - b * Quotient(a, b)

(* Arithmetic on words: <<result>>, or <<>> for a division by zero.  The   *)
(* overflow is unchecked, the default.                                     *)
Arithmetic(op, x, y) ==
  CASE op = "+" -> <<IntV(Wrapped(x + y))>> [] op = "-" -> <<IntV(Wrapped(x - y))>>
    [] op = "*" -> <<IntV(Wrapped(x * y))>>
    [] op = "/" -> IF y = 0 THEN <<>> ELSE <<IntV(Wrapped(Quotient(x, y)))>>
    [] op = "%" -> IF y = 0 THEN <<>> ELSE <<IntV(Remainder(x, y))>>
    [] op = "==" -> <<BoolV(x = y)>> [] op = "!=" -> <<BoolV(x # y)>>
    [] op = "<" -> <<BoolV(x < y)>> [] op = "<=" -> <<BoolV(x <= y)>>
    [] op = ">" -> <<BoolV(x > y)>> [] op = ">=" -> <<BoolV(x >= y)>>

BothInt(a, b) == a[1] = "int" /\ b[1] = "int"
Truthy(v) == CASE v[1] = "bool" -> v[2] [] v[1] = "int" -> v[2] # 0 [] OTHER -> FALSE

-----------------------------------------------------------------------------
NoExpr == [k |-> "none", kids |-> <<>>]
Lit(v) == [k |-> "lit", value |-> v, kids |-> <<>>]
Name(x) == [k |-> "name", name |-> x, kids |-> <<>>]
Unary(op, e) == [k |-> "unary", op |-> op, kids |-> <<e>>]
Binary(op, l, r) == [k |-> "binary", op |-> op, kids |-> <<l, r>>]
Call(f, args) == [k |-> "call", callee |-> f, count |-> 0, kids |-> args]
Cast(e, t) == [k |-> "cast", type |-> t, kids |-> <<e>>]
Index(object, index) == [k |-> "index", size |-> 1, slice |-> FALSE, bound |-> -1, kids |-> <<object, index>>]
Member(object, field) == [k |-> "member", member |-> field, offset |-> 0, pointer |-> FALSE, kids |-> <<object>>]
ArrayOf(elements) == [k |-> "array", size |-> 0, kids |-> elements]

(* A statement has its own expression (initial value, condition, result)   *)
(* and the statements below it: of a block, the two branches, a loop's.    *)
Statement(k, e, body) == [k |-> k, expr |-> e, body |-> body]
NoStmt == Statement("nothing", NoExpr, <<>>)
LetS(x, const, t, e) == [k |-> "let", expr |-> e, body |-> <<>>, name |-> x, const |-> const, type |-> t]
ExprS(e) == Statement("expr", e, <<>>)
Block(body, unsafe) == [k |-> "block", expr |-> NoExpr, body |-> body, unsafe |-> unsafe]
IfS(c, then, else) == Statement("if", c, <<then, else>>)
WhileS(c, body) == Statement("while", c, <<body>>)
RepeatS(count, body) == Statement("repeat", count, <<body>>)
ReturnS(e) == Statement("return", e, <<>>)
ThrowS(e) == Statement("throw", e, <<>>)

Param(x, t) == [name |-> x, type |-> t]
FunctionS(f, params, result, body) ==
  [name |-> f, generics |-> <<>>, params |-> params, result |-> result, body |-> body]
(* A function of type parameters, each with what is needed of its types.   *)
TypeParam(t, needs) == [name |-> t, needs |-> needs]
GenericS(f, generics, params, result, body) == [FunctionS(f, params, result, body) EXCEPT !.generics = generics]
ProgramOf(records, functions, statements) ==
  [records |-> records, functions |-> functions, statements |-> statements]

(* A token has its kind and what it says.  A name that is a type parameter *)
(* also has what is needed of its types, which the code takes out of the   *)
(* text before the tokens are made and adds to the tree afterwards.        *)
Token(kind) == <<kind, "">>
Identifier(x) == <<"name", x>>
TypeWord(t) == <<"name", t.name, t.needs>>
Number(n) == <<"number", n>>

IsNull(e) == e.k = "lit" /\ e.value = Null

-----------------------------------------------------------------------------
Simple(k) == [kind |-> k]
NoType == Simple("none")
PointerTo(t) == [kind |-> "pointer", of |-> t]
SliceOf(t) == [kind |-> "slice", of |-> t]
ArrayType(t, n) == [kind |-> "array", of |-> t, count |-> n]
RecordType(r) == [kind |-> "record", name |-> r]

IntegerKinds == {"int", "usize", "isize", "u8"}
IsInteger(t) == t.kind \in IntegerKinds
Bits(k) == IF k = "u8" THEN 8 ELSE 64
Signed(k) == k \in {"int", "isize"}

(* core.cpp:24.  Integers widen within their signedness, or from unsigned  *)
(* to a wider signed type; null goes into any pointer; pointers to void    *)
(* and typed pointers mix.                                                 *)
CanAssign(target, value) ==
  \/ target.kind = "unknown" \/ value.kind = "unknown"
  \/ target = value
  \/ /\ IsInteger(target) /\ IsInteger(value)
     /\ IF Signed(target.kind) = Signed(value.kind)
          THEN Bits(target.kind) >= Bits(value.kind)
          ELSE Signed(target.kind) /\ Bits(target.kind) > Bits(value.kind)
  \/ target.kind = "pointer" /\ value.kind = "null"
  \/ /\ target.kind = "pointer" /\ value.kind = "pointer"
     /\ target.of.kind = "void" \/ value.of.kind = "void" \/ target.of = value.of
=============================================================================
