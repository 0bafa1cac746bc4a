----------------------------- MODULE MCCompiler -----------------------------
(***************************************************************************)
(* The programs that the compiler is checked on, in families: every family *)
(* varies the part whose translation it is about, including the values at  *)
(* which the checks, the folding and the arithmetic have to decide.        *)
(***************************************************************************)
EXTENDS Compiler

CONSTANTS r1, r2

IntT == Simple("int")
BoolT == Simple("bool")
VoidT == Simple("void")
I(n) == IF n < 0 THEN Unary("-", Lit(IntV(-n))) ELSE Lit(IntV(n))
B(b) == Lit(BoolV(b))
Nil == Lit(Null)
N(x) == Name(x)
Bin(op, l, r) == Binary(op, l, r)
AddressOfName(x) == Unary("&", N(x))
Deref(e) == Unary("*", e)
Assigns(place, e) == ExprS(Binary("=", place, e))
Show(e) == ExprS(Call("print", <<e>>))
Let(x, e) == LetS(x, FALSE, NoType, e)
LetT(x, t, e) == LetS(x, FALSE, t, e)
Do(body) == Block(body, FALSE)
Unsafe(body) == Block(body, TRUE)
If(c, then) == IfS(c, Do(then), NoStmt)
IfElse(c, then, else) == IfS(c, Do(then), Do(else))
While(c, body) == WhileS(c, Do(body))

Records == [Pair |-> <<[name |-> "first", type |-> IntT], [name |-> "second", type |-> IntT]>>]
PairPointer == PointerTo(RecordType("Pair"))
With(functions, body) ==
  ProgramOf(Records, functions \o <<FunctionS("main", <<>>, VoidT, body)>>, <<ExprS(Call("main", <<>>))>>)
Main(body) == With(<<>>, body)

-----------------------------------------------------------------------------
(* Arithmetic and comparisons, of constants and of a variable.             *)
Operators == {"+", "-", "*", "/", "%", "==", "!=", "<", "<=", ">", ">="}
Minus(n) == Bin("-", I(0), I(n))     \* a negative constant that folding sees
Smallest == Bin("-", Minus(511), I(1))
Operands == {<<I(7), I(2)>>, <<Minus(7), I(2)>>, <<I(2), I(2)>>, <<I(300), I(300)>>, <<Smallest, Minus(1)>>, <<I(3), I(0)>>}
ArithmeticPrograms ==
  {Main(<<Show(Bin(op, v[1], v[2]))>>) : op \in Operators, v \in Operands}
  \cup {Main(<<Let("x", v[1]), Show(Bin(op, N("x"), v[2]))>>) : op \in Operators, v \in Operands}

(* Right sides that print, or divide by zero, when they are evaluated.     *)
Says == FunctionS("says", <<Param("n", IntT), Param("b", IntT)>>, BoolT,
                  <<Show(N("n")), ReturnS(Bin(">", N("b"), I(0)))>>)
Said(n, b) == Call("says", <<I(n), I(b)>>)
LogicPrograms ==
  {With(<<Says>>, <<Show(Bin(op, Said(1, x), Said(2, y)))>>) : op \in {"&&", "||"}, x, y \in {0, 1}}
  \cup {With(<<Says>>, <<Show(Bin(op, Bin(op2, Said(1, x), Said(2, y)), Said(3, 1)))>>)
          : op, op2 \in {"&&", "||"}, x, y \in {0, 1}}
  \cup {With(<<Says>>, <<Let("z", I(0)), Show(Unary("!", Bin("&&", Bin("!=", N("z"), I(0)), Bin("==", Bin("/", I(1), N("z")), I(1)))))>>)}

(* Arrays and slices, with the index inside and at either edge.            *)
Array3 == ArrayOf(<<I(4), I(5), I(6)>>)
TakesSlice == FunctionS("takes", <<Param("s", SliceOf(IntT)), Param("i", IntT)>>, IntT, <<ReturnS(Index(N("s"), N("i")))>>)
GivesBack == FunctionS("gives", <<Param("t", SliceOf(IntT))>>, SliceOf(IntT), <<ReturnS(N("t"))>>)
ArrayPrograms ==
  {Main(<<Let("a", Array3), Let("k", I(i)), Show(Index(N("a"), N("k")))>>) : i \in {-1, 0, 2, 3}}
  \cup {Main(<<Let("a", Array3), Show(Index(N("a"), I(i)))>>) : i \in {-1, 1, 3}}
  \cup {Main(<<Let("a", Array3), Let("k", I(i)), Assigns(Index(N("a"), N("k")), I(9)), Show(Index(N("a"), I(1))),
               Show(Call("len", <<N("a")>>))>>) : i \in {1, 3}}
  \cup {With(<<TakesSlice>>, <<Let("a", Array3), Let("v", Call("slice", <<N("a")>>)),
                               Show(Call("takes", <<N("v"), I(i)>>)), Show(Call("len", <<N("v")>>))>>) : i \in {-1, 2, 3}}
  \cup {With(<<TakesSlice, GivesBack>>,
             <<Let("a", Array3), Let("v", Call("gives", <<Call("slice", <<N("a")>>)>>)), Assigns(Index(N("v"), I(1)), I(8)),
               Show(Call("takes", <<N("v"), I(1)>>)), Show(Index(N("a"), I(1)))>>)}

(* Pointers, records and atomics, in unsafe blocks or without one.         *)
Swaps == FunctionS("swaps", <<Param("p", PointerTo(IntT)), Param("q", PointerTo(IntT))>>, VoidT,
                   <<Unsafe(<<Let("h", Deref(N("p"))), Assigns(Deref(N("p")), Deref(N("q"))), Assigns(Deref(N("q")), N("h"))>>)>>)
Sums == FunctionS("sums", <<Param("r", PairPointer)>>, IntT,
                  <<Unsafe(<<Assigns(Member(N("r"), "second"), I(7)),
                             Assigns(Member(Deref(N("r")), "first"), I(3)),
                             ReturnS(Bin("+", Member(N("r"), "first"), Bin("*", I(10), Member(N("r"), "second"))))>>)>>)
NullOf(t) == Cast(Nil, t)
PointerPrograms ==
  {With(<<Swaps>>, <<Let("x", I(1)), Let("y", I(2)), ExprS(Call("swaps", <<AddressOfName("x"), AddressOfName("y")>>)),
                     Show(N("x")), Show(N("y"))>>)}
  \cup {Main(<<Let("x", I(1)), LetT("p", PointerTo(IntT), AddressOfName("x")), Block(<<Assigns(Deref(N("p")), I(5)), Show(Index(N("p"), I(i)))>>, u)>>)
          : i \in {0, 1}, u \in BOOLEAN}
  \cup {Main(<<LetT("p", PointerTo(IntT), Nil), Unsafe(<<Show(Deref(N("p")))>>)>>),
        Main(<<Unsafe(<<Show(Deref(NullOf(PointerTo(IntT))))>>)>>),
        Main(<<LetT("p", PairPointer, Nil), Unsafe(<<Show(Member(N("p"), "second"))>>)>>),
        With(<<Sums>>, <<Let("a", ArrayOf(<<I(0), I(0)>>)), Unsafe(<<Show(Call("sums", <<Cast(Unary("&", Index(N("a"), I(0))), PairPointer)>>))>>),
                         Show(Index(N("a"), I(1)))>>)}
  \cup {Main(<<Let("x", I(1)), LetT("p", PointerTo(IntT), AddressOfName("x")),
               Show(Call("atomicCompareExchange", <<N("p"), I(e), I(6)>>)), Show(Call("atomicLoad", <<N("p")>>)),
               ExprS(Call("atomicFence", <<>>)), Show(Call("atomicExchange", <<N("p"), I(8)>>)),
               ExprS(Call("atomicStore", <<N("p"), Bin("+", N("x"), I(1))>>)), Show(N("x"))>>) : e \in {1, 2}}
  \cup {Main(<<Let("x", I(4)), Let("s", Call("slice", <<AddressOfName("x"), I(n)>>)), Show(Index(N("s"), I(0)))>>) : n \in {0, 1}}
  \cup {Main(<<LetT("c", Simple("u8"), I(n)), Show(Cast(N("c"), IntT))>>) : n \in {255, 256}}

(* Branches and loops; a branch that returns and one that does not.        *)
Signs == FunctionS("signs", <<Param("n", IntT)>>, IntT,
                   <<IfElse(Bin("<", N("n"), I(0)), <<ReturnS(I(-1))>>, <<If(Bin(">", N("n"), I(0)), <<ReturnS(I(1))>>)>>), ReturnS(I(0))>>)
Leaves == FunctionS("leaves", <<Param("n", IntT)>>, VoidT, <<IfElse(Bin("<", N("n"), I(1)), <<Show(I(8))>>, <<ReturnS(NoExpr)>>)>>)
CountsDown == FunctionS("counts", <<Param("n", IntT)>>, IntT,
                        <<IfElse(Bin("<=", N("n"), I(0)), <<ReturnS(I(0))>>,
                                 <<ReturnS(Bin("+", N("n"), Call("counts", <<Bin("-", N("n"), I(1))>>)))>>)>>)
ControlPrograms ==
  {With(<<Signs>>, <<Show(Call("signs", <<I(n)>>))>>) : n \in {-4, 0, 4}}
  \cup {With(<<Leaves>>, <<ExprS(Call("leaves", <<I(n)>>)), Show(I(2))>>) : n \in {0, 1}}
  \cup {With(<<CountsDown>>, <<Show(Call("counts", <<I(2)>>))>>)}
  \cup {Main(<<Let("a", Array3), Let("n", I(0)), Let("t", I(0)),
               While(Bin("<", N("n"), I(m)), <<Assigns(N("t"), Bin("+", N("t"), Index(N("a"), N("n")))), Assigns(N("n"), Bin("+", N("n"), I(1)))>>),
               Show(N("t"))>>) : m \in {0, 2, 4}}
  \cup {Main(<<Let("n", I(2)), While(Bin("&&", Bin(">", N("n"), I(0)), Bin("<", N("n"), I(5))),
                 <<Let("d", Bin("*", N("n"), N("n"))), IfElse(Bin("==", N("n"), I(1)), <<Show(N("d"))>>, <<Show(I(0))>>),
                   Assigns(N("n"), Bin("-", N("n"), I(1)))>>)>>)}

(* Status values, thrown and passed on.                                    *)
Throws == FunctionS("throws", <<Param("n", IntT)>>, IntT,
                    <<If(Bin(">", N("n"), I(1)), <<ThrowS(N("n"))>>), If(Bin("<", N("n"), I(0)), <<ThrowS(N("n"))>>), ReturnS(N("n"))>>)
Tries == FunctionS("tries", <<Param("m", IntT)>>, IntT, <<Let("v", Unary("try", Call("throws", <<N("m")>>))), Show(N("v")), ReturnS(Bin("+", N("v"), I(10)))>>)
ErrorPrograms == {With(<<Throws, Tries>>, <<Show(Call("tries", <<I(n)>>))>>) : n \in {-3, 0, 1, 2}}

(* Programs with a type error, a use of memory that is gone, or a raw      *)
(* operation outside an unsafe block, beside ones that are nearly so.      *)
BoolLocal == Let("b", B(TRUE))
TypePrograms ==
  {Main(<<BoolLocal, Show(e)>>) : e \in {Bin("+", N("b"), I(1)), Unary("-", N("b")), Unary("!", I(1)), N("nope"), Call("nobody", <<>>),
                                          Index(N("b"), I(0)), Deref(N("b")), Bin("==", N("b"), B(TRUE)), Bin("<", N("b"), I(1)),
                                          Call("len", <<N("b")>>), Unary("!", N("b")), Bin("&&", N("b"), I(1)), ArrayOf(<<I(1), N("b")>>)}}
  \cup {Main(<<LetS("c", TRUE, NoType, I(1)), Assigns(N("c"), I(2)), Show(N("c"))>>),
        Main(<<Let("d", I(1)), Let("d", I(2))>>),
        Main(<<LetT("e", PointerTo(IntT), I(1))>>),
        Main(<<If(I(1), <<Show(I(1))>>)>>),
        Main(<<Do(<<Let("f", I(1))>>), Show(N("f"))>>),
        With(<<Tries>>, <<Show(Call("tries", <<I(1)>>))>>),
        With(<<Throws>>, <<Show(Unary("try", Call("throws", <<I(1)>>)))>>),
        With(<<Signs>>, <<Show(Call("signs", <<>>))>>),
        With(<<FunctionS("g", <<>>, BoolT, <<ReturnS(I(1))>>)>>, <<>>),
        ProgramOf(Records, <<>>, <<Let("o", I(3)), ThrowS(N("o"))>>)}

Local == Let("a", Array3)
LocalSlice == Call("slice", <<N("a")>>)
Keeps == FunctionS("keeps", <<Param("z", PointerTo(SliceOf(IntT))), Param("w", SliceOf(IntT))>>, VoidT,
                   <<Unsafe(<<Assigns(Index(N("z"), I(0)), N("w"))>>)>>)
LentBy(body) == With(<<FunctionS("lends", <<Param("u", SliceOf(IntT))>>, SliceOf(IntT), body), TakesSlice, GivesBack>>,
                     <<Let("e", ArrayOf(<<I(1), I(2), I(3)>>)), Let("v", Call("lends", <<Call("slice", <<N("e")>>)>>)),
                       Show(Index(N("v"), I(0)))>>)
BorrowPrograms ==
  {LentBy(<<ReturnS(N("u"))>>),
   LentBy(<<Local, ReturnS(LocalSlice)>>),
   LentBy(<<Local, Let("s2", LocalSlice), ReturnS(N("s2"))>>),
   LentBy(<<Local, ReturnS(Call("gives", <<LocalSlice>>))>>),
   LentBy(<<Local, Let("s2", LocalSlice), Assigns(N("s2"), N("u")), ReturnS(N("s2"))>>),
   LentBy(<<Let("s2", N("u")), Do(<<Local, Assigns(N("s2"), LocalSlice)>>), Show(Index(N("s2"), I(0))), ReturnS(N("u"))>>),
   LentBy(<<Local, Let("s2", LocalSlice), IfElse(Bin(">", Call("len", <<N("u")>>), I(0)), <<Assigns(N("s2"), LocalSlice)>>, <<Assigns(N("s2"), N("u"))>>),
            ReturnS(N("s2"))>>),
   With(<<Keeps>>, <<Local, Let("s2", LocalSlice), ExprS(Call("keeps", <<AddressOfName("s2"), LocalSlice>>)), Show(Index(N("s2"), I(0)))>>),
   With(<<FunctionS("points", <<Param("n", IntT)>>, PointerTo(IntT), <<ReturnS(AddressOfName("n"))>>)>>,
        <<Let("q", Call("points", <<I(1)>>)), Unsafe(<<Show(Deref(N("q")))>>)>>),
   With(<<FunctionS("points", <<Param("n", IntT)>>, PointerTo(IntT), <<Let("m", AddressOfName("n")), ReturnS(N("m"))>>)>>,
        <<Let("q", Call("points", <<I(1)>>)), Show(Call("atomicLoad", <<N("q")>>))>>)}

(* Generic functions: one instance for each list of types, the parts of a  *)
(* program where a call is and is not resolved, and what bind refuses.     *)
TypeT == RecordType("T")
OfAny == <<TypeParam("T", {})>>
OfNumbers == <<TypeParam("T", {"Numeric"})>>
Later == GenericS("later", OfAny, <<Param("p", TypeT), Param("q", TypeT)>>, TypeT, <<ReturnS(N("q"))>>)
Twice == GenericS("twice", OfNumbers, <<Param("v", TypeT)>>, TypeT, <<LetT("h", TypeT, N("v")), ReturnS(Bin("+", N("h"), N("v")))>>)
Through == GenericS("through", OfAny, <<Param("v", TypeT)>>, TypeT, <<LetT("h", TypeT, Call("later", <<N("v"), N("v")>>)), ReturnS(N("h"))>>)
Repeats == GenericS("repeats", OfNumbers, <<Param("v", TypeT), Param("n", IntT)>>, TypeT,
                    <<If(Bin("<=", N("n"), I(0)), <<ReturnS(N("v"))>>),
                      ReturnS(Bin("+", Call("repeats", <<N("v"), Bin("-", N("n"), I(1))>>), N("v")))>>)
Nth == GenericS("nth", OfAny, <<Param("s", SliceOf(TypeT)), Param("i", IntT)>>, TypeT, <<ReturnS(Index(N("s"), N("i")))>>)
Fresh1 == GenericS("fresh", OfAny, <<Param("n", IntT)>>, TypeT, <<ReturnS(N("n"))>>)
Casts == GenericS("casts", OfAny, <<Param("v", TypeT)>>, TypeT, <<ReturnS(Cast(N("v"), TypeT))>>)
Counts == GenericS("counts", OfAny, <<Param("v", TypeT)>>, IntT, <<ReturnS(I(3))>>)
Later2(a, b) == Call("later", <<a, b>>)
Tells(e) == IfElse(e, <<Show(I(1))>>, <<Show(I(0))>>)
GenericPrograms ==
  {With(<<Later>>, <<Show(Later2(I(4), e))>>) : e \in {I(5), B(TRUE)}}
  \cup {With(<<Later>>, <<Tells(Later2(B(FALSE), e))>>) : e \in {I(5), B(TRUE)}}
  \cup {With(<<Later>>, <<Let("x", B(b)), Tells(Later2(N("x"), N("x"))), Show(Later2(I(1), I(2)))>>) : b \in BOOLEAN}
  \cup {With(<<Later, Through>>, <<Show(Call("through", <<I(5)>>)), Tells(Call("through", <<B(TRUE)>>))>>)}
  \cup {With(<<Twice>>, <<Show(Call("twice", <<e>>))>>) : e \in {I(300), B(TRUE), Cast(I(200), Simple("u8"))}}
  \cup {With(<<Repeats>>, <<Show(Call("repeats", <<I(3), n>>))>>) : n \in {I(2), Cast(I(2), Simple("usize"))}}
  \cup {With(<<Nth>>, <<Let("a", Array3), LetT("s", SliceOf(IntT), Call("slice", <<N("a")>>)), Show(Call("nth", <<N("s"), I(i)>>))>>) : i \in {1, 3}}
  \cup {With(<<Fresh1>>, <<Show(Call("fresh", <<I(1)>>))>>), With(<<Casts>>, <<Show(Call("casts", <<I(1)>>))>>),
        With(<<Later>>, <<Show(Cast(Later2(I(1), I(2)), Simple("usize")))>>),
        With(<<Later>>, <<Let("a", ArrayOf(<<Later2(I(1), I(2)), Later2(I(3), I(4))>>))>>),
        With(<<Later>>, <<Let("a", ArrayOf(<<Later2(I(1), I(2)), I(4)>>)), Show(Index(N("a"), I(0)))>>),
        ProgramOf(Records, <<Later>>, <<Let("x", I(1)), Show(Later2(N("x"), N("x")))>>),
        ProgramOf(Records, <<Later>>, <<Do(<<Let("x", I(1)), Show(Later2(N("x"), I(2)))>>)>>),
        With(<<Counts>>, <<Let("x", I(1)), Let("a", Array3), LetT("s", SliceOf(IntT), Call("slice", <<N("a")>>)),
                           Show(Call("counts", <<N("s")>>)), Show(Call("counts", <<AddressOfName("x")>>))>>)}

(* A name declared again, beside its first scope or inside it.             *)
ScopePrograms ==
  {Main(<<Do(<<Let("x", I(1)), Show(N("x"))>>), Do(<<Let("x", B(TRUE)), Show(N("x"))>>)>>),
   Main(<<Let("x", I(5)), Do(<<Let("x", B(TRUE)), Show(N("x"))>>), Show(Bin("+", N("x"), I(1)))>>)}

(* Loops that count, also from an expression that prints or that changes.  *)
Repeat(n, body) == RepeatS(n, Do(body))
Asked == FunctionS("asked", <<Param("n", IntT)>>, IntT, <<Show(N("n")), ReturnS(N("n"))>>)
Leaving == FunctionS("leaving", <<Param("n", IntT)>>, IntT, <<Repeat(N("n"), <<ReturnS(I(5))>>), ReturnS(I(6))>>)
Grows == Assigns(N("t"), Bin("+", N("t"), I(1)))
RepeatPrograms ==
  {Main(<<Let("t", I(0)), Repeat(I(n), <<Grows>>), Show(N("t"))>>) : n \in {-1, 0, 2}}
  \cup {With(<<Leaving>>, <<Show(Call("leaving", <<I(n)>>))>>) : n \in {0, 2}}
  \cup {Main(<<Let("t", I(2)), Repeat(N("t"), <<Grows>>), Show(N("t"))>>),
        With(<<Asked>>, <<Repeat(Call("asked", <<I(2)>>), <<Let("t", I(7)), Show(N("t"))>>)>>),
        Main(<<Let("t", I(0)), Repeat(I(2), <<Grows, Repeat(N("t"), <<Show(N("t"))>>)>>)>>),
        Main(<<LetT("c", Simple("u8"), I(2)), Repeat(N("c"), <<Show(I(4))>>)>>),
        Main(<<Repeat(B(TRUE), <<Show(I(4))>>)>>)}

(* Every two operators inside each other, on either side, with one and     *)
(* without one in front of the statement, in a condition and in its branch.*)
Sides == {"||", "&&", "==", "<", "+", "-", "*"}
Within1(e) ==
  {Bin(op, e, N("a")) : op \in Sides} \cup {Bin(op, N("a"), e) : op \in Sides \cup {"="}}
  \cup {Bin("=", place, N("a")) : place \in {q \in {e} : IsPlace(q)}}
  \cup {Unary(op, e) : op \in PrefixOperators} \cup {Cast(e, t) : t \in {IntT, PairPointer, ArrayType(IntT, 2)}}
  \cup {Index(e, N("a")), Index(N("a"), e), Member(e, "first"), Call("a", <<e, N("b")>>), ArrayOf(<<e>>), ArrayOf(<<N("b"), e>>)}
MCTrees ==
  {ProgramOf(<<>>, <<>>, <<ReturnS(NoExpr), Let("c", N("b")), ExprS(e), IfElse(e, <<ExprS(e)>>, <<ReturnS(NoExpr)>>),
                           WhileS(e, IfS(e, ExprS(e), ReturnS(e)))>>)
     : e \in UNION {Within1(inner) : inner \in Within1(N("b"))}}

(* Every short text of the tokens at which expressions, and at which       *)
(* statements, have to be told apart; and literals at the edge of a word.  *)
a1 == Identifier("a")
Short(tokens, n) == UNION {[1..m -> tokens] : m \in 0..n}
MCTexts ==
  Short({a1, Token("("), Token(")"), Token("="), Token("*"), Token("["), Token("]")}, 4)
  \cup Short({a1, Token("if"), Token("else"), Token("{"), Token("}"), Token("return"), Token(";")}, 4)
  \cup {<<Number(n)>> : n \in {511, 512, 1023, 1024}}

MCPrograms ==
  ArithmeticPrograms \cup LogicPrograms \cup ArrayPrograms \cup PointerPrograms \cup ControlPrograms
  \cup ErrorPrograms \cup TypePrograms \cup BorrowPrograms \cup GenericPrograms \cup ScopePrograms \cup RepeatPrograms
MCRegisters == {r1, r2}

(* Dead literals before a jump; after it an index past the array, whose    *)
(* value is shown. The jump lands as far too late as there are literals:   *)
(* with six of them it skips the check and the load, and the value shown   *)
(* is that of a register nothing was loaded into; with eight all the rest. *)
MCShiftedPrograms ==
  {Main(<<Let("a", Array3), Let("k", I(3))>> \o [i \in 1..n |-> ExprS(I(7))]
        \o <<If(Bin("<", N("k"), I(0)), <<Show(I(0))>>), Let("x", Index(N("a"), N("k"))), Show(N("x"))>>) : n \in {0, 3, 6}}

(* A constant, and a variable of its name in an inner scope.               *)
MCConstantPrograms ==
  {ProgramOf(Records, <<>>, <<LetS("limit", TRUE, NoType, I(1)), Do(<<Let(x, I(n)), Show(N(x))>>), Show(N("limit"))>>)
     : x \in {"limit", "other"}, n \in 0..3}
=============================================================================
