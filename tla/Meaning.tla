------------------------------ MODULE Meaning ------------------------------
(***************************************************************************)
(* The abstract specification of the compiler: what a checked program of   *)
(* the core language means, told over its syntax tree with block-scoped    *)
(* names, typed values and whole objects, with no registers, addresses,    *)
(* jumps or flat memory.  A run prints values and ends "done" or with a    *)
(* "trap", or is "undefined" when it uses an object whose block has ended, *)
(* or a place outside one.                                                 *)
(* st: objects (by number, each a sequence of values), scopes of names     *)
(* with the objects they own, the printed values, the value of the last    *)
(* expression, and the signal: "go", "return", "trap" or "undefined".      *)
(***************************************************************************)
EXTENDS Syntax, SequencesExt

RefTo(object, offset) == <<"ref", object, offset>>
ArrayAt(object) == <<"array", object>>
SliceAt(object, offset, length) == <<"slice", object, offset, length>>

Goes(st) == st.signal = "go"
Giving(st, v) == [st EXCEPT !.value = v]
Stopping(st, why) == [st EXCEPT !.signal = why]

NewObject(st, words) ==
  LET id == st.count + 1
      scope == Last(st.scopes)
  IN  [st EXCEPT !.objects = [o \in {id} |-> words] @@ @, !.count = id,
                 !.scopes = Append(Front(@), [scope EXCEPT !.owns = @ \cup {id}])]
OpenScope(st) == [st EXCEPT !.scopes = Append(@, [names |-> <<>>, owns |-> {}])]
CloseScope(st) ==
  [st EXCEPT !.objects = [o \in DOMAIN @ \ Last(st.scopes).owns |-> @[o]], !.scopes = Front(@)]
Declare(st, x, v) ==
  LET made == NewObject(st, <<v>>)
      scope == Last(made.scopes)
  IN  [made EXCEPT !.scopes = Append(Front(@), [scope EXCEPT !.names = [y \in {x} |-> made.count] @@ @])]
Sees(st, x) == \E d \in DOMAIN st.scopes : x \in DOMAIN st.scopes[d].names
ObjectOf(st, x) == LET d == SelectLastInSeq(st.scopes, LAMBDA s : x \in DOMAIN s.names) IN st.scopes[d].names[x]

Exists(st, ref) == ref[2] \in DOMAIN st.objects /\ ref[3] \in 0..(Len(st.objects[ref[2]]) - 1)
Fetch(st) ==
  IF ~Goes(st) THEN st ELSE IF ~Exists(st, st.value) THEN Stopping(st, "undefined")
  ELSE Giving(st, st.objects[st.value[2]][st.value[3] + 1])
(* v goes to the place that is the value of st; v is the result.           *)
Update(st, v) ==
  IF ~Goes(st) THEN st ELSE IF ~Exists(st, st.value) THEN Stopping(st, "undefined")
  ELSE Giving([st EXCEPT !.objects[st.value[2]] = [@ EXCEPT ![st.value[3] + 1] = v]], v)

-----------------------------------------------------------------------------
RECURSIVE Eval(_, _, _)
RECURSIVE PlaceOf(_, _, _)
RECURSIVE Run(_, _, _)

(* The values of some expressions, left to right; stops at a signal.       *)
AndValue(done, st) == [st |-> st, vals |-> Append(done.vals, st.value)]
EvalAll(es, st, p) ==
  FoldLeft(LAMBDA done, e : IF Goes(done.st) THEN AndValue(done, Eval(e, done.st, p)) ELSE done,
           [st |-> st, vals |-> <<>>], es)

NonNull(st) == IF Goes(st) /\ st.value \in {Null, IntV(0)} THEN Stopping(st, "trap") ELSE st
Element(st, base, i) ==
  LET within(n, ref) == IF i \in 0..(n - 1) THEN Giving(st, ref) ELSE Stopping(st, "trap") IN
  CASE base[1] = "slice" -> within(base[4], RefTo(base[2], base[3] + i))
    [] base[1] = "array" -> within(Len(st.objects[base[2]]), RefTo(base[2], i))
    [] base[1] = "ref" -> Giving(st, RefTo(base[2], base[3] + i))
    [] OTHER -> Stopping(st, "trap")
ElementIn(done) == IF Goes(done.st) THEN Element(done.st, done.vals[1], done.vals[2][2]) ELSE done.st
FieldIn(st, offset) == IF Goes(st) THEN Giving(st, RefTo(st.value[2], st.value[3] + offset)) ELSE st
PlaceOf(e, st, p) ==
  CASE e.k = "name" -> IF Sees(st, e.name) THEN Giving(st, RefTo(ObjectOf(st, e.name), 0)) ELSE Stopping(st, "undefined")
    [] e.k = "unary" -> NonNull(Eval(e.kids[1], st, p))
    [] e.k = "index" -> ElementIn(EvalAll(e.kids, st, p))
    [] e.k = "member" -> FieldIn(IF e.pointer THEN NonNull(Eval(e.kids[1], st, p)) ELSE PlaceOf(e.kids[1], st, p), e.offset)

(* && and || look at their right side only when the left does not decide.  *)
Decide(left, e, p) == IF Goes(left) /\ left.value = BoolV(e.op = "&&") THEN Eval(e.kids[2], left, p) ELSE left
Arith(op, a, b, st) ==
  IF BothInt(a, b)
    THEN LET v == Arithmetic(op, a[2], b[2]) IN IF v = <<>> THEN Stopping(st, "trap") ELSE Giving(st, v[1])
  ELSE CASE op = "==" -> Giving(st, BoolV(a = b))
         [] op = "!=" -> Giving(st, BoolV(a # b))
         [] op = "+" /\ a[1] = "ref" -> Giving(st, RefTo(a[2], a[3] + b[2]))
         [] OTHER -> Stopping(st, "undefined")
ArithOf(done, op) == IF Goes(done.st) THEN Arith(op, done.vals[1], done.vals[2], done.st) ELSE done.st
AssignTo1(place, st, p) == IF Goes(st) THEN Update(PlaceOf(place, st, p), st.value) ELSE st
BinaryMeans(e, st, p) ==
  CASE e.op = "=" -> AssignTo1(e.kids[1], Eval(e.kids[2], st, p), p)
    [] e.op \in {"&&", "||"} -> Decide(Eval(e.kids[1], st, p), e, p)
    [] OTHER -> ArithOf(EvalAll(e.kids, st, p), e.op)

UnaryMeans(a, op) ==
  IF ~Goes(a) THEN a
  ELSE CASE op = "-" -> Giving(a, IntV(Wrapped(-a.value[2])))
         [] op = "!" -> Giving(a, BoolV(~a.value[2]))
         [] op = "try" -> IF a.value[2] < 0 THEN Stopping(a, "return") ELSE a

(* A function sees its own scopes only; what it throws is its result.      *)
Returned(body, st) ==
  LET back == [body EXCEPT !.scopes = st.scopes, !.objects = [o \in DOMAIN st.objects |-> @[o]]]
  IN  CASE body.signal = "go" -> Giving(back, Null)
        [] body.signal = "return" -> [back EXCEPT !.signal = "go"]
        [] OTHER -> back
Entered(f, args, st) ==
  FoldLeft(LAMBDA s, k : Declare(s, f.params[k].name, args[k]),
           OpenScope([st EXCEPT !.scopes = <<>>]), [k \in DOMAIN args |-> k])
Apply(f, args, st, p) == Returned(Run(f.body, Entered(f, args, st), p), st)

Slice(args, st) ==
  IF args[1][1] = "array" THEN Giving(st, SliceAt(args[1][2], 0, Len(st.objects[args[1][2]])))
  ELSE IF args[1][1] = "ref" THEN Giving(st, SliceAt(args[1][2], args[1][3], args[2][2]))
  ELSE Stopping(st, "undefined")
LengthOfValue(v, st) == IntV(IF v[1] = "array" THEN Len(st.objects[v[2]]) ELSE v[4])
Swapped(old, place, v) == Giving(Update(Giving(old, place), v), old.value)
Atomic(f, args, st) ==
  LET old == Fetch(Giving(st, args[1]))
  IN  IF args[1][1] # "ref" THEN Stopping(st, "trap")
      ELSE IF f = "atomicStore" THEN Giving(Update(Giving(st, args[1]), args[2]), Null)
      ELSE IF f = "atomicLoad" \/ ~Goes(old) THEN old
      ELSE IF f = "atomicExchange" THEN Swapped(old, args[1], args[2])
      ELSE IF old.value = args[2] THEN Swapped(old, args[1], args[3]) ELSE old
Called(f, args, st, p) ==
  CASE f = "print" -> Giving([st EXCEPT !.out = Append(@, args[1])], Null)
    [] f = "len" -> Giving(st, LengthOfValue(args[1], st))
    [] f = "slice" -> Slice(args, st)
    [] f = "atomicFence" -> Giving(st, Null)
    [] f \in {"atomicLoad", "atomicStore", "atomicExchange", "atomicCompareExchange"} -> Atomic(f, args, st)
    [] OTHER -> Apply(p.functions[SelectInSeq(p.functions, LAMBDA g : g.name = f)], args, st, p)
CallIf(done, f, p) == IF Goes(done.st) THEN Called(f, done.vals, done.st, p) ELSE done.st

ArrayFrom(done) ==
  IF Goes(done.st) THEN Giving(NewObject(done.st, done.vals), ArrayAt(done.st.count + 1)) ELSE done.st

Eval(e, st, p) ==
  CASE e.k = "none" -> Giving(st, Null)
    [] e.k = "lit" -> Giving(st, e.value)
    [] e.k \in {"name", "index", "member"} \/ (e.k = "unary" /\ e.op = "*") -> Fetch(PlaceOf(e, st, p))
    [] e.k = "array" -> ArrayFrom(EvalAll(e.kids, st, p))
    [] e.k = "unary" /\ e.op # "*" -> IF e.op = "&" THEN PlaceOf(e.kids[1], st, p) ELSE UnaryMeans(Eval(e.kids[1], st, p), e.op)
    [] e.k = "cast" -> Eval(e.kids[1], st, p)
    [] e.k = "binary" -> BinaryMeans(e, st, p)
    [] e.k = "call" -> CallIf(EvalAll(e.kids, st, p), e.callee, p)

-----------------------------------------------------------------------------
RECURSIVE Exec(_, _, _)
Run(body, st, p) == FoldLeft(LAMBDA s, stmt : IF Goes(s) THEN Exec(stmt, s, p) ELSE s, st, body)
(* What a branch, a loop's body or a block declares ends with it.          *)
Closing(after) == IF Goes(after) THEN CloseScope(after) ELSE after
Scoped(body, st, p) == Closing(Run(body, OpenScope(st), p))
Again(s, st, p) == IF Goes(st) THEN Exec(s, st, p) ELSE st

(* A body that is run n times, each in a scope of its own.                 *)
RECURSIVE Times(_, _, _, _)
Times(n, s, st, p) == IF n > 0 /\ Goes(st) THEN Times(n - 1, s, Scoped(s.body, st, p), p) ELSE st

(* A statement, after its own expression: v has its value.                 *)
ExecWith(s, v, p) ==
  CASE s.k = "let" -> Declare(v, s.name, v.value)
    [] s.k \in {"expr", "nothing"} -> v
    [] s.k = "block" -> Scoped(s.body, v, p)
    [] s.k = "if" -> Scoped(<<s.body[IF v.value = BoolV(TRUE) THEN 1 ELSE 2]>>, v, p)
    [] s.k = "while" -> IF v.value = BoolV(TRUE) THEN Again(s, Scoped(s.body, v, p), p) ELSE v
    [] s.k = "repeat" -> Times(v.value[2], s, v, p)
    [] s.k = "return" -> Stopping(v, "return")
    [] s.k = "throw" -> LET code == v.value[2] IN
                        Giving(Stopping(v, "return"), IntV(IF code < 0 THEN code ELSE -(code + 1)))
ContinueWith(s, v, p) == IF Goes(v) THEN ExecWith(s, v, p) ELSE v
Exec(s, st, p) == ContinueWith(s, Eval(s.expr, st, p), p)

(* What the program prints, and how it ends.                               *)
Ended1(st) == [out |-> st.out, verdict |-> IF st.signal \in {"trap", "undefined"} THEN st.signal ELSE "done"]
MeaningOf(program) ==
  Ended1(Run(program.statements,
             [objects |-> <<>>, count |-> 0, scopes |-> <<[names |-> <<>>, owns |-> {}]>>,
              out |-> <<>>, value |-> Null, signal |-> "go"], program))

-----------------------------------------------------------------------------
(* How a program is written (Grammar/noqeri.grammar.md): the tokens of its *)
(* tree, with the parentheses it needs, those around every condition and a *)
(* semicolon after every statement that may have one.  The payload of the  *)
(* tokens that may be left out says so.                                    *)
RECURSIVE TypeText(_)
TypeText(t) ==
  CASE t.kind = "pointer" -> <<Token("*")>> \o TypeText(t.of)
    [] t.kind = "slice" -> <<Token("["), Token("]")>> \o TypeText(t.of)
    [] t.kind = "array" -> <<Token("[")>> \o TypeText(t.of) \o <<Token(";"), Number(t.count), Token("]")>>
    [] t.kind = "record" -> <<Identifier(t.name)>>
    [] OTHER -> <<Identifier(t.kind)>>
Annotated(t) == IF t.kind \in {"none", "unknown", "void"} THEN <<>> ELSE <<Token(":")>> \o TypeText(t)

Enclosed(open, s, close) == <<Token(open)>> \o s \o <<Token(close)>>
AndAfter(s, text) == IF s = <<>> THEN text ELSE s \o <<Token(",")>> \o text

(* How tightly a node holds its parts together, by the grammar's rules.    *)
BinaryRules == [assignment |-> {"="}, logicalOr |-> {"||"}, logicalAnd |-> {"&&"}, equality |-> {"==", "!="},
                comparison |-> {"<", "<=", ">", ">="}, term |-> {"+", "-"}, factor |-> {"*", "/", "%"}]
Rules == <<"assignment", "logicalOr", "logicalAnd", "equality", "comparison", "term", "factor", "unary", "cast", "postfix">>
RuleOf(e) ==
  CASE e.k = "binary" -> CHOOSE i \in DOMAIN Rules : Rules[i] \in DOMAIN BinaryRules /\ e.op \in BinaryRules[Rules[i]]
    [] e.k = "unary" -> 8 [] e.k = "cast" -> 9 [] OTHER -> 10

RECURSIVE ExprText(_)
Fitting(e, rule) == IF RuleOf(e) < rule THEN Enclosed("(", ExprText(e), ")") ELSE ExprText(e)
ListText(es) == FoldLeft(LAMBDA s, e : AndAfter(s, ExprText(e)), <<>>, es)
LitText(v) == IF v = Null THEN <<Token("null")>> ELSE IF v[1] = "int" THEN <<Number(v[2] % WordSize)>>
              ELSE <<Token(IF v[2] THEN "true" ELSE "false")>>
(* An assignment groups to the right, the other operators to the left.     *)
BinaryText(e) ==
  LET rule == RuleOf(e)
      right == IF rule = 1 THEN 0 ELSE 1
  IN  Fitting(e.kids[1], rule + 1 - right) \o <<Token(e.op)>> \o Fitting(e.kids[2], rule + right)
ExprText(e) ==
  CASE e.k = "none" -> <<>>
    [] e.k = "lit" -> LitText(e.value)
    [] e.k = "name" -> <<Identifier(e.name)>>
    [] e.k = "unary" -> <<Token(e.op)>> \o Fitting(e.kids[1], 8)
    [] e.k = "binary" -> BinaryText(e)
    [] e.k = "call" -> <<Identifier(e.callee)>> \o Enclosed("(", ListText(e.kids), ")")
    [] e.k = "cast" -> Fitting(e.kids[1], 9) \o <<Token("as")>> \o TypeText(e.type)
    [] e.k = "index" -> Fitting(e.kids[1], 10) \o Enclosed("[", ExprText(e.kids[2]), "]")
    [] e.k = "member" -> Fitting(e.kids[1], 10) \o <<Token("."), Identifier(e.member)>>
    [] e.k = "array" -> Enclosed("[", ListText(e.kids), "]")

Terminator == <<";", "terminator">>
RECURSIVE StmtText(_)
ListingText(body) == FoldLeft(LAMBDA text, s : text \o StmtText(s), <<>>, body)
BodyText(body) == Enclosed("{", ListingText(body), "}")
(* A condition and its branch.                                             *)
GoesOn == {"(", "[", "*", "-", "+"}
Conditioned(condition, branch) ==
  LET may == IF condition[1][1] = "(" \/ branch[1][1] \in GoesOn THEN "" ELSE "optional"
  IN  <<<<"(", may>>>> \o condition \o <<<<")", may>>>> \o branch
ElseText(s) == IF s = NoStmt THEN <<>> ELSE <<Token("else")>> \o StmtText(s)
StmtText(s) ==
  CASE s.k = "let" -> <<Token(IF s.const THEN "const" ELSE "let"), Identifier(s.name)>> \o Annotated(s.type)
                      \o <<Token("=")>> \o ExprText(s.expr) \o <<Terminator>>
    [] s.k = "expr" -> ExprText(s.expr) \o <<Terminator>>
    [] s.k = "block" -> (IF s.unsafe THEN <<Token("unsafe")>> ELSE <<>>) \o BodyText(s.body)
    [] s.k = "if" -> <<Token("if")>> \o Conditioned(ExprText(s.expr), StmtText(s.body[1])) \o ElseText(s.body[2])
    [] s.k = "while" -> <<Token("while")>> \o Conditioned(ExprText(s.expr), StmtText(s.body[1]))
    [] s.k = "repeat" -> <<Token("repeat")>> \o ExprText(s.expr) \o StmtText(s.body[1])
    [] s.k \in {"return", "throw"} -> <<Token(s.k)>> \o ExprText(s.expr) \o <<Terminator>>

NamesText(items) == FoldLeft(LAMBDA s, x : AndAfter(s, <<Identifier(x.name)>> \o Annotated(x.type)), <<>>, items)
GenericsText(generics) ==
  IF generics = <<>> THEN <<>> ELSE Enclosed("<", FoldLeft(LAMBDA s, t : AndAfter(s, <<TypeWord(t)>>), <<>>, generics), ">")
FunctionText(f) ==
  <<Token("function"), Identifier(f.name)>> \o GenericsText(f.generics)
  \o Enclosed("(", NamesText(f.params), ")") \o Annotated(f.result) \o BodyText(f.body)
RecordText(x, fields) == <<Token("record"), Identifier(x)>> \o Enclosed("{", NamesText(fields), "}")
ProgramText(p) ==
  FoldLeft(LAMBDA text, x : text \o RecordText(x, p.records[x]), <<>>, SetToSeq(DOMAIN p.records))
  \o FoldLeft(LAMBDA text, f : text \o FunctionText(f), <<>>, p.functions)
  \o ListingText(p.statements)

(* The same text without what may be left out of it: the parentheses of a  *)
(* condition that does not itself begin with one, and they and a semicolon *)
(* unless what follows could go on with the expression before it, or be    *)
(* the value of a return without one.                                      *)
KindAt(s, i) == IF i \in DOMAIN s THEN s[i][1] ELSE "eof"
Omissible(s, i) ==
  \/ s[i][1] \in {"(", ")"} /\ s[i][2] = "optional"
  \/ /\ s[i] = Terminator
     /\ KindAt(s, i + 1) \notin GoesOn
     /\ KindAt(s, i - 1) = "return" => KindAt(s, i + 1) \in {"}", "eof"}
Briefly(s) == LET kept == SelectSeq([i \in DOMAIN s |-> i], LAMBDA i : ~Omissible(s, i)) IN [i \in DOMAIN kept |-> s[kept[i]]]

(* What is left of a text without its punctuation.                         *)
Essence(s) == LET kept == SelectSeq(s, LAMBDA t : t[1] \notin {"(", ")", ";"}) IN [i \in DOMAIN kept |-> <<kept[i][1], kept[i][2]>>]
=============================================================================
