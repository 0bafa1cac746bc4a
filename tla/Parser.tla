------------------------------- MODULE Parser -------------------------------
(***************************************************************************)
(* bootstrap/parser_host.cpp: recursive descent over the tokens of a text. *)
(* p: the tokens, where the next one is, what was read last (`node`),      *)
(* whether there was no diagnostic, and the exception under way: a parser  *)
(* that threw sees no token any rule takes, so every rule it is in comes   *)
(* to its end, out to the block or program that catches.                   *)
(* Strings, floats, `volatile` and calls through a namespace are left out. *)
(***************************************************************************)
EXTENDS Syntax, SequencesExt

Parsing(tokens) == [tokens |-> tokens, at |-> 1, node |-> NoExpr, clean |-> TRUE, thrown |-> "nothing"]
Given(p, node) == [p EXCEPT !.node = node]

peek(p) ==
  IF p.thrown # "nothing" THEN Token("thrown") ELSE IF p.at > Len(p.tokens) THEN Token("eof") ELSE p.tokens[p.at]
check(p, kinds) == peek(p)[1] \in kinds
lexeme(p, kind) == IF check(p, {kind}) THEN peek(p)[2] ELSE ""
advance(p) == [p EXCEPT !.at = @ + 1]
match(p, kinds) == IF check(p, kinds) THEN advance(p) ELSE p
Throwing(p) == IF p.thrown = "nothing" THEN [p EXCEPT !.clean = FALSE, !.thrown = "ParseError"] ELSE p
consume(p, kind) == IF check(p, {kind}) THEN advance(p) ELSE Throwing(p)

(* After an error: past the token it was found at, and on to the end of a  *)
(* statement or the beginning of one.                                      *)
Starters == {"function", "record", "module", "import", "extern", "export", "let", "const", "if", "while",
             "repeat", "return", "throw", "unsafe"}
synchronize(p) ==
  LET from == Min({p.at + 1, Len(p.tokens) + 1})
      resumes == {i \in from..Len(p.tokens) : p.tokens[i][1] \in Starters \/ p.tokens[i - 1][1] = ";"}
  IN  [p EXCEPT !.at = Min(resumes \cup {Len(p.tokens) + 1}), !.thrown = "nothing"]

-----------------------------------------------------------------------------
(* Written types; a name that is no type of the language is a record's.    *)
BaseTypes == IntegerKinds \cup {"bool", "void", "null"}
typeFromName(x) == IF x \in BaseTypes THEN Simple(x) ELSE RecordType(x)

RECURSIVE parseTypeName(_)
PointerName(p) == LET of == parseTypeName(p) IN Given(of, PointerTo(of.node))
SliceName(p) == LET of == parseTypeName(p) IN Given(of, SliceOf(of.node))
ArrayName(p) ==
  LET of == parseTypeName(p)
      count == consume(of, ";")
  IN  Given(consume(consume(count, "number"), "]"), ArrayType(of.node, lexeme(count, "number")))
parseTypeName(p) ==
  IF check(p, {"*"}) THEN PointerName(advance(p))
  ELSE IF ~check(p, {"["}) THEN Given(consume(p, "name"), typeFromName(lexeme(p, "name")))
  ELSE IF check(advance(p), {"]"}) THEN SliceName(advance(advance(p)))
  ELSE ArrayName(advance(p))

-----------------------------------------------------------------------------
(* Operators, from the loosest; those of one level group to the left.      *)
Precedence == <<{"||"}, {"&&"}, {"==", "!="}, {"<", "<=", ">", ">="}, {"+", "-"}, {"*", "/", "%"}>>
PrefixOperators == {"!", "-", "+", "*", "&", "try"}

RECURSIVE expression(_)
RECURSIVE unary(_)
RECURSIVE Level(_, _)
RECURSIVE Joined(_, _)
RECURSIVE suffixes(_)
RECURSIVE cast(_)
RECURSIVE Commas(_, _, _)

annotation(p, default) == IF check(p, {":"}) THEN parseTypeName(advance(p)) ELSE Given(p, default)
(* A parameter without a type takes any.                                   *)
parameter(p) ==
  LET t == annotation(consume(p, "name"), Simple("unknown")) IN Given(t, Param(lexeme(p, "name"), t.node))
typeParameter(p) == Given(consume(p, "name"), TypeParam(lexeme(p, "name"), IF Len(peek(p)) = 3 THEN peek(p)[3] ELSE {}))

(* A list of expressions, parameters or type parameters.                   *)
Item(of, p) ==
  CASE of = "expressions" -> expression(p) [] of = "parameters" -> parameter(p) [] of = "types" -> typeParameter(p)
AndItem(of, item, done) ==
  IF check(item, {","}) THEN Commas(of, advance(item), Append(done, item.node)) ELSE Given(item, Append(done, item.node))
Commas(of, p, done) == AndItem(of, Item(of, p), done)
ListUpTo(close, of, p) == consume(IF check(p, {close}) THEN Given(p, <<>>) ELSE Commas(of, p, <<>>), close)

(* A literal is a word, read as a signed one; beyond it stoull throws what *)
(* the parser does not catch.                                              *)
number(p) ==
  IF peek(p)[2] < WordSize THEN Given(advance(p), Lit(IntV(Wrapped(peek(p)[2]))))
  ELSE [p EXCEPT !.clean = FALSE, !.thrown = "out_of_range"]
array(p) == LET elements == ListUpTo("]", "expressions", p) IN Given(elements, ArrayOf(elements.node))
primary(p) ==
  CASE check(p, {"number"}) -> number(p)
    [] check(p, {"true", "false"}) -> Given(advance(p), Lit(BoolV(check(p, {"true"}))))
    [] check(p, {"null"}) -> Given(advance(p), Lit(Null))
    [] check(p, {"name"}) -> Given(advance(p), Name(lexeme(p, "name")))
    [] check(p, {"["}) -> array(advance(p))
    [] check(p, {"("}) -> consume(expression(advance(p)), ")")
    [] OTHER -> Throwing(p)

(* What is called has a name: a callee without one is read here and        *)
(* refused by checkExpr (type_checker.cpp l.176).                          *)
CallOf(callee, args) ==
  IF callee.k = "name" THEN Given(args, Call(callee.name, args.node)) ELSE [Given(args, callee) EXCEPT !.clean = FALSE]
IndexOf(object, index) == Given(index, Index(object, index.node))
MemberOf(object, p) == Given(consume(p, "name"), Member(object, lexeme(p, "name")))
suffixes(p) ==
  CASE check(p, {"("}) -> suffixes(CallOf(p.node, ListUpTo(")", "expressions", advance(p))))
    [] check(p, {"["}) -> suffixes(IndexOf(p.node, consume(expression(advance(p)), "]")))
    [] check(p, {"."}) -> suffixes(MemberOf(p.node, advance(p)))
    [] OTHER -> p
CastOf(value, type) == Given(type, Cast(value, type.node))
cast(p) == IF check(p, {"as"}) THEN cast(CastOf(p.node, parseTypeName(advance(p)))) ELSE p

Prefixed(op, operand) == Given(operand, Unary(op, operand.node))
unary(p) == IF check(p, PrefixOperators) THEN Prefixed(peek(p)[1], unary(advance(p))) ELSE cast(suffixes(primary(p)))

makeBinary(left, op, right) == Given(right, Binary(op, left, right.node))

(* Mutant: operators of one level group to the right. *)
JoinedRight(level, p) ==
  IF check(p, Precedence[level]) THEN makeBinary(p.node, peek(p)[1], Level(level, advance(p))) ELSE p

Joined(level, p) ==
  IF check(p, Precedence[level])
    THEN Joined(level, makeBinary(p.node, peek(p)[1], Level(level + 1, advance(p)))) ELSE p

Level(level, p) == IF level > Len(Precedence) THEN unary(p) ELSE Joined(level, Level(level + 1, p))

(* An assignment to what is no place is reported, and read as its left     *)
(* side.                                                                   *)
IsPlace(e) == e.k \in {"name", "index", "member"} \/ (e.k = "unary" /\ e.op = "*")
AssignmentTo(left, value) ==
  IF IsPlace(left) THEN makeBinary(left, "=", value) ELSE [Given(value, left) EXCEPT !.clean = FALSE]
assignment(left) == IF check(left, {"="}) THEN AssignmentTo(left.node, expression(advance(left))) ELSE left
expression(p) == assignment(Level(1, p))

-----------------------------------------------------------------------------
RECURSIVE statement(_)
RECURSIVE declaration(_)
RECURSIVE Declarations(_, _, _)

(* Declarations up to a token; one that throws is left out, and reading    *)
(* goes on after it.                                                       *)
AndDeclaration(until, d, done) ==
  CASE d.thrown = "nothing" -> Declarations(until, d, Append(done, d.node))
    [] d.thrown = "ParseError" -> Declarations(until, synchronize(d), done)
    [] OTHER -> d
Declarations(until, p, done) ==
  IF p.thrown # "nothing" \/ check(p, until) THEN Given(p, done) ELSE AndDeclaration(until, declaration(p), done)

block(p, unsafe) ==
  LET body == consume(Declarations({"}", "eof"}, p, <<>>), "}") IN Given(body, Block(body.node, unsafe))

(* A condition that begins with a parenthesis ends where that closes.      *)
condition(p) == IF check(p, {"("}) THEN consume(expression(advance(p)), ")") ELSE expression(p)
ElseOf(c, then, p) ==
  LET else == IF check(p, {"else"}) THEN statement(advance(p)) ELSE Given(p, NoStmt)
  IN  Given(else, IfS(c, then, else.node))
ThenOf(c, then) == ElseOf(c.node, then.node, then)
ifStatement(p) == LET c == condition(p) IN ThenOf(c, statement(c))
whileStatement(p) ==
  LET c == condition(p)
      body == statement(c)
  IN  Given(body, WhileS(c.node, body.node))

(* repeat is a loop over variables of its own, named for their place.      *)
Counted(count, body, limit, index) ==
  LET counter == Name(index)
      more == ExprS(Binary("=", counter, Binary("+", counter, Lit(IntV(1)))))
  IN  Block(<<LetS(limit, FALSE, Simple("int"), Cast(count, Simple("int"))),
              LetS(index, FALSE, Simple("int"), Lit(IntV(0))),
              WhileS(Binary("<", counter, Name(limit)), Block(Append(body, more), FALSE))>>, FALSE)
repeatStatement(p) ==
  LET count == expression(p)
      body == block(consume(count, "{"), FALSE)
      place == ToString(p.at - 1)
  IN  Given(body, Counted(count.node, body.node.body, "__nq_repeat_limit_" \o place, "__nq_repeat_index_" \o place))

returnStatement(p) ==
  LET value == IF check(p, {";", "}", "eof"}) THEN Given(p, NoExpr) ELSE expression(p)
  IN  Given(match(value, {";"}), ReturnS(value.node))
throwStatement(p) == LET code == expression(p) IN Given(match(code, {";"}), ThrowS(code.node))
expressionStatement(p) == LET e == expression(p) IN Given(match(e, {";"}), ExprS(e.node))

statement(p) ==
  CASE check(p, {"if"}) -> ifStatement(advance(p))
    [] check(p, {"while"}) -> whileStatement(advance(p))
    [] check(p, {"repeat"}) -> repeatStatement(advance(p))
    [] check(p, {"return"}) -> returnStatement(advance(p))
    [] check(p, {"throw"}) -> throwStatement(advance(p))
    [] check(p, {"unsafe"}) -> block(consume(advance(p), "{"), TRUE)
    [] check(p, {"{"}) -> block(advance(p), FALSE)
    [] OTHER -> expressionStatement(p)

-----------------------------------------------------------------------------
letDeclaration(p, const) ==
  LET t == annotation(consume(p, "name"), NoType)
      e == expression(consume(t, "="))
  IN  Given(match(e, {";"}), LetS(lexeme(p, "name"), const, t.node, e.node))

(* A function without a result type has none, and an extern one no body.   *)
parseGenericParams(p) == IF check(p, {"<"}) THEN consume(Commas("types", advance(p), <<>>), ">") ELSE Given(p, <<>>)
functionDeclaration(p, extern) ==
  LET generics == parseGenericParams(consume(p, "name"))
      params == ListUpTo(")", "parameters", consume(generics, "("))
      result == annotation(params, Simple("void"))
      body == IF extern THEN Given(match(result, {";"}), Block(<<>>, FALSE)) ELSE block(consume(result, "{"), FALSE)
      f == GenericS(lexeme(p, "name"), generics.node, params.node, result.node, body.node.body)
  IN  Given(body, [k |-> IF extern THEN "extern" ELSE "function", function |-> f])

RECURSIVE Fields(_, _)
Fields(p, done) ==
  IF p.thrown # "nothing" \/ check(p, {"}", "eof"}) THEN Given(p, done)
  ELSE LET t == parseTypeName(consume(consume(p, "name"), ":"))
       IN  Fields(match(t, {",", ";"}), Append(done, [name |-> lexeme(p, "name"), type |-> t.node]))
recordDeclaration(p) ==
  LET fields == consume(Fields(consume(consume(p, "name"), "{"), <<>>), "}")
  IN  Given(match(fields, {";"}), [k |-> "record", name |-> lexeme(p, "name"), fields |-> fields.node])

RECURSIVE Dotted(_)
Dotted(p) == IF check(p, {"."}) THEN Dotted(consume(advance(p), "name")) ELSE p
moduleDeclaration(p) == Given(match(Dotted(consume(p, "name")), {";"}), [k |-> "module"])
importDeclaration(p) == Given(match(consume(p, "string"), {";"}), [k |-> "import"])

(* export and extern, in either order, stand before functions only.        *)
Modified(p, first, isExtern) ==
  IF check(p, {"function"}) THEN functionDeclaration(advance(p), isExtern)
  ELSE IF p.at > first THEN Throwing(p)
  ELSE CASE check(p, {"module"}) -> moduleDeclaration(advance(p))
         [] check(p, {"import"}) -> importDeclaration(advance(p))
         [] check(p, {"record"}) -> recordDeclaration(advance(p))
         [] check(p, {"let", "const"}) -> letDeclaration(advance(p), check(p, {"const"}))
         [] OTHER -> statement(p)
declaration(p) ==
  LET exported == match(p, {"export"})
      extern == match(exported, {"extern"})
      both == IF exported.at > p.at THEN match(extern, {"extern"}) ELSE extern
      isExtern == both.at > exported.at
  IN  Modified(IF isExtern THEN match(both, {"export"}) ELSE both, p.at, isExtern)

-----------------------------------------------------------------------------
(* The whole text.  The later passes look for records and functions in it, *)
(* and take the other statements in their order.                           *)
OfKind(body, kinds) == SelectSeq(body, LAMBDA d : d.k \in kinds)
Gathered(body) ==
  LET functions == OfKind(body, {"function"}) IN
  ProgramOf(FoldLeft(LAMBDA records, r : [x \in {r.name} |-> r.fields] @@ records, <<>>, OfKind(body, {"record"})),
            [i \in DOMAIN functions |-> functions[i].function],
            SelectSeq(body, LAMBDA d : d.k \notin {"record", "function", "extern", "module", "import"}))
Outcome(p) == [ok |-> p.clean, program |-> IF p.clean THEN Gathered(p.node) ELSE p.node]
parse(tokens) == Outcome(Declarations({"eof"}, Parsing(tokens), <<>>))
=============================================================================
