---------------------------- MODULE TypeChecker ----------------------------
(***************************************************************************)
(* Compiler/type_checker.cpp: names, scopes, assignability and operators,  *)
(* and the annotations that lowering reads from the tree (element sizes,   *)
(* slices, field offsets, array lengths).  A check returns the type, the   *)
(* annotated node and whether it stayed without a diagnostic.              *)
(* env: scopes (innermost last), functions, records, the result type of    *)
(* the function and whether there is one.                                  *)
(***************************************************************************)
EXTENDS Syntax, SequencesExt

Typed(type, ok, node) == [type |-> type, ok |-> ok, node |-> node]
Unknown == Simple("unknown")

PushScope(env) == [env EXCEPT !.scopes = Append(@, <<>>)]
PopScope(env) == [env EXCEPT !.scopes = Front(@)]
(* define: refused only if the innermost scope has the name.               *)
Define(env, x, t, const) ==
  [env EXCEPT !.scopes[Len(env.scopes)] =
     IF x \in DOMAIN @ THEN @ ELSE [y \in {x} |-> [type |-> t, const |-> const]] @@ @]
DefinedHere(env, x) == x \in DOMAIN Last(env.scopes)
Holders(env, x) == {d \in DOMAIN env.scopes : x \in DOMAIN env.scopes[d]}
Resolves(env, x) == Holders(env, x) # {}
Resolve(env, x) == env.scopes[Max(Holders(env, x))][x]

RECURSIVE SizeOf(_, _)
SizeOf(t, records) ==
  CASE t.kind = "slice" -> 2
    [] t.kind = "array" -> t.count * SizeOf(t.of, records)
    [] t.kind = "record" /\ t.name \in DOMAIN records ->
         FoldLeft(LAMBDA n, field : n + SizeOf(field.type, records), 0, records[t.name])
    [] t.kind \in {"void", "unknown", "record"} -> 0
    [] OTHER -> 1
ElementSize(t, env) == Max({1, SizeOf(t, env.records)})

(* resolveType: a written type is known if its records are, and has no     *)
(* array without elements.                                                 *)
RECURSIVE KnownType(_, _)
KnownType(t, records) ==
  CASE t.kind \in {"pointer", "slice"} -> KnownType(t.of, records)
    [] t.kind = "array" -> t.count > 0 /\ KnownType(t.of, records)
    [] t.kind = "record" -> t.name \in DOMAIN records
    [] OTHER -> TRUE

(* literalInteger and literalFitsInteger: a literal may be narrower than   *)
(* its type.                                                               *)
RECURSIVE LiteralInteger(_)
LiteralInteger(e) ==
  IF e.k = "lit" /\ e.value[1] = "int" THEN <<e.value[2]>>
  ELSE IF e.k = "unary" /\ e.op = "-" /\ LiteralInteger(e.kids[1]) \notin {<<>>, <<SmallestInt>>}
    THEN <<-LiteralInteger(e.kids[1])[1]>>
  ELSE <<>>
Fits(t, n) ==
  CASE t.kind = "u8" -> n \in 0..255 [] t.kind = "usize" -> n >= 0 [] OTHER -> TRUE
CanAssignValue(target, value, e) ==
  \/ CanAssign(target, value)
  \/ /\ IsInteger(target) /\ IsInteger(value)
     /\ LiteralInteger(e) # <<>> /\ Fits(target, LiteralInteger(e)[1])

-----------------------------------------------------------------------------
(* A node is checked with what its sub-expressions, `kids`, came to.       *)
AllOk(kids) == \A i \in DOMAIN kids : kids[i].ok
Rebuilt(e, kids) == [e EXCEPT !.kids = [i \in DOMAIN kids |-> kids[i].node]]

CheckArray(e, kids, env) ==
  IF kids = <<>> THEN Typed(Unknown, FALSE, e)
  ELSE Typed(ArrayType(kids[1].type, Len(kids)),
             AllOk(kids) /\ \A i \in DOMAIN kids : i > 1 => CanAssignValue(kids[1].type, kids[i].type, e.kids[i]),
             [Rebuilt(e, kids) EXCEPT !.size = ElementSize(kids[1].type, env)])

CheckNameAny(e, env) == Typed(IF Resolves(env, e.name) THEN Resolve(env, e.name).type ELSE Unknown, TRUE, e)

CheckName(e, env) ==
  IF Resolves(env, e.name) THEN Typed(Resolve(env, e.name).type, TRUE, e)
  ELSE Typed(Unknown, e.name \in DOMAIN env.functions, e)

CheckTry(t, env) ==
  /\ env.inside
  /\ IsInteger(t) \/ t = Unknown
  /\ IsInteger(env.result) \/ env.result = Unknown

CheckUnary(e, kids, env) ==
  LET t == kids[1].type
      node == Rebuilt(e, kids)
  IN  CASE e.op = "try" -> Typed(t, kids[1].ok /\ CheckTry(t, env), node)
        [] e.op = "&" -> Typed(PointerTo(t),
                               /\ kids[1].ok
                               /\ \/ e.kids[1].k \in {"name", "member", "index"}
                                  \/ e.kids[1].k = "unary" /\ e.kids[1].op = "*",
                               node)
        [] e.op = "*" -> IF t.kind = "pointer" THEN Typed(t.of, kids[1].ok, node) ELSE Typed(Unknown, FALSE, node)
        [] e.op = "!" -> Typed(Simple("bool"), kids[1].ok /\ t.kind \in {"bool", "unknown"}, node)
        [] e.op \in {"-", "+"} -> Typed(t, kids[1].ok /\ (IsInteger(t) \/ t = Unknown), node)

(* resolveField: the field of a record or of what a pointer points to.     *)
FieldOf(t, member, env) ==
  LET base == IF t.kind = "pointer" THEN t.of ELSE t
      fields == IF base.kind = "record" /\ base.name \in DOMAIN env.records THEN env.records[base.name] ELSE <<>>
  IN  SelectInSeq(fields, LAMBDA f : f.name = member)
CheckMember(e, kids, env) ==
  LET t == kids[1].type
      at == FieldOf(t, e.member, env)
      fields == env.records[IF t.kind = "pointer" THEN t.of.name ELSE t.name]
  IN  IF at = 0 THEN Typed(Unknown, FALSE, Rebuilt(e, kids))
      ELSE Typed(fields[at].type, kids[1].ok,
                 [Rebuilt(e, kids) EXCEPT
                    !.offset = FoldLeft(LAMBDA n, f : n + SizeOf(f.type, env.records), 0, SubSeq(fields, 1, at - 1)),
                    !.pointer = t.kind = "pointer"])

CheckIndex(e, kids, env) ==
  LET t == kids[1].type
      ok == AllOk(kids) /\ (IsInteger(kids[2].type) \/ kids[2].type = Unknown)
  IN  IF t.kind \notin {"pointer", "array", "slice"} THEN Typed(Unknown, FALSE, Rebuilt(e, kids))
      ELSE Typed(t.of, ok, [Rebuilt(e, kids) EXCEPT !.size = ElementSize(t.of, env), !.slice = t.kind = "slice"])

CastAllowed(from, to) ==
  \/ IsInteger(from) /\ IsInteger(to)
  \/ from.kind = "pointer" /\ to.kind \in {"pointer", "usize", "isize"}
  \/ to.kind = "pointer" /\ from.kind \in {"usize", "isize", "int", "null"}
  \/ from = Unknown \/ to = Unknown

CheckAssign(e, kids, env) ==
  LET left == e.kids[1] IN
  Typed(kids[1].type,
        /\ AllOk(kids)
        /\ ~(left.k = "name" /\ Resolves(env, left.name) /\ Resolve(env, left.name).const)
        /\ CanAssignValue(kids[1].type, kids[2].type, e.kids[2]),
        Rebuilt(e, kids))

CheckBinary(e, kids) ==
  LET l == kids[1].type
      r == kids[2].type
      numeric == (IsInteger(l) /\ IsInteger(r)) \/ l = Unknown \/ r = Unknown
  IN  CASE e.op \in {"<", "<=", ">", ">=", "==", "!=", "&&", "||"} ->
             Typed(Simple("bool"), AllOk(kids), Rebuilt(e, kids))
        [] e.op = "+" /\ l.kind = "pointer" /\ IsInteger(r) -> Typed(l, AllOk(kids), Rebuilt(e, kids))
        [] e.op = "+" /\ r.kind = "pointer" /\ IsInteger(l) -> Typed(r, AllOk(kids), Rebuilt(e, kids))
        [] OTHER -> Typed(l, AllOk(kids) /\ numeric, Rebuilt(e, kids))

Atomics == {"atomicLoad", "atomicStore", "atomicExchange", "atomicCompareExchange"}
CheckAtomic(e, kids) ==
  LET arity == CASE e.callee = "atomicLoad" -> 1 [] e.callee = "atomicCompareExchange" -> 3 [] OTHER -> 2
  IN  IF Len(kids) # arity THEN Typed(Unknown, FALSE, Rebuilt(e, kids))
      ELSE IF kids[1].type.kind # "pointer" THEN Typed(Unknown, FALSE, Rebuilt(e, kids))
      ELSE LET t == kids[1].type.of IN
           Typed(IF e.callee = "atomicStore" THEN Simple("void") ELSE t,
                 /\ AllOk(kids) /\ (IsInteger(t) \/ t.kind \in {"pointer", "bool"})
                 /\ \A i \in 2..arity : CanAssignValue(t, kids[i].type, e.kids[i]),
                 Rebuilt(e, kids))

CheckBuiltin(e, kids) ==
  LET node == Rebuilt(e, kids)
      t == IF kids = <<>> THEN Unknown ELSE kids[1].type
  IN  CASE e.callee = "len" ->
             Typed(Simple("usize"), Len(kids) = 1 /\ AllOk(kids) /\ t.kind \in {"array", "slice"},
                   IF t.kind = "array" THEN [node EXCEPT !.count = t.count] ELSE node)
        [] e.callee = "slice" /\ Len(kids) = 1 /\ t.kind = "array" ->
             Typed(SliceOf(t.of), AllOk(kids), [node EXCEPT !.count = t.count])
        [] e.callee = "slice" /\ Len(kids) = 2 /\ t.kind = "pointer" ->
             Typed(SliceOf(t.of), AllOk(kids) /\ (IsInteger(kids[2].type) \/ kids[2].type = Unknown), node)
        [] e.callee = "atomicFence" -> Typed(Simple("void"), kids = <<>>, node)
        [] OTHER -> Typed(Unknown, FALSE, node)

CheckCall(e, kids, env) ==
  IF e.callee \in Atomics THEN CheckAtomic(e, kids)
  ELSE IF e.callee \in {"len", "slice", "atomicFence"} THEN CheckBuiltin(e, kids)
  ELSE IF e.callee \notin DOMAIN env.functions THEN Typed(Unknown, FALSE, Rebuilt(e, kids))
  ELSE LET sig == env.functions[e.callee] IN
       Typed(sig.result,
             /\ AllOk(kids) /\ (e.callee = "print" \/ Len(kids) = Len(sig.params))
             /\ \A i \in DOMAIN kids \cap DOMAIN sig.params : CanAssignValue(sig.params[i], kids[i].type, e.kids[i]),
             Rebuilt(e, kids))

CheckNode(e, kids, env) ==
  CASE e.k = "none" -> Typed(Simple("void"), TRUE, e)
    [] e.k = "lit" -> Typed(Simple(e.value[1]), TRUE, e)
    [] e.k = "name" -> CheckName(e, env)
    [] e.k = "array" -> CheckArray(e, kids, env)
    [] e.k = "unary" -> CheckUnary(e, kids, env)
    [] e.k = "member" -> CheckMember(e, kids, env)
    [] e.k = "index" -> CheckIndex(e, kids, env)
    [] e.k = "cast" ->
         Typed(e.type, kids[1].ok /\ KnownType(e.type, env.records) /\ CastAllowed(kids[1].type, e.type), Rebuilt(e, kids))
    [] e.k = "binary" -> IF e.op = "=" THEN CheckAssign(e, kids, env) ELSE CheckBinary(e, kids)
    [] e.k = "call" -> CheckCall(e, kids, env)
RECURSIVE CheckExpr(_, _)
CheckExpr(e, env) == CheckNode(e, [i \in DOMAIN e.kids |-> CheckExpr(e.kids[i], env)], env)

-----------------------------------------------------------------------------
Checked(env, ok, node) == [env |-> env, ok |-> ok, node |-> node]

Next1(before, after) == Checked(after.env, before.ok /\ after.ok, Append(before.node, after.node))

StatusAllowed(code, env) ==
  /\ env.inside
  /\ IsInteger(code.type) \/ code.type = Unknown
  /\ IsInteger(env.result) \/ env.result = Unknown
Conditional(c) == c.ok /\ c.type.kind \in {"bool", "unknown"}

(* A statement, with what its expression `e` and the statements below it   *)
(* came to; only a block has a scope of its own.                           *)
Conclude(s, env, e, below) ==
  LET node == [s EXCEPT !.expr = e.node, !.body = below.node]
      declared == IF s.type = NoType THEN e.type ELSE s.type
  IN  CASE s.k = "let" -> Checked(Define(env, s.name, declared, s.const),
                                  /\ e.ok /\ ~DefinedHere(env, s.name)
                                  /\ KnownType(s.type, env.records) /\ CanAssignValue(declared, e.type, s.expr), node)
        [] s.k = "block" -> Checked(PopScope(below.env), below.ok, node)
        [] s.k \in {"if", "while"} -> Checked(below.env, Conditional(e) /\ below.ok, node)
        [] s.k = "return" -> Checked(env, e.ok /\ CanAssignValue(env.result, e.type, s.expr), node)
        [] s.k = "throw" -> Checked(env, e.ok /\ StatusAllowed(e, env), node)
        [] OTHER -> Checked(env, e.ok, node)

RECURSIVE CheckStmt(_, _)
CheckList(body, env) ==
  FoldLeft(LAMBDA acc, s : Next1(acc, CheckStmt(s, acc.env)), Checked(env, TRUE, <<>>), body)
CheckStmt(s, env) ==
  Conclude(s, env, CheckExpr(s.expr, env), CheckList(s.body, IF s.k = "block" THEN PushScope(env) ELSE env))

-----------------------------------------------------------------------------
Signature(f) == [params |-> [i \in DOMAIN f.params |-> f.params[i].type], result |-> f.result]
Builtins == [f \in {"print"} |-> [params |-> <<Unknown>>, result |-> Simple("void")]]

DistinctParams(f) == \A i, j \in DOMAIN f.params : f.params[i].name = f.params[j].name => i = j
BodyOf(f, body) == [ok |-> DistinctParams(f) /\ body.ok, node |-> [f EXCEPT !.body = body.node]]
CheckFunction(f, env) ==
  BodyOf(f, CheckList(f.body, FoldLeft(LAMBDA en, p : Define(en, p.name, p.type, FALSE),
                                       [PushScope(env) EXCEPT !.result = f.result, !.inside = TRUE], f.params)))

GlobalEnv(program) ==
  LET fs == program.functions IN
  [scopes |-> <<<<>>>>, records |-> program.records, result |-> Simple("void"), inside |-> FALSE,
   functions |-> [f \in {fs[i].name : i \in DOMAIN fs} |->
                    Signature(fs[SelectInSeq(fs, LAMBDA g : g.name = f)])] @@ Builtins]
KnownTypes(f, records) ==
  KnownType(f.result, records) /\ \A i \in DOMAIN f.params : KnownType(f.params[i].type, records)
DistinctFunctions(fs) == \A i, j \in DOMAIN fs : fs[i].name = fs[j].name => i = j
Whole(program, functions, statements) ==
  [ok |-> /\ DistinctFunctions(program.functions)
          /\ \A i \in DOMAIN program.functions : KnownTypes(program.functions[i], program.records)
          /\ AllOk(functions) /\ statements.ok,
   program |-> [program EXCEPT !.functions = [i \in DOMAIN functions |-> functions[i].node],
                               !.statements = statements.node]]
(* check: all signatures first, then the bodies and the statements.        *)
CheckAll(program, env) ==
  Whole(program, [i \in DOMAIN program.functions |-> CheckFunction(program.functions[i], env)],
        CheckList(program.statements, env))
TypeCheck(program) == CheckAll(program, GlobalEnv(program))
=============================================================================
