------------------------------ MODULE Generics ------------------------------
(***************************************************************************)
(* The Monomorphizer of Compiler/generics.cpp: a call of a generic         *)
(* function has its type arguments inferred from the values it is given    *)
(* and goes to a copy of the function made for them.  A type parameter is  *)
(* a type with its name, and so is a type that is not known.  Generic      *)
(* records are left out.                                                   *)
(* The state st: ok, the functions by name, the names of the instances by  *)
(* function and types, and the copies in the order they were begun.        *)
(***************************************************************************)
EXTENDS Syntax, SequencesExt

NotKnown == RecordType("unknown")
Inferred(t, node, st) == [type |-> t, node |-> node, st |-> st]
Failing(st, ok) == [st EXCEPT !.ok = @ /\ ok]

RECURSIVE Substitute(_, _)
Substitute(t, bindings) ==
  CASE t.kind = "record" -> IF t.name \in DOMAIN bindings THEN bindings[t.name] ELSE t
    [] t.kind \in {"pointer", "slice", "array"} -> [t EXCEPT !.of = Substitute(@, bindings)]
    [] OTHER -> t

(* substituteStmt: the annotations of declarations, not the casts.         *)
RECURSIVE SubstituteStmt(_, _)
SubstituteStmt(s, bindings) ==
  LET inner == [s EXCEPT !.body = [i \in DOMAIN @ |-> SubstituteStmt(@[i], bindings)]]
  IN  IF s.k = "let" THEN [inner EXCEPT !.type = Substitute(@, bindings)] ELSE inner

ElementType(t) == IF t.kind \in {"slice", "pointer", "array"} THEN t.of ELSE NotKnown

Capable(t, need) ==
  CASE need = "Eq" -> t.kind # "void"
    [] need = "Ord" -> IsInteger(t) \/ t.kind = "bool"
    [] need \in {"Numeric", "Integer"} -> IsInteger(t)
    [] need = "Copy" -> t.kind \notin {"void", "array", "slice", "record"}

(* bind: what a parameter's type has to be for the value given to it.      *)
RECURSIVE Bind(_, _, _)
Bind(pattern, actual, acc) ==
  IF pattern.kind = "record" /\ pattern.name \in acc.params
    THEN IF pattern.name \in DOMAIN acc.bindings
           THEN [acc EXCEPT !.ok = @ /\ acc.bindings[pattern.name] = actual]
           ELSE [acc EXCEPT !.bindings = [p \in {pattern.name} |-> actual] @@ @]
  ELSE IF pattern.kind = actual.kind /\ pattern.kind \in {"pointer", "slice"}
    THEN Bind(pattern.of, actual.of, acc)
  ELSE [acc EXCEPT !.ok = @ /\ pattern = actual]
BindAll(f, actuals) ==
  FoldLeft(LAMBDA acc, i : Bind(f.params[i].type, actuals[i], acc),
           [ok |-> TRUE, bindings |-> <<>>, params |-> {f.generics[i].name : i \in DOMAIN f.generics}],
           [i \in 1..Min({Len(f.params), Len(actuals)}) |-> i])
Bound(f, bound) ==
  bound.ok /\ \A i \in DOMAIN f.generics :
    /\ f.generics[i].name \in DOMAIN bound.bindings
    /\ \A need \in f.generics[i].needs : Capable(bound.bindings[f.generics[i].name], need)

(* safeType: what is left of a type in a name.  Whatever is not a letter   *)
(* or a digit becomes a single underscore.                                 *)
RECURSIVE Letters(_)
Letters(t) ==
  CASE t.kind \in {"pointer", "slice"} -> Letters(t.of)
    [] t.kind = "array" -> Letters(t.of) \o "_" \o ToString(t.count)
    [] t.kind = "record" -> t.name
    [] OTHER -> t.kind
SafeType(t) == (IF t.kind \in {"pointer", "slice", "array"} THEN "_" ELSE "") \o Letters(t)
InstanceName(f, types) == FoldLeft(LAMBDA n, t : n \o "__" \o SafeType(t), f.name, types)

-----------------------------------------------------------------------------
RECURSIVE Infer(_, _, _)
RECURSIVE Process(_, _, _)

(* Of an array only the first element is looked at, of an index only the   *)
(* object, and of a cast nothing: a generic call elsewhere stays as it is. *)
LookedAt(e) ==
  CASE e.k = "cast" -> 0
    [] e.k \in {"array", "index"} -> Min({1, Len(e.kids)})
    [] OTHER -> Len(e.kids)
AndType(done, one) ==
  [types |-> Append(done.types, one.type), nodes |-> Append(done.nodes, one.node), st |-> one.st]
InferAll(es, env, st) ==
  FoldLeft(LAMBDA done, e : AndType(done, Infer(e, env, done.st)), [types |-> <<>>, nodes |-> <<>>, st |-> st], es)
InferKids(e, env, st) == InferAll(SubSeq(e.kids, 1, LookedAt(e)), env, st)

TypeAt(e, types, env) ==
  CASE e.k = "none" -> Simple("void")
    [] e.k = "lit" -> Simple(e.value[1])
    [] e.k = "name" -> IF e.name \in DOMAIN env THEN env[e.name] ELSE NotKnown
    [] e.k = "cast" -> e.type
    [] e.k = "unary" -> CASE e.op = "!" -> Simple("bool") [] e.op = "&" -> PointerTo(types[1])
                          [] e.op = "*" -> ElementType(types[1]) [] OTHER -> types[1]
    [] e.k = "binary" -> IF e.op \in {"==", "!=", "<", "<=", ">", ">=", "&&", "||"} THEN Simple("bool") ELSE types[1]
    [] e.k = "array" -> ArrayType(IF types = <<>> THEN NotKnown ELSE types[1], Len(e.kids))
    [] e.k = "index" -> ElementType(types[1])
    [] e.k = "member" -> NotKnown

(* processStmt.  A list of statements shares its names, what is below a    *)
(* statement has a copy of them.                                           *)
AndNode(done, one) == [nodes |-> Append(done.nodes, one.node), env |-> one.env, st |-> one.st]
ProcessList(body, env, st) ==
  FoldLeft(LAMBDA done, s : AndNode(done, Process(s, done.env, done.st)), [nodes |-> <<>>, env |-> env, st |-> st], body)
ProcessBelow(s, env, st) ==
  IF s.k = "block" THEN ProcessList(s.body, env, st)
  ELSE FoldLeft(LAMBDA done, b : [AndNode(done, Process(b, env, done.st)) EXCEPT !.env = env],
                [nodes |-> <<>>, env |-> env, st |-> st], s.body)
Named1(env, s, t) == IF s.k = "let" THEN [x \in {s.name} |-> IF s.type = NoType THEN t ELSE s.type] @@ env ELSE env
Processed(s, own, below, env) ==
  [node |-> [s EXCEPT !.expr = own.node, !.body = below.nodes], env |-> Named1(env, s, own.type), st |-> below.st]
ProcessWith(s, own, env) == Processed(s, own, ProcessBelow(s, env, own.st), env)
Process(s, env, st) == ProcessWith(s, Infer(s.expr, env, st), env)

EnvOf(f) ==
  [x \in {f.params[i].name : i \in DOMAIN f.params} |->
     f.params[SelectLastInSeq(f.params, LAMBDA p : p.name = x)].type]

-----------------------------------------------------------------------------
(* instantiate: the name is known before the copy's body is processed, so  *)
(* that a recursive call finds it.                                         *)
CopyOf(f, name, b) ==
  [f EXCEPT !.name = name, !.generics = <<>>, !.result = Substitute(@, b),
            !.params = [i \in DOMAIN @ |-> [@[i] EXCEPT !.type = Substitute(@, b)]],
            !.body = [i \in DOMAIN @ |-> SubstituteStmt(@[i], b)]]
Filled(at, copy, body) == [body.st EXCEPT !.made[at] = [copy EXCEPT !.body = body.nodes]]
Made(copy, st) == Filled(Len(st.made), copy, ProcessList(copy.body, EnvOf(copy), st))
InstantiateOnce(f, types, b, st) ==
  LET known == {key \in DOMAIN st.names : key[1] = f.name}
      name == IF known = {} THEN InstanceName(f, types) ELSE st.names[CHOOSE key \in known : TRUE]
      named == [st EXCEPT !.names = [key \in {<<f.name, types>>} |-> name] @@ @]
  IN  IF known # {} THEN named
      ELSE Made(CopyOf(f, name, b), [named EXCEPT !.made = Append(@, CopyOf(f, name, b))])

Instantiate(f, types, b, st) ==
  IF <<f.name, types>> \in DOMAIN st.names THEN st
  ELSE LET name == InstanceName(f, types)
           copy == CopyOf(f, name, b)
       IN  Made(copy, [st EXCEPT !.names = [key \in {<<f.name, types>>} |-> name] @@ @, !.made = Append(@, copy)])

TypesOf(f, b) == [i \in DOMAIN f.generics |-> b[f.generics[i].name]]
Renamed(e, f, b, st) == Inferred(Substitute(f.result, b), [e EXCEPT !.callee = st.names[<<f.name, TypesOf(f, b)>>]], st)
Specialised(e, f, bound, st) ==
  IF Bound(f, bound) /\ st.ok
    THEN Renamed(e, f, bound.bindings, Instantiate(f, TypesOf(f, bound.bindings), bound.bindings, st))
    ELSE Inferred(NotKnown, e, Failing(st, FALSE))
ProcessCall(e, args) ==
  LET f == args.st.functions[e.callee] IN
  IF e.callee \notin DOMAIN args.st.functions
    THEN Inferred(IF e.callee = "len" THEN Simple("usize") ELSE NotKnown, e, args.st)
  ELSE IF f.generics = <<>> THEN Inferred(f.result, e, args.st)
  ELSE Specialised(e, f, BindAll(f, args.types), args.st)

InferWith(e, kids, env) ==
  LET node == [e EXCEPT !.kids = kids.nodes \o SubSeq(e.kids, Len(kids.nodes) + 1, Len(e.kids))] IN
  IF e.k = "call" THEN ProcessCall(node, kids) ELSE Inferred(TypeAt(e, kids.types, env), node, kids.st)
Infer(e, env, st) == InferWith(e, InferKids(e, env, st), env)

-----------------------------------------------------------------------------
(* run: the functions that are not generic, the other statements, each     *)
(* with names of its own, and then the instances.                          *)
AndFunction(done, f, body) == [functions |-> Append(done.functions, [f EXCEPT !.body = body.nodes]), st |-> body.st]
ProcessFunctions(fs, st) ==
  FoldLeft(LAMBDA done, f : AndFunction(done, f, ProcessList(f.body, EnvOf(f), done.st)), [functions |-> <<>>, st |-> st], fs)
ProcessStatements(ss, st) ==
  FoldLeft(LAMBDA done, s : AndNode(done, Process(s, <<>>, done.st)), [nodes |-> <<>>, env |-> <<>>, st |-> st], ss)
Result(program, functions, statements) ==
  [ok |-> statements.st.ok,
   program |-> [program EXCEPT !.functions = functions \o statements.st.made, !.statements = statements.nodes]]
AfterFunctions(program, done) == Result(program, done.functions, ProcessStatements(program.statements, done.st))
Monomorphize(program) ==
  LET fs == program.functions
      byName == [f \in {fs[i].name : i \in DOMAIN fs} |-> fs[SelectLastInSeq(fs, LAMBDA g : g.name = f)]]
  IN  AfterFunctions(program,
        ProcessFunctions(SelectSeq(fs, LAMBDA f : f.generics = <<>>),
                         [ok |-> TRUE, functions |-> byName, names |-> <<>>, made |-> <<>>]))
=============================================================================
