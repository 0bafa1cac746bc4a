--------------------------- MODULE MemorySafety -----------------------------
(***************************************************************************)
(* The two passes that reject programs for what they do to memory.         *)
(* Compiler/safety.cpp: raw-pointer operations need an unsafe block, and   *)
(* an index into an array known by its name, or written in place, learns   *)
(* the length that its bounds check compares with.  `known` keeps the      *)
(* lengths and the raw pointers by name, and the depth of unsafe blocks.   *)
(* Compiler/lifetime.cpp: which parameters a function returns or lets      *)
(* escape (the summaries), and, per function, which names borrow storage   *)
(* that is about to leave scope.  Both inspect functions only.             *)
(***************************************************************************)
EXTENDS Syntax, SequencesExt

IsPointer(t) == t.kind = "pointer"

ProducesPointer(e, known) ==
  \/ e.k = "unary" /\ e.op = "&"
  \/ e.k = "cast" /\ IsPointer(e.type)
  \/ e.k = "name" /\ e.name \in known.raw

(* The raw-memory operations, which requireUnsafe admits in unsafe blocks. *)
NeedsUnsafe(e, known) ==
  \/ e.k = "index" /\ e.kids[1].k = "name" /\ e.kids[1].name \in known.raw /\ ~e.slice
  \/ e.k = "unary" /\ e.op = "*"
  \/ e.k = "cast" /\ IsPointer(e.type)
  \/ e.k = "member" /\ e.pointer

BoundOf(object, known) ==
  IF object.k = "name" THEN IF object.name \in DOMAIN known.bounds THEN known.bounds[object.name] ELSE -1
  ELSE IF object.k = "array" THEN Len(object.kids) ELSE -1

SafeNode(e, kids, known) ==
  LET node == [e EXCEPT !.kids = [i \in DOMAIN kids |-> kids[i].node]]
  IN  [ok |-> (\A i \in DOMAIN kids : kids[i].ok) /\ (NeedsUnsafe(e, known) => known.unsafe > 0),
       node |-> IF e.k = "index" THEN [node EXCEPT !.bound = BoundOf(e.kids[1], known)] ELSE node]
RECURSIVE SafeExpr(_, _)
SafeExpr(e, known) == SafeNode(e, [i \in DOMAIN e.kids |-> SafeExpr(e.kids[i], known)], known)

Forget(known, x) ==
  [known EXCEPT !.bounds = [y \in DOMAIN @ \ {x} |-> @[y]], !.raw = @ \ {x}]
Bounded(known, x, n) == [known EXCEPT !.bounds = [y \in {x} |-> n] @@ @]
RawIf(known, x, raw) == IF raw THEN [known EXCEPT !.raw = @ \cup {x}] ELSE known

AfterLet(s, known) ==
  LET fresh == Forget(known, s.name) IN
  IF s.type # NoType
    THEN RawIf(IF s.type.kind = "array" THEN Bounded(fresh, s.name, s.type.count) ELSE fresh, s.name, IsPointer(s.type))
  ELSE IF s.expr.k = "array" THEN Bounded(fresh, s.name, Len(s.expr.kids))
  ELSE RawIf(fresh, s.name, ProducesPointer(s.expr, known))

Judged(known, ok, node) == [known |-> known, ok |-> ok, node |-> node]

Join(before, after) == Judged(after.known, before.ok /\ after.ok, Append(before.node, after.node))
JudgeStmt(s, known, e, below) ==
  Judged(IF s.k = "let" THEN AfterLet(s, known) ELSE known, e.ok /\ below.ok,
         [s EXCEPT !.expr = e.node, !.body = below.node])

(* What a branch or a block learned does not outlive it; one statement of  *)
(* a block learns from those before it, a branch does not.                 *)
RECURSIVE SafeStmt(_, _)
SafeList(body, known, inOrder) ==
  FoldLeft(LAMBDA acc, s : Join(acc, SafeStmt(s, IF inOrder THEN acc.known ELSE known)), Judged(known, TRUE, <<>>), body)
SafeStmt(s, known) ==
  JudgeStmt(s, known, SafeExpr(s.expr, known),
            SafeList(s.body, IF s.k = "block" /\ s.unsafe THEN [known EXCEPT !.unsafe = @ + 1] ELSE known, s.k = "block"))

AtEntry(f) ==
  FoldLeft(LAMBDA k, p : RawIf(IF p.type.kind = "array" THEN Bounded(k, p.name, p.type.count) ELSE k, p.name, IsPointer(p.type)),
           [bounds |-> <<>>, raw |-> {}, unsafe |-> 0], f.params)

SafeProgram(program, bodies) ==
  [ok |-> \A i \in DOMAIN bodies : bodies[i].ok,
   program |-> [program EXCEPT !.functions = [i \in DOMAIN bodies |-> [@[i] EXCEPT !.body = bodies[i].node]]]]
(* check: functions only; the top-level statements are not visited.        *)
SafetyCheck(program) ==
  SafeProgram(program, [i \in DOMAIN program.functions |->
                          SafeList(program.functions[i].body, AtEntry(program.functions[i]), TRUE)])

-----------------------------------------------------------------------------
(* lifetime.cpp.                                                           *)
IsBorrow(t) == t.kind \in {"pointer", "slice"}
IsAssign(e) == e.k = "binary" /\ e.op = "="

RECURSIVE LiteralIndex(_)
LiteralIndex(e) ==
  IF e.k = "lit" /\ e.value[1] = "int" THEN <<e.value[2]>>
  ELSE IF e.k = "unary" /\ e.op = "-" /\ LiteralIndex(e.kids[1]) # <<>> THEN <<-LiteralIndex(e.kids[1])[1]>>
  ELSE <<>>

(* nullExpression: null, or null under casts.                              *)
RECURSIVE IsNullExpr(_)
IsNullExpr(e) == IsNull(e) \/ (e.k = "cast" /\ IsNullExpr(e.kids[1]))

RECURSIVE SubExprs(_)
SubExprs(e) == {e} \cup UNION {SubExprs(e.kids[i]) : i \in DOMAIN e.kids}

Put(f, x, v) == [y \in {x} |-> v] @@ f
Drop(f, xs) == [y \in DOMAIN f \ xs |-> f[y]]
FieldKey(e) == <<e.kids[1].name, e.member>>
NamesField(e) == e.k = "member" /\ e.kids[1].k = "name"

-----------------------------------------------------------------------------
(* The collector.  Origins are parameter indices, and -1 for local storage. *)
ParamIndex(f, x) == SelectLastInSeq(f.params, LAMBDA p : p.name = x)

RECURSIVE SourceOrigins(_, _)
SourceOrigins(e, f) ==
  CASE e.k = "none" -> {}
    [] e.k = "name" -> IF ParamIndex(f, e.name) > 0 THEN {ParamIndex(f, e.name)} ELSE {-1}
    [] e.k \in {"index", "member", "unary"} -> SourceOrigins(e.kids[1], f)
    [] OTHER -> {-1}

Either(a, b, none) == IF a = none THEN b ELSE a

RECURSIVE BorrowOrigins(_, _, _, _)
ArgOrigins(e, f, seen, known, chosen) ==
  UNION {Either(BorrowOrigins(e.kids[i], f, seen, known), SourceOrigins(e.kids[i], f), {})
         : i \in chosen \cap DOMAIN e.kids}
BorrowOrigins(e, f, seen, known) ==
  CASE e.k = "name" -> IF e.name \in DOMAIN seen.aliases THEN seen.aliases[e.name] ELSE {}
    [] e.k = "unary" /\ e.op = "&" -> SourceOrigins(e.kids[1], f)
    [] e.k = "cast" -> BorrowOrigins(e.kids[1], f, seen, known)
    [] NamesField(e) -> IF FieldKey(e) \in DOMAIN seen.fields THEN seen.fields[FieldKey(e)] ELSE {}
    [] e.k = "call" /\ e.callee = "slice" -> SourceOrigins(e.kids[1], f)
    [] e.k = "call" /\ e.callee \in DOMAIN known -> ArgOrigins(e, f, seen, known, known[e.callee].returns)
    [] OTHER -> {}

Params(origins) == {o \in origins : o > 0}
ObserveCalls(e, f, seen, known) ==
  [seen EXCEPT !.escapes = @ \cup UNION {Params(ArgOrigins(c, f, seen, known, known[c.callee].escapes))
     : c \in {c \in SubExprs(e) : c.k = "call" /\ c.callee \in DOMAIN known}}]

Alias(seen, x, origins) ==
  [seen EXCEPT !.aliases = IF origins = {} THEN Drop(@, {x}) ELSE Put(@, x, origins)]
CollectAssign(target, origins, seen) ==
  CASE target.k = "name" -> Alias(seen, target.name, origins)
    [] NamesField(target) ->
         [seen EXCEPT !.fields = IF origins = {} THEN Drop(@, {FieldKey(target)}) ELSE Put(@, FieldKey(target), origins),
                      !.escapes = @ \cup Params(origins)]
    [] target.k = "index" -> [seen EXCEPT !.escapes = @ \cup Params(origins)]
    [] OTHER -> seen

CollectValue(target, value, f, seen, known) == CollectAssign(target, BorrowOrigins(value, f, seen, known), seen)

ReturnOrigins(e, f, seen, known) ==
  BorrowOrigins(e, f, seen, known) \cup
  (IF e.k = "name" THEN UNION {seen.fields[key] : key \in {key \in DOMAIN seen.fields : key[1] = e.name}} ELSE {})

CollectLet(s, f, seen, known) == Alias(seen, s.name, BorrowOrigins(s.expr, f, seen, known))
CollectReturn(e, f, seen, known) ==
  [seen EXCEPT !.returns = @ \cup Params(ReturnOrigins(e, f, seen, known))]

RECURSIVE Collect(_, _, _, _)
CollectList(body, f, seen, known) == FoldLeft(LAMBDA acc, s : Collect(s, f, acc, known), seen, body)
Collect(s, f, seen, known) ==
  CASE s.k = "let" -> CollectLet(s, f, ObserveCalls(s.expr, f, seen, known), known)
    [] s.k = "expr" -> IF IsAssign(s.expr)
                         THEN CollectValue(s.expr.kids[1], s.expr.kids[2], f,
                                           ObserveCalls(s.expr.kids[2], f, seen, known), known)
                         ELSE ObserveCalls(s.expr, f, seen, known)
    [] s.k = "return" -> CollectReturn(s.expr, f, ObserveCalls(s.expr, f, seen, known), known)
    [] OTHER -> CollectList(s.body, f, ObserveCalls(s.expr, f, seen, known), known)

Summary(seen) == [returns |-> seen.returns, escapes |-> seen.escapes]
Summarise(f, known) ==
  LET borrowed == {i \in DOMAIN f.params : IsBorrow(f.params[i].type)}
      seen == CollectList(f.body, f,
                [aliases |-> [x \in {f.params[i].name : i \in borrowed} |-> {ParamIndex(f, x)}],
                 fields |-> <<>>, returns |-> {}, escapes |-> {}], known)
  IN  Summary(seen)

(* buildSummaries: at most 2n + 4 passes over the functions, in order, each *)
(* reading what the earlier ones of the pass have already found.  The code *)
(* stops after a pass that found nothing new; the others then find nothing *)
(* either.                                                                 *)
Summaries(fs) ==
  LET none == [f \in {fs[i].name : i \in DOMAIN fs} |-> [returns |-> {}, escapes |-> {}]]
      pass(known) == FoldLeft(LAMBDA acc, f : [acc EXCEPT ![f.name] = Summarise(f, acc)], known, fs)
  IN  FoldLeft(LAMBDA known, n : pass(known), none, [n \in 1..(2 * Len(fs) + 4) |-> n])

-----------------------------------------------------------------------------
(* The inspector.  A borrow is <<>> (none) or <<[depth, param]>>: the depth *)
(* of the scope that owns the storage, and whether a parameter named it.   *)
Borrow(depth, param) == <<[depth |-> depth, param |-> param]>>
Fresh == [depth |-> <<>>, sizes |-> <<>>, params |-> {}, borrowed |-> <<>>, fields |-> <<>>,
          dangling |-> {}, danglingFields |-> {}]

RECURSIVE SourceOf(_, _)
SourceOf(e, st) ==
  CASE e.k = "name" -> IF e.name \in DOMAIN st.depth THEN Borrow(st.depth[e.name], e.name \in st.params) ELSE <<>>
    [] e.k \in {"index", "member", "unary"} -> SourceOf(e.kids[1], st)
    [] OTHER -> <<>>

RECURSIVE BorrowOf(_, _, _)
ArgBorrow(arg, st, known) == Either(BorrowOf(arg, st, known), SourceOf(arg, st), <<>>)
AddressBorrowLent(e, st) == SourceOf(e, st)

AddressBorrow(e, st) ==
  IF e.k = "name" /\ e.name \in st.params /\ SourceOf(e, st) # <<>>
    THEN Borrow(SourceOf(e, st)[1].depth, FALSE) ELSE SourceOf(e, st)

FirstBorrow(borrows) ==
  LET found == {i \in DOMAIN borrows : borrows[i] # <<>>} IN IF found = {} THEN <<>> ELSE borrows[Min(found)]
BorrowOf(e, st, known) ==
  CASE e.k = "name" -> IF e.name \in DOMAIN st.borrowed THEN st.borrowed[e.name] ELSE <<>>
    [] e.k = "unary" /\ e.op = "&" -> AddressBorrow(e.kids[1], st)
    [] e.k = "call" /\ e.callee = "slice" -> SourceOf(e.kids[1], st)
    [] e.k = "call" /\ e.callee \in DOMAIN known ->
         FirstBorrow([i \in known[e.callee].returns \cap DOMAIN e.kids |-> ArgBorrow(e.kids[i], st, known)])
    [] NamesField(e) -> IF FieldKey(e) \in DOMAIN st.fields THEN st.fields[FieldKey(e)] ELSE <<>>
    [] e.k = "cast" -> BorrowOf(e.kids[1], st, known)
    [] OTHER -> <<>>

(* checkIndex: a literal index outside an array of known length.           *)
LengthOf(object, st) ==
  IF object.k = "name" THEN IF object.name \in DOMAIN st.sizes THEN <<st.sizes[object.name]>> ELSE <<>>
  ELSE IF object.k = "array" THEN <<Len(object.kids)>> ELSE <<>>
IndexOk(e, st) ==
  LET n == LiteralIndex(e.kids[2]) IN
  n # <<>> /\ LengthOf(e.kids[1], st) # <<>> => n[1] \in 0..(LengthOf(e.kids[1], st)[1] - 1)

(* A borrow, if any, is of storage that a parameter named.                 *)
Lent(b) == b # <<>> => b[1].param
CallOk(e, st, known) ==
  e.callee \in DOMAIN known =>
    \A i \in known[e.callee].escapes \cap DOMAIN e.kids :
      Lent(ArgBorrow(e.kids[i], st, known))

NodeOk(e, st, known) ==
  CASE e.k = "name" -> e.name \notin st.dangling
    [] e.k = "unary" -> ~(e.op = "*" /\ IsNullExpr(e.kids[1]))
    [] e.k = "index" -> ~IsNullExpr(e.kids[1]) /\ IndexOk(e, st)
    [] NamesField(e) -> FieldKey(e) \notin st.danglingFields
    [] e.k = "call" -> CallOk(e, st, known)
    [] OTHER -> TRUE
ExprOk(e, st, known) == \A x \in SubExprs(e) : NodeOk(x, st, known)

AssignBorrow(st, x, b) ==
  [st EXCEPT !.dangling = @ \ {x}, !.borrowed = IF b = <<>> THEN Drop(@, {x}) ELSE Put(@, x, b)]
AssignField(st, key, b) ==
      [st EXCEPT !.danglingFields = @ \ {key}, !.fields = IF b = <<>> THEN Drop(@, {key}) ELSE Put(@, key, b)]

(* expireScope: what outer names borrow from the scope dangles; the names  *)
(* of the scope are forgotten.                                             *)
ExpireScope(st, depth) ==
  LET locals == {x \in DOMAIN st.depth : st.depth[x] = depth}
      outlives(x) == x \in DOMAIN st.depth /\ st.depth[x] < depth
      dies(b) == ~b[1].param /\ b[1].depth >= depth
      gone == {key \in DOMAIN st.fields : key[1] \in locals}
  IN  [depth |-> Drop(st.depth, locals), sizes |-> Drop(st.sizes, locals), params |-> st.params \ locals,
       borrowed |-> Drop(st.borrowed, locals), fields |-> Drop(st.fields, gone),
       dangling |-> (st.dangling \cup {x \in DOMAIN st.borrowed : dies(st.borrowed[x]) /\ outlives(x)}) \ locals,
       danglingFields |-> (st.danglingFields \cup
          {key \in DOMAIN st.fields : dies(st.fields[key]) /\ outlives(key[1])}) \ gone]

Seen(st, ok) == [st |-> st, ok |-> ok]

InspectLet(s, st, depth, known) ==
  LET placed == [st EXCEPT !.depth = Put(@, s.name, depth)]
      sized == IF s.type # NoType /\ s.type.kind = "array" THEN [placed EXCEPT !.sizes = Put(@, s.name, s.type.count)]
               ELSE IF s.expr.k = "array" THEN [placed EXCEPT !.sizes = Put(@, s.name, Len(s.expr.kids))]
               ELSE placed
  IN  Seen(AssignBorrow(sized, s.name, BorrowOf(s.expr, sized, known)), ExprOk(s.expr, st, known))

InspectExpr(e, st, known) ==
  IF IsAssign(e) /\ e.kids[1].k = "name"
    THEN Seen(AssignBorrow(st, e.kids[1].name, BorrowOf(e.kids[2], st, known)), ExprOk(e.kids[2], st, known))
  ELSE IF IsAssign(e) /\ e.kids[1].k = "member"
    THEN Seen(IF NamesField(e.kids[1]) THEN AssignField(st, FieldKey(e.kids[1]), BorrowOf(e.kids[2], st, known)) ELSE st,
              ExprOk(e.kids[2], st, known) /\ ExprOk(e.kids[1].kids[1], st, known))
  ELSE Seen(st, ExprOk(e, st, known))

(* checkReturn: only a function whose result type borrows is concerned.    *)
ReturnOk(e, st, known, borrows) ==
  /\ ExprOk(e, st, known)
  /\ borrows =>
       /\ Lent(BorrowOf(e, st, known))
       /\ e.k = "name" => \A key \in DOMAIN st.fields : key[1] = e.name => st.fields[key][1].param

Also(before, after) == Seen(after.st, before.ok /\ after.ok)
Ended(after, depth) == Seen(ExpireScope(after.st, depth), after.ok)

RECURSIVE Inspect(_, _, _, _, _)
InspectList(body, st, depth, known, borrows) ==
  FoldLeft(LAMBDA acc, s : Also(acc, Inspect(s, acc.st, depth, known, borrows)), Seen(st, TRUE), body)
(* Each branch has a scope of its own and goes on from the one before it.  *)
InspectBranches(s, st, depth, known, borrows) ==
  FoldLeft(LAMBDA acc, b : Also(acc, Ended(Inspect(b, acc.st, depth + 1, known, borrows), depth + 1)),
           Seen(st, ExprOk(s.expr, st, known)), s.body)
Inspect(s, st, depth, known, borrows) ==
  CASE s.k = "let" -> InspectLet(s, st, depth, known)
    [] s.k = "expr" -> InspectExpr(s.expr, st, known)
    [] s.k = "return" -> Seen(st, ReturnOk(s.expr, st, known, borrows))
    [] s.k = "throw" -> Seen(st, ExprOk(s.expr, st, known))
    [] s.k = "block" -> Ended(InspectList(s.body, st, depth + 1, known, borrows), depth + 1)
    [] s.k \in {"if", "while"} -> InspectBranches(s, st, depth, known, borrows)
    [] s.k = "nothing" -> Seen(st, TRUE)

Parameter(st, p) ==
  [st EXCEPT !.depth = Put(@, p.name, 0), !.params = @ \cup {p.name},
             !.sizes = IF p.type.kind = "array" THEN Put(@, p.name, p.type.count) ELSE @,
             !.borrowed = IF IsBorrow(p.type) THEN Put(@, p.name, Borrow(0, TRUE)) ELSE @]

BorrowCheck(program) ==
  LET known == Summaries(program.functions)
      ok(f) == InspectList(f.body, FoldLeft(Parameter, Fresh, f.params), 0, known, IsBorrow(f.result)).ok
  IN  \A i \in DOMAIN program.functions : ok(program.functions[i])
=============================================================================
