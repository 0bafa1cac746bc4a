------------------------------ MODULE Lowering ------------------------------
(***************************************************************************)
(* Compiler/nir.cpp: syntax trees to NIR (Include/noqeri/nir.hpp).  Code   *)
(* positions count from 0: the instruction at pc is code[pc + 1].  A       *)
(* lowering returns the function so far; `reg` is the register that holds  *)
(* the value of the expression lowered last.                               *)
(***************************************************************************)
EXTENDS Syntax, SequencesExt

NoReg == -1
Ins(op, args) ==
  [op |-> op, dest |-> NoReg, args |-> args, text |-> "", lit |-> Null, target |-> 0, width |-> 1]
Const(v) == [Ins("Const", <<>>) EXCEPT !.lit = v]
Named(op, x, args) == [Ins(op, args) EXCEPT !.text = x]

NewFunction(name, params) ==
  [name |-> name, params |-> params, code |-> <<>>, next |-> 0, reg |-> NoReg]
Size(fn) == Len(fn.code)

Emit(fn, ins) == [fn EXCEPT !.code = Append(@, ins)]
EmitTo(fn, ins) ==
  [fn EXCEPT !.code = Append(@, [ins EXCEPT !.dest = fn.next]), !.next = @ + 1, !.reg = fn.next]
(* A jump emitted at pc goes to the end of the code there is now.          *)
Patch(fn, pc) == [fn EXCEPT !.code[pc + 1].target = Len(fn.code)]

RECURSIVE LowerExpr(_, _)
RECURSIVE LowerAddress(_, _)

(* Expressions one after the other, and the registers they end up in.      *)
AndReg(done, fn) == [fn |-> fn, regs |-> Append(done.regs, fn.reg)]
LowerArgs(fn, es) ==
  FoldLeft(LAMBDA done, e : AndReg(done, LowerExpr(done.fn, e)), [fn |-> fn, regs |-> <<>>], es)
OfArgs(args, ins) == EmitTo(args.fn, [ins EXCEPT !.args = args.regs])

CheckedNonNull(fn) == Emit(fn, Ins("CheckNonNull", <<fn.reg>>))
OfReg(fn, ins) == EmitTo(fn, [ins EXCEPT !.args = <<fn.reg>>])
Loaded(fn) == OfReg(fn, Ins("LoadMemory", <<>>))

(* An index leaves the base in a slice's data or an array's address, after *)
(* the checks its kind calls for.                                          *)
ElementOf(args, e) ==
  LET object == args.regs[1]
      index == args.regs[2]
      bounded(f) == Emit(f, Ins("CheckBounds", <<index, f.reg>>))
      offset(f, b) == EmitTo(f, [Ins("PtrOffset", <<b, index>>) EXCEPT !.width = e.size])
      nonNull == Emit(args.fn, Ins("CheckNonNull", <<object>>))
      data == EmitTo(bounded(EmitTo(nonNull, Ins("SliceLen", <<object>>))), Ins("SliceData", <<object>>))
  IN  IF e.slice THEN offset(CheckedNonNull(data), data.reg)
      ELSE IF e.bound # -1 THEN offset(bounded(EmitTo(args.fn, Const(IntV(e.bound)))), object)
      ELSE offset(nonNull, object)

FieldAt(base, e) == OfReg(base, [Ins("PtrOffset", <<>>) EXCEPT !.target = e.offset])

LowerAddress(fn, e) ==
  CASE e.k = "name" -> EmitTo(fn, Named("AddressOf", e.name, <<>>))
    [] e.k = "unary" /\ e.op = "*" -> CheckedNonNull(LowerExpr(fn, e.kids[1]))
    [] e.k = "index" -> ElementOf(LowerArgs(fn, e.kids), e)
    [] e.k = "member" -> FieldAt(IF e.pointer THEN CheckedNonNull(LowerExpr(fn, e.kids[1]))
                                 ELSE LowerAddress(fn, e.kids[1]), e)
    [] OTHER -> EmitTo(fn, Const(IntV(0)))

-----------------------------------------------------------------------------
StoredThrough(address, r) == [Emit(address, Ins("StoreMemory", <<address.reg, r>>)) EXCEPT !.reg = r]

InArray(value, array, offset) ==
  StoredThrough(EmitTo(value, [Ins("PtrOffset", <<array>>) EXCEPT !.target = offset]), value.reg)
LowerArray(fn, e) ==
  LET alloc == EmitTo(fn, [Ins("StackAlloc", <<>>) EXCEPT !.width = Max({1, e.size * Len(e.kids)})]) IN
  [FoldLeft(LAMBDA f, i : InArray(LowerExpr(f, e.kids[i]), fn.next, (i - 1) * e.size),
            alloc, [i \in DOMAIN e.kids |-> i]) EXCEPT !.reg = fn.next]

UnaryOf1(a, op) ==
  CASE op = "*" -> Loaded(CheckedNonNull(a))
    [] op = "try" -> OfReg(a, Ins("Try", <<>>))
    [] OTHER -> OfReg(a, Named("Unary", op, <<>>))

AssignTo(left, value) ==
  IF left.k = "name" THEN Emit(value, Named("Store", left.name, <<value.reg>>))
  ELSE StoredThrough(LowerAddress(value, left), value.reg)

(* && and || go through a variable of their own, named by the place.       *)
LogicTemp(left) == "$noqeri.logic." \o ToString(Size(left)) \o "." \o ToString(left.next)
Saved(fn, temp) == Emit(fn, Named("Store", temp, <<fn.reg>>))
FromRight(right, temp, jump) == EmitTo(Patch(Saved(right, temp), jump), Named("Load", temp, <<>>))
FromLeft(left, e) ==
  LET test == Emit(Saved(left, LogicTemp(left)), Ins("JumpIfFalse", <<left.reg>>))
      at == Size(left) + 1
  IN  IF e.op = "&&" THEN FromRight(LowerExpr(test, e.kids[2]), LogicTemp(left), at)
      ELSE FromRight(LowerExpr(Patch(Emit(test, Ins("Jump", <<>>)), at), e.kids[2]), LogicTemp(left), at + 1)

SliceOfArgs(args, e) ==
  LET length == IF Len(e.kids) = 2 THEN args.fn ELSE EmitTo(args.fn, Const(IntV(e.count)))
  IN  EmitTo(length, Ins("MakeSlice", <<args.regs[1], length.reg>>))

LowerLen(fn, e) ==
  IF e.count # 0 THEN EmitTo(fn, Const(IntV(e.count)))
  ELSE OfReg(CheckedNonNull(LowerExpr(fn, e.kids[1])), Ins("SliceLen", <<>>))

(* A call, and every atomic that has a result, numbers its result before   *)
(* it lowers its arguments.                                                *)
Resulting(args, ins, r) == [Emit(args.fn, [ins EXCEPT !.dest = r, !.args = args.regs]) EXCEPT !.reg = r]
WithResult(fn, ins, es) == Resulting(LowerArgs([fn EXCEPT !.next = @ + 1], es), ins, fn.next)
ThenNull(args, ins) == EmitTo(Emit(args.fn, [ins EXCEPT !.args = args.regs]), Const(Null))
WithoutResult(fn, ins, es) == ThenNull(LowerArgs(fn, es), ins)

AtomicOp(callee) ==
  CASE callee = "atomicLoad" -> "AtomicLoad" [] callee = "atomicExchange" -> "AtomicExchange"
    [] callee = "atomicCompareExchange" -> "AtomicCompareExchange"
    [] callee = "atomicStore" -> "AtomicStore" [] callee = "atomicFence" -> "AtomicFence"

LowerCall(fn, e) ==
  CASE e.callee = "len" -> LowerLen(fn, e)
    [] e.callee = "slice" -> SliceOfArgs(LowerArgs(fn, e.kids), e)
    [] e.callee \in {"atomicStore", "atomicFence"} -> WithoutResult(fn, Ins(AtomicOp(e.callee), <<>>), e.kids)
    [] e.callee \in {"atomicLoad", "atomicExchange", "atomicCompareExchange"} ->
         WithResult(fn, Ins(AtomicOp(e.callee), <<>>), e.kids)
    [] OTHER -> WithResult(fn, Named("Call", e.callee, <<>>), e.kids)

LowerBinary(fn, e) ==
  CASE e.op = "=" -> AssignTo(e.kids[1], LowerExpr(fn, e.kids[2]))
    [] e.op \in {"&&", "||"} -> FromLeft(LowerExpr(fn, e.kids[1]), e)
    [] OTHER -> OfArgs(LowerArgs(fn, e.kids), Named("Binary", e.op, <<>>))

LowerExpr(fn, e) ==
  CASE e.k = "lit" -> EmitTo(fn, Const(e.value))
    [] e.k = "array" -> LowerArray(fn, e)
    [] e.k = "name" -> EmitTo(fn, Named("Load", e.name, <<>>))
    [] e.k = "unary" -> IF e.op = "&" THEN LowerAddress(fn, e.kids[1]) ELSE UnaryOf1(LowerExpr(fn, e.kids[1]), e.op)
    [] e.k \in {"member", "index"} -> Loaded(LowerAddress(fn, e))
    [] e.k = "cast" -> OfReg(LowerExpr(fn, e.kids[1]), Named("Cast", e.type.kind, <<>>))
    [] e.k = "binary" -> LowerBinary(fn, e)
    [] e.k = "call" -> LowerCall(fn, e)
    [] OTHER -> EmitTo(fn, Const(Null))

-----------------------------------------------------------------------------
(* Statements.  c is the code so far with the condition, or the value.     *)
RECURSIVE LowerStmt(_, _)
LowerBody(fn, body) == FoldLeft(LowerStmt, fn, body)

Tested(c) == Emit(c, Ins("JumpIfFalse", <<c.reg>>))
LowerElse(c, then, s) ==
  IF s.body[2] = NoStmt THEN Patch(then, Size(c))
  ELSE Patch(LowerStmt(Patch(Emit(then, Ins("Jump", <<>>)), Size(c)), s.body[2]), Size(then))
LoopBack(c, body, start) == Patch(Emit(body, [Ins("Jump", <<>>) EXCEPT !.target = start]), Size(c))

LowerWith(c, s, start) ==
  CASE s.k = "let" -> Emit(c, Named("Store", s.name, <<c.reg>>))
    [] s.k = "return" -> Emit(c, Ins("Return", <<c.reg>>))
    [] s.k = "throw" -> Emit(c, Ins("Throw", <<c.reg>>))
    [] s.k = "if" -> LowerElse(c, LowerStmt(Tested(c), s.body[1]), s)
    [] s.k = "while" -> LoopBack(c, LowerStmt(Tested(c), s.body[1]), start)
    [] OTHER -> c

LowerStmt(fn, s) ==
  CASE s.k \in {"block", "nothing"} -> LowerBody(fn, s.body)
    [] s.k = "return" /\ s.expr = NoExpr -> Emit(fn, Ins("Return", <<>>))
    [] OTHER -> LowerWith(LowerExpr(fn, s.expr), s, Size(fn))

Closed(body) ==
  IF body.code # <<>> /\ Last(body.code).op = "Return" THEN body ELSE Emit(body, Ins("Return", <<>>))
LowerFunction(f) ==
  Closed(LowerBody(NewFunction(f.name, [i \in DOMAIN f.params |-> f.params[i].name]), f.body))

Entry == "__entry"
(* lower: a map from function names to code; the entry holds the           *)
(* statements outside functions.                                           *)
Lower(program) ==
  LET fs == program.functions
      names == {fs[i].name : i \in DOMAIN fs}
      lowered(f) == LowerFunction(fs[SelectInSeq(fs, LAMBDA g : g.name = f)])
      entry == Emit(LowerBody(NewFunction(Entry, <<>>), program.statements), Ins("Return", <<>>))
  IN  [f \in names \cup {Entry} |-> IF f = Entry THEN entry ELSE lowered(f)]
=============================================================================
