----------------------------- MODULE NirPasses ------------------------------
(***************************************************************************)
(* The passes over NIR: Compiler/optimizer.cpp, constant folding and dead  *)
(* code elimination over the code of one function, repeated as the level   *)
(* asks; then Compiler/nir_analysis.cpp, the basic blocks of a function    *)
(* with their successors, and the kinds of its registers.                  *)
(***************************************************************************)
EXTENDS Lowering

FoldedFlooring(op, a, b) ==
  IF ~BothInt(a, b) THEN <<>>
  ELSE IF op = "/" /\ b[2] # 0 THEN <<IntV(Wrapped(a[2] \div b[2]))>>
  ELSE Arithmetic(op, a[2], b[2])

(* fold: <<value>>, or <<>> when the operation stays.                      *)
Folded(op, a, b) == IF BothInt(a, b) THEN Arithmetic(op, a[2], b[2]) ELSE <<>>

HasEffect(i) ==
  i.op \in {"CheckNonNull", "CheckBounds", "Store", "StoreMemory", "Call", "AtomicLoad", "AtomicStore",
            "AtomicExchange", "AtomicCompareExchange", "AtomicFence", "Try", "Throw", "Jump", "JumpIfFalse", "Return"}

-----------------------------------------------------------------------------
(* constants: one pass in code order with the registers known so far; a    *)
(* check that is known to hold becomes a Nop.                              *)
Known(known, i) == \A a \in DOMAIN i.args : i.args[a] \in DOMAIN known
Forgets(known, i) == [r \in DOMAIN known \ {i.dest} |-> known[r]]
Learns(known, r, v) == [q \in {r} |-> v] @@ known

PassesCheck(i, known) ==
  LET arg(a) == known[i.args[a]] IN
  /\ i.op \in {"CheckNonNull", "CheckBounds"} /\ Known(known, i)
  /\ i.op = "CheckNonNull" => arg(1)[1] = "int" /\ arg(1)[2] # 0
  /\ i.op = "CheckBounds" => BothInt(arg(1), arg(2)) /\ arg(1)[2] >= 0 /\ arg(1)[2] < arg(2)[2]

FoldsTo(i, known) ==
  IF i.op = "Binary" /\ Known(known, i) THEN Folded(i.text, known[i.args[1]], known[i.args[2]]) ELSE <<>>

ConstantStep(acc, i) ==
  LET value == FoldsTo(i, acc.known) IN
  IF i.op = "Const"
    THEN [acc EXCEPT !.code = Append(@, i), !.known = Learns(@, i.dest, i.lit)]
  ELSE IF value # <<>>
    THEN [code |-> Append(acc.code, [Const(value[1]) EXCEPT !.dest = i.dest]),
          known |-> Learns(acc.known, i.dest, value[1]), changed |-> TRUE]
  ELSE IF PassesCheck(i, acc.known)
    THEN [acc EXCEPT !.code = Append(@, [i EXCEPT !.op = "Nop", !.args = <<>>]), !.changed = TRUE]
  ELSE [acc EXCEPT !.code = Append(@, i), !.known = Forgets(@, i)]

Constants(code) == FoldLeft(ConstantStep, [code |-> <<>>, known |-> <<>>, changed |-> FALSE], code)

(* dce: Nops and results that nothing reads leave the code; the targets of *)
(* the jumps stay as they are.                                             *)
UsedRegs(code) == UNION {ToSet(code[p].args) : p \in DOMAIN code}
Dead(i, used) == i.op = "Nop" \/ (i.dest # NoReg /\ i.dest \notin used /\ ~HasEffect(i))
DeadCode(code) ==
  LET kept == SelectSeq(code, LAMBDA i : ~Dead(i, UsedRegs(code)))
  IN  [code |-> kept, changed |-> Len(kept) # Len(code)]

Rounds(level) == CASE level = "O3" -> 3 [] level = "O2" -> 2 [] OTHER -> 1

RECURSIVE RunRounds(_, _)
RunRounds(n, code) ==
  IF n = 0 THEN code
  ELSE LET folded == Constants(code)
           swept == DeadCode(folded.code)
       IN  IF folded.changed \/ swept.changed THEN RunRounds(n - 1, swept.code) ELSE swept.code

Pipeline(code, level) ==
  IF level = "O0" THEN code
  ELSE LET code1 == RunRounds(Rounds(level), code)
       IN  IF level = "Oz" THEN DeadCode(code1).code ELSE code1

Optimize(nir, level) == [f \in DOMAIN nir |-> [nir[f] EXCEPT !.code = Pipeline(@, level)]]

-----------------------------------------------------------------------------
(* nir_analysis.cpp.                                                       *)
Jumps == {"Jump", "JumpIfFalse"}
Leavers == {"Return", "Throw"}
InsAt(code, pc) == code[pc + 1]

Leaders(code) ==
  {0} \cup {p \in 1..(Len(code) - 1) :
              \/ InsAt(code, p - 1).op \in Jumps \cup Leavers
              \/ \E q \in DOMAIN code : code[q].op \in Jumps /\ code[q].target = p}

BlockEnd(code, b) ==
  LET later == {p \in Leaders(code) : p > b} IN IF later = {} THEN Len(code) ELSE Min(later)

(* Blocks are named by where they begin; a target past the end of the code *)
(* is in no block.                                                         *)
BlockAt(code, pc) == IF pc < Len(code) THEN {Max({b \in Leaders(code) : b <= pc})} ELSE {}

SuccessorsTaken(code, b) ==
  LET last == InsAt(code, BlockEnd(code, b) - 1)
      next == BlockAt(code, BlockEnd(code, b))
  IN  CASE last.op \in Jumps -> BlockAt(code, last.target)
        [] last.op \in Leavers -> {}
        [] OTHER -> next

Successors(code, b) ==
  LET last == InsAt(code, BlockEnd(code, b) - 1)
      next == BlockAt(code, BlockEnd(code, b))
  IN  CASE last.op = "Jump" -> BlockAt(code, last.target)
        [] last.op = "JumpIfFalse" -> BlockAt(code, last.target) \cup next
        [] last.op \in Leavers -> {}
        [] OTHER -> next

Blocks(code) ==
  IF code = <<>> THEN <<>>
  ELSE [b \in Leaders(code) |-> [end |-> BlockEnd(code, b), successors |-> Successors(code, b)]]

-----------------------------------------------------------------------------
(* analyze: one pass in code order; a register that nothing tells about is *)
(* "unknown".  `returns` gives the result type of each function.           *)
ComparisonsStrict == {"==", "!=", "<", ">", "&&", "||"}

Comparisons == {"==", "!=", "<", "<=", ">", ">=", "&&", "||"}

TypeUnknown == Simple("unknown")
At(f, x) == IF x \in DOMAIN f THEN f[x] ELSE TypeUnknown
Pointee(t) == IF t.kind = "pointer" THEN t.of ELSE TypeUnknown

InferredType(i, acc, returns) ==
  LET arg == IF i.args = <<>> THEN TypeUnknown ELSE At(acc.regs, i.args[1]) IN
  CASE i.op = "Const" -> Simple(i.lit[1])
    [] i.op = "Load" -> At(acc.vars, i.text)
    [] i.op = "Unary" -> IF i.text = "!" THEN Simple("bool") ELSE arg
    [] i.op = "Binary" -> IF i.text \in Comparisons THEN Simple("bool") ELSE arg
    [] i.op = "Cast" -> IF i.text = "pointer" THEN PointerTo(TypeUnknown) ELSE Simple(i.text)
    [] i.op = "Call" -> IF i.text = "print" THEN Simple("void") ELSE At(returns, i.text)
    [] i.op = "AddressOf" -> PointerTo(At(acc.vars, i.text))
    [] i.op \in {"LoadMemory", "AtomicLoad", "AtomicExchange", "AtomicCompareExchange"} -> Pointee(arg)
    [] i.op \in {"PtrOffset", "Try"} -> arg
    [] i.op = "StackAlloc" -> PointerTo(Simple("u8"))
    [] i.op = "MakeSlice" -> SliceOf(Pointee(arg))
    [] i.op = "SliceData" -> IF arg.kind = "slice" THEN PointerTo(arg.of) ELSE PointerTo(TypeUnknown)
    [] i.op = "SliceLen" -> Simple("usize")
    [] OTHER -> Simple("void")

AnalyzeStep(acc, i, returns) ==
  LET t == InferredType(i, acc, returns) IN
  [regs |-> IF i.dest # NoReg THEN [r \in {i.dest} |-> t] @@ acc.regs ELSE acc.regs,
   vars |-> IF i.op = "Store" THEN [x \in {i.text} |-> At(acc.regs, i.args[1])] @@ acc.vars ELSE acc.vars]

RegisterTypes(fn, paramTypes, returns) ==
  FoldLeft(LAMBDA acc, i : AnalyzeStep(acc, i, returns),
           [regs |-> <<>>, vars |-> [x \in ToSet(fn.params) |-> paramTypes[x]]], fn.code).regs

(* What analyze records with each function.                                *)
Analyze(nir, functions) ==
  LET declared(f) == SelectInSeq(functions, LAMBDA g : g.name = f)
      returns == [f \in DOMAIN nir \ {Entry} |-> functions[declared(f)].result]
      typeOf(f, x) == LET ps == functions[declared(f)].params IN ps[SelectInSeq(ps, LAMBDA p : p.name = x)].type
      types(f) == RegisterTypes(nir[f], [x \in ToSet(nir[f].params) |-> typeOf(f, x)], returns)
  IN  [f \in DOMAIN nir |->
         [name |-> f, params |-> nir[f].params, code |-> nir[f].code, next |-> nir[f].next,
          types |-> types(f), blocks |-> Blocks(nir[f].code)]]
=============================================================================
