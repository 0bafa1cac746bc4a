--------------------------- MODULE NativeBackend ---------------------------
(***************************************************************************)
(* Compiler/native_backend.cpp: what the assembly of emitFunction does.    *)
(* Registers and variables of a function are words below its base (rbp);   *)
(* everything is a plain word, and only the guessed kind of a register     *)
(* tells how print shows it.  `edge` is rsp: words below it are nobody's,  *)
(* and a slot that was never written holds garbage (it is not in memory).  *)
(* The checks of NIR emit nothing.                                         *)
(***************************************************************************)
EXTENDS Interpreter

CONSTANT StackTop

Even(n) == n + (n % 2)       \* align16, in words
LiteralWord(v) == CASE v[1] = "int" -> v[2] [] v[1] = "bool" -> (IF v[2] THEN 1 ELSE 0) [] OTHER -> 0

(* layoutFor: the variables in order of appearance, parameters first, and  *)
(* the kinds of the registers after one pass over the code.                *)
Variables(fn) ==
  LET named == SelectSeq(fn.code, LAMBDA i : i.op \in {"Load", "Store", "AddressOf"}) IN
  FoldLeft(LAMBDA xs, x : IF x \in ToSet(xs) THEN xs ELSE Append(xs, x),
           fn.params, [k \in DOMAIN named |-> named[k].text])

Guess(f, x) == IF x \in DOMAIN f THEN f[x] ELSE "unknown"
KindOf(i, acc, returns) ==
  CASE i.op = "Const" -> i.lit[1]
    [] i.op = "Load" -> Guess(acc.vars, i.text)
    [] i.op = "Unary" -> IF i.text = "!" THEN "bool" ELSE Guess(acc.regs, i.args[1])
    [] i.op = "Binary" -> IF i.text \in {"==", "!=", "<", "<=", ">", ">=", "&&", "||"} THEN "bool" ELSE "int"
    [] i.op = "Call" -> IF i.text = "print" THEN "null" ELSE Guess(returns, i.text)
    [] OTHER -> "int"
KindStep(acc, i, returns) ==
  IF i.op = "Store" THEN [acc EXCEPT !.vars = [x \in {i.text} |-> Guess(acc.regs, i.args[1])] @@ @]
  ELSE IF i.dest = NoReg THEN acc
  ELSE [acc EXCEPT !.regs = [r \in {i.dest} |-> KindOf(i, acc, returns)] @@ @]
Kinds(fn, returns) ==
  FoldLeft(LAMBDA acc, i : KindStep(acc, i, returns), [regs |-> <<>>, vars |-> <<>>], fn.code).regs

(* inferReturn, and the three passes over the functions in order.          *)
ReturnKind(fn, returns) ==
  LET kinds == Kinds(fn, returns)
      given == SelectSeq(fn.code, LAMBDA i : i.op = "Return" /\ i.args # <<>>)
      joined(k, i) == LET this == Guess(kinds, i.args[1]) IN
                      IF k \in {"null", "unknown"} THEN this ELSE IF this \in {"unknown", k} THEN k ELSE "unknown"
  IN  FoldLeft(joined, "null", given)
Returns(code, order) ==
  FoldLeft(LAMBDA known, f : [x \in {f} |-> ReturnKind(code[f], known)] @@ known, <<>>, order \o order \o order)

(* emitAssembly, as the frame layout of each function.                     *)
Emitted(code, order) ==
  LET returns == Returns(code, order) IN
  [f \in DOMAIN code |-> [name |-> f, code |-> code[f].code, params |-> code[f].params, next |-> code[f].next,
                          vars |-> Variables(code[f]), kinds |-> Kinds(code[f], returns)]]
(* Labels stand before instructions only: a jump to the end has none.      *)
Assembles(code) ==
  \A f \in DOMAIN code : \A p \in DOMAIN code[f].code :
    code[f].code[p].op \in {"Jump", "JumpIfFalse"} => code[f].code[p].target < Len(code[f].code)

-----------------------------------------------------------------------------
RegSlot(r) == Here.base - (r + 1)
VarSlotBare(f, base, x) == base - SelectInSeq(nir[f].vars, LAMBDA y : y = x)

VarSlot(f, base, x) == base - (nir[f].next + SelectInSeq(nir[f].vars, LAMBDA y : y = x))

FrameSize(f) == Even(nir[f].next + Len(nir[f].vars))

MySlot(x) == VarSlot(Here.fn, Here.base, x)

(* What the operation reads of the frame.                                  *)
Sources == {RegSlot(r) : r \in ToSet(Current.args)} \cup (IF Current.op = "Load" THEN {MySlot(Current.text)} ELSE {})
Ready == Sources \subseteq DOMAIN memory
Source(a) == memory[RegSlot(Current.args[a])]
Put1(a, w) == [x \in {a} |-> w] @@ memory
ToNext == Continue([Here EXCEPT !.pc = @ + 1])
WriteDest(w) == ToNext /\ memory' = Put1(RegSlot(Current.dest), w) /\ UNCHANGED <<nir, edge, out, verdict>>

(* The prologue: the return address and rbp are pushed, the slots are      *)
(* reserved and the argument registers stored.                             *)
Prologue(stack, f, args) ==
  LET base == edge - 2 IN
  /\ frames' = Append(stack, [fn |-> f, pc |-> 0, base |-> base])
  /\ memory' = [a \in {VarSlot(f, base, nir[f].params[k]) : k \in DOMAIN args} |->
                  args[SelectInSeq(nir[f].params, LAMBDA x : VarSlot(f, base, x) = a)]] @@ memory
  /\ edge' = base - FrameSize(f)
(* leave; ret, and the caller's store of rax.                              *)
Epilogue(w) ==
  LET stack == Front(frames)
      caller == Last(stack)
      dest == caller.base - (CodeOf(caller.fn)[caller.pc + 1].dest + 1)
      kept == [a \in {a \in DOMAIN memory : a >= Here.base + 2} |-> memory[a]]
  IN  /\ edge' = Here.base + 2
      /\ IF stack = <<>> THEN frames' = <<>> /\ verdict' = "done" /\ memory' = kept
         ELSE /\ frames' = [stack EXCEPT ![Len(stack)].pc = @ + 1]
              /\ memory' = [a \in {dest} |-> w] @@ kept
              /\ verdict' = verdict
      /\ UNCHANGED <<nir, out>>

-----------------------------------------------------------------------------
(* idiv faults on a zero divisor, and on a quotient that is out of range.  *)
IdivFaults(x, y) == y = 0 \/ (x = SmallestInt /\ y = -1)
Flag(b) == IF b THEN 1 ELSE 0
NativeBinary(op, x, y) == LiteralWord(Arithmetic(op, x, y)[1])

NativeOps == {"Const", "Load", "AddressOf", "Unary", "Binary", "Cast", "PtrOffset"}
NativeWord(i) ==
  CASE i.op = "Const" -> LiteralWord(i.lit)
    [] i.op = "Load" -> memory[MySlot(i.text)]
    [] i.op = "AddressOf" -> MySlot(i.text)
    [] i.op = "Unary" -> IF i.text = "!" THEN Flag(Source(1) = 0) ELSE Wrapped(-Source(1))
    [] i.op = "Binary" -> NativeBinary(i.text, Source(1), Source(2))
    [] i.op = "Cast" -> IF i.text = "u8" THEN Source(1) % 256 ELSE Source(1)
    [] i.op = "PtrOffset" -> IF Len(i.args) = 2 THEN Wrapped(Source(1) + Source(2) * i.width)
                             ELSE Wrapped(Source(1) + i.target)
NativeCompute ==
  /\ Runs(NativeOps)
  /\ IF ~Ready THEN Ends("undefined")
     ELSE IF Current.op = "Binary" /\ Current.text \in {"/", "%"} /\ IdivFaults(Source(1), Source(2)) THEN Ends("trap")
     ELSE WriteDest(NativeWord(Current))

NativeStore ==
  /\ Runs({"Store"})
  /\ IF ~Ready THEN Ends("undefined")
     ELSE ToNext /\ memory' = Put1(MySlot(Current.text), Source(1)) /\ UNCHANGED <<nir, edge, out, verdict>>

(* rsp moves down by whole pairs of words; a slice is two words there.     *)
NativeAllocate ==
  /\ Runs({"StackAlloc", "MakeSlice"})
  /\ IF ~Ready THEN Ends("undefined")
     ELSE LET at == edge - IF Current.op = "MakeSlice" THEN 2 ELSE Even(Current.width)
              words == IF Current.op = "MakeSlice" THEN [a \in {at, at + 1} |-> Source(1 + a - at)] ELSE <<>>
          IN  /\ memory' = [a \in {RegSlot(Current.dest)} |-> at] @@ words @@ memory
              /\ edge' = at
              /\ ToNext
              /\ UNCHANGED <<nir, out, verdict>>

(* The saved rbp and the return address of a frame are not the program's.  *)
Links == UNION {{frames[d].base, frames[d].base + 1} : d \in DOMAIN frames}
Writable(a) == a \in (edge .. (StackTop - 1)) \ Links
(* The lowest page is never mapped.                                        *)
PageFault(a) == IF a \in 0..1 THEN Ends("trap") ELSE Ends("undefined")

NativeRead ==
  /\ Runs({"LoadMemory", "AtomicLoad", "SliceData", "SliceLen"})
  /\ IF ~Ready THEN Ends("undefined")
     ELSE LET a == Source(1) + IF Current.op = "SliceLen" THEN 1 ELSE 0
          IN  IF a \in DOMAIN memory THEN WriteDest(memory[a]) ELSE PageFault(a)

NativeWrite ==
  /\ Runs({"StoreMemory", "AtomicStore"})
  /\ IF ~Ready THEN Ends("undefined")
     ELSE IF ~Writable(Source(1)) THEN PageFault(Source(1))
     ELSE ToNext /\ memory' = Put1(Source(1), Source(2)) /\ UNCHANGED <<nir, edge, out, verdict>>

NativeExchange ==
  /\ Runs({"AtomicExchange", "AtomicCompareExchange"})
  /\ IF ~Ready THEN Ends("undefined")
     ELSE IF Source(1) \notin DOMAIN memory THEN PageFault(Source(1))
     ELSE LET old == memory[Source(1)]
              new == IF Current.op = "AtomicExchange" THEN Source(2) ELSE IF old = Source(2) THEN Source(3) ELSE old
          IN  /\ memory' = [a \in {RegSlot(Current.dest)} |-> old] @@ [a \in {Source(1)} |-> new] @@ memory
              /\ ToNext
              /\ UNCHANGED <<nir, edge, out, verdict>>

(* Checks, fences and Nops leave no trace.                                 *)
NativeJump ==
  /\ Runs({"Jump", "JumpIfFalse", "CheckNonNull", "CheckBounds", "AtomicFence", "Nop"})
  /\ IF Current.op = "JumpIfFalse" /\ ~Ready THEN Ends("undefined")
     ELSE LET jumps == Current.op = "Jump" \/ (Current.op = "JumpIfFalse" /\ Source(1) = 0)
          IN  /\ Continue([Here EXCEPT !.pc = IF jumps THEN Current.target ELSE @ + 1])
              /\ UNCHANGED <<nir, memory, edge, out, verdict>>

Shown(r) == IF Guess(nir[Here.fn].kinds, r) = "bool" THEN BoolV(memory[RegSlot(r)] # 0) ELSE IntV(memory[RegSlot(r)])
NativeCall ==
  /\ Runs({"Call"})
  /\ IF ~Ready THEN Ends("undefined")
     ELSE IF Current.text = "print"
       THEN /\ out' = Append(out, Shown(Current.args[1]))
            /\ memory' = Put1(RegSlot(Current.dest), 0)
            /\ ToNext
            /\ UNCHANGED <<nir, edge, verdict>>
     ELSE /\ Prologue(frames, Current.text, [a \in DOMAIN Current.args |-> Source(a)])
          /\ UNCHANGED <<nir, out, verdict>>

NativeTry ==
  /\ Runs({"Try"})
  /\ IF ~Ready THEN Ends("undefined") ELSE IF Source(1) < 0 THEN Epilogue(Source(1)) ELSE WriteDest(Source(1))

NativeLeave ==
  /\ Runs({"Return", "Throw"})
  /\ IF ~Ready THEN Ends("undefined")
     ELSE IF Current.args = <<>> THEN Epilogue(0)
     ELSE IF Current.op = "Return" \/ Source(1) < 0 THEN Epilogue(Source(1))
     ELSE Epilogue(-Source(1) - 1)

Native ==
  \/ NativeCompute \/ NativeStore \/ NativeAllocate \/ NativeRead \/ NativeWrite
  \/ NativeExchange \/ NativeJump \/ NativeCall \/ NativeTry \/ NativeLeave
=============================================================================
