---------------------------- MODULE Interpreter ----------------------------
(***************************************************************************)
(* Compiler/bootstrap/interpreter_host.cpp: runFunction, one action per    *)
(* group of NIR operations.  A frame holds the registers, the variables by *)
(* name, and for every variable that has held a word its cell: where it    *)
(* lives once its address has been taken.  An address is unmapped unless a *)
(* cell of a live frame or an allocation is there; allocations last as     *)
(* long as the run.  Blocks are one word apart, so that an index just      *)
(* outside one meets unmapped memory.                                      *)
(*                                                                         *)
(* What a run keeps comes first and is the native back end's too: the code *)
(* of every function, the call stack (innermost frame last), the words of  *)
(* memory that may be read, the edge of the allocated memory, the printed  *)
(* values, and how the run stands:                                         *)
(*   running, done,                                                        *)
(*   trap       the error a safe program may end with (bounds, null,       *)
(*              division by zero),                                         *)
(*   stuck      a run-time error that only an ill-typed program deserves,  *)
(*   undefined  an access to memory that is not the program's.             *)
(***************************************************************************)
EXTENDS Lowering

VARIABLES nir, frames, memory, edge, out, verdict

machine == <<nir, frames, memory, edge, out, verdict>>

Here == Last(frames)
CodeOf(f) == nir[f].code
Finished == Here.pc >= Len(CodeOf(Here.fn))
Current == CodeOf(Here.fn)[Here.pc + 1]
Runs(ops) == verdict = "running" /\ ~Finished /\ Current.op \in ops

Ends(why) == verdict' = why /\ UNCHANGED <<nir, frames, memory, edge, out>>
(* The innermost frame changes to f; the others wait.                      *)
Continue(f) == frames' = [frames EXCEPT ![Len(frames)] = f]

Words == -(WordSize \div 2) .. ((WordSize \div 2) - 1)
Verdicts == {"running", "done", "trap", "stuck", "undefined", "unlinked"}

-----------------------------------------------------------------------------

(* asInt: null counts as 0.                                                *)
AsInt(v) == CASE v[1] = "int" -> v[2] [] v[1] = "bool" -> (IF v[2] THEN 1 ELSE 0) [] OTHER -> 0

Get(a) == Here.regs[Current.args[a]]
Word(a) == AsInt(Get(a))
Advanced(f) == [f EXCEPT !.pc = @ + 1]
SetDest(v) == Continue(Advanced([Here EXCEPT !.regs[Current.dest] = v])) /\ UNCHANGED <<nir, memory, edge, out, verdict>>

(* runFunction's prologue: an int argument has a cell from the start.      *)
Enter(stack, f, args) ==
  LET params == SubSeq(nir[f].params, 1, Len(args))
      at(x) == SelectInSeq(params, LAMBDA y : y = x)
      held == {x \in ToSet(params) : args[at(x)][1] = "int"}
  IN  /\ frames' = Append(stack, [fn |-> f, pc |-> 0, regs |-> [r \in 0..(nir[f].next - 1) |-> Null],
                                  vars |-> [x \in ToSet(params) |-> args[at(x)]],
                                  cells |-> [x \in held |-> edge + 2 * at(x)], taken |-> {}])
      /\ memory' = [a \in {edge + 2 * at(x) : x \in held} |-> args[(a - edge) \div 2][2]] @@ memory
      /\ edge' = edge + 2 * Len(params)

(* Return, and what ends a function early: the caller's register gets v,   *)
(* and the cells go with the frame.                                        *)
Leave(v) ==
  LET stack == Front(frames)
      caller == Last(stack)
      call == CodeOf(caller.fn)[caller.pc + 1]
  IN  /\ memory' = [a \in DOMAIN memory \ {Here.cells[x] : x \in DOMAIN Here.cells} |-> memory[a]]
      /\ IF stack = <<>> THEN frames' = <<>> /\ verdict' = "done"
         ELSE /\ frames' = [stack EXCEPT ![Len(stack)] = Advanced([caller EXCEPT !.regs[call.dest] = v])]
              /\ verdict' = verdict
      /\ UNCHANGED <<nir, edge, out>>

-----------------------------------------------------------------------------
Loaded1(x) ==
  IF x \in Here.taken THEN IntV(memory[Here.cells[x]])
  ELSE IF x \in DOMAIN Here.vars THEN Here.vars[x] ELSE <<"stuck">>

BinaryValue(op, a, b) ==
  IF ~BothInt(a, b) THEN <<"stuck">>
  ELSE LET v == Arithmetic(op, a[2], b[2]) IN IF v = <<>> THEN <<"trap">> ELSE v[1]

UnaryValue(op, v) ==
  IF op = "!" THEN BoolV(~Truthy(v))
  ELSE IF v[1] = "int" THEN IntV(Wrapped(-v[2])) ELSE <<"stuck">>

CastValue(kind, v) == IF kind \in IntegerKinds \cup {"pointer"} THEN IntV(AsInt(v)) ELSE v

OffsetValue == IF Len(Current.args) = 2 THEN Wrapped(Word(1) + Word(2) * Current.width) ELSE Wrapped(Word(1) + Current.target)

ValueOps == {"Const", "Load", "Unary", "Binary", "Cast", "PtrOffset"}
ValueOf(i) ==
  CASE i.op = "Const" -> i.lit
    [] i.op = "Load" -> Loaded1(i.text)
    [] i.op = "Unary" -> UnaryValue(i.text, Get(1))
    [] i.op = "Binary" -> BinaryValue(i.text, Get(1), Get(2))
    [] i.op = "Cast" -> CastValue(i.text, Get(1))
    [] i.op = "PtrOffset" -> IntV(OffsetValue)

InterpretValue ==
  /\ Runs(ValueOps)
  /\ LET v == ValueOf(Current) IN IF v[1] \in {"trap", "stuck"} THEN Ends(v[1]) ELSE SetDest(v)

(* A variable's cell follows its words; null leaves the old word there.    *)
InterpretStore ==
  /\ Runs({"Store"})
  /\ LET x == Current.text
         stored == Advanced([Here EXCEPT !.vars = [y \in {x} |-> Get(1)] @@ @])
         cell == IF x \in DOMAIN Here.cells THEN Here.cells[x] ELSE edge
     IN  IF Get(1) = Null
           THEN Continue(stored) /\ UNCHANGED <<memory, edge>>
           ELSE /\ Continue([stored EXCEPT !.cells = [y \in {x} |-> cell] @@ @])
                /\ memory' = [a \in {cell} |-> Word(1)] @@ memory
                /\ edge' = IF cell = edge THEN edge + 2 ELSE edge
  /\ UNCHANGED <<nir, out, verdict>>

InterpretAddressOf ==
  /\ Runs({"AddressOf"})
  /\ LET x == Current.text
         cell == IF x \in DOMAIN Here.cells THEN Here.cells[x] ELSE edge
     IN  /\ Continue(Advanced([Here EXCEPT !.taken = @ \cup {x}, !.cells = [y \in {x} |-> cell] @@ @,
                                           !.regs[Current.dest] = IntV(cell)]))
         /\ memory' = memory @@ [a \in {cell} |-> 0]
         /\ edge' = IF cell = edge THEN edge + 2 ELSE edge
  /\ UNCHANGED <<nir, out, verdict>>

(* StackAlloc clears its words; MakeSlice stores pointer and length.       *)
InterpretAllocate ==
  /\ Runs({"StackAlloc", "MakeSlice"})
  /\ LET words == IF Current.op = "MakeSlice" THEN <<Word(1), Word(2)>> ELSE [k \in 1..Current.width |-> 0]
     IN  /\ Continue(Advanced([Here EXCEPT !.regs[Current.dest] = IntV(edge)]))
         /\ memory' = [a \in edge .. (edge + Len(words) - 1) |-> words[a - edge + 1]] @@ memory
         /\ edge' = edge + Len(words) + 1
  /\ UNCHANGED <<nir, out, verdict>>

(* rawLoad and rawStore: address 0 is refused, any other one is used.      *)
Faults(a) == IF a = 0 THEN Ends("trap") ELSE Ends("undefined")

InterpretRead ==
  /\ Runs({"LoadMemory", "AtomicLoad", "SliceData", "SliceLen"})
  /\ LET a == Word(1) + IF Current.op = "SliceLen" THEN 1 ELSE 0
     IN  IF a \in DOMAIN memory THEN SetDest(IntV(memory[a])) ELSE Faults(a)

InterpretWrite ==
  /\ Runs({"StoreMemory", "AtomicStore"})
  /\ IF Word(1) \notin DOMAIN memory THEN Faults(Word(1))
     ELSE /\ Continue(Advanced(Here))
          /\ memory' = [memory EXCEPT ![Word(1)] = Word(2)]
          /\ UNCHANGED <<nir, edge, out, verdict>>

InterpretExchange ==
  /\ Runs({"AtomicExchange", "AtomicCompareExchange"})
  /\ IF Word(1) \notin DOMAIN memory THEN Faults(Word(1))
     ELSE LET old == memory[Word(1)]
              new == IF Current.op = "AtomicExchange" THEN Word(2) ELSE IF old = Word(2) THEN Word(3) ELSE old
          IN  /\ Continue(Advanced([Here EXCEPT !.regs[Current.dest] = IntV(old)]))
              /\ memory' = [memory EXCEPT ![Word(1)] = new]
              /\ UNCHANGED <<nir, edge, out, verdict>>

CheckHolds ==
  IF Current.op = "CheckNonNull" THEN Word(1) # 0 ELSE Word(1) >= 0 /\ Word(1) < Word(2)
InterpretCheck ==
  /\ Runs({"CheckNonNull", "CheckBounds"})
  /\ IF CheckHolds THEN Continue(Advanced(Here)) /\ UNCHANGED <<nir, memory, edge, out, verdict>> ELSE Ends("trap")

InterpretJump ==
  /\ Runs({"Jump", "JumpIfFalse", "Nop", "AtomicFence"})
  /\ LET jumps == Current.op = "Jump" \/ (Current.op = "JumpIfFalse" /\ ~Truthy(Get(1)))
     IN  Continue(IF jumps THEN [Here EXCEPT !.pc = Current.target] ELSE Advanced(Here))
  /\ UNCHANGED <<nir, memory, edge, out, verdict>>

InterpretCall ==
  /\ Runs({"Call"})
  /\ LET args == [a \in DOMAIN Current.args |-> Get(a)] IN
     CASE Current.text \in DOMAIN nir -> Enter(frames, Current.text, args) /\ UNCHANGED <<nir, out, verdict>>
       [] Current.text = "print" -> /\ out' = Append(out, args[1])
                                    /\ Continue(Advanced([Here EXCEPT !.regs[Current.dest] = Null]))
                                    /\ UNCHANGED <<nir, memory, edge, verdict>>
       [] OTHER -> Ends("stuck")

InterpretTry ==
  /\ Runs({"Try"})
  /\ IF Word(1) < 0 THEN Leave(IntV(Word(1))) ELSE SetDest(IntV(Word(1)))

InterpretLeave ==
  \/ /\ Runs({"Return"})
     /\ Leave(IF Current.args = <<>> THEN Null ELSE Get(1))
  \/ /\ Runs({"Throw"})
     /\ Leave(IntV(IF Word(1) < 0 THEN Word(1) ELSE -(Word(1) + 1)))
  \/ /\ verdict = "running" /\ Finished
     /\ Leave(Null)

Interpret ==
  \/ InterpretValue \/ InterpretStore \/ InterpretAddressOf \/ InterpretAllocate
  \/ InterpretRead \/ InterpretWrite \/ InterpretExchange \/ InterpretCheck
  \/ InterpretJump \/ InterpretCall \/ InterpretTry \/ InterpretLeave
=============================================================================
