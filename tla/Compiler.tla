------------------------------ MODULE Compiler ------------------------------
(***************************************************************************)
(* The C++ compiler: the text of a program is read and goes through the    *)
(* passes of compileProgram (Compiler/core.cpp), then one of the things is *)
(* done with the code they deliver: the reference interpreter runs it, the *)
(* native backend emits it and the assembly runs, or the registers of a    *)
(* function are allocated.  A text may also only be read.                  *)
(***************************************************************************)
EXTENDS Parser, Generics, TypeChecker, MemorySafety, NirPasses, Interpreter, NativeBackend, RegisterAlloc, Meaning

CONSTANTS
  Programs, Levels, Uses,
  Trees,     \* programs that are only read
  Texts      \* and sequences of tokens, whatever they are

ASSUME WordSizeAssumption == WordSize \in Nat /\ WordSize % 2 = 0 /\ WordSize > 0
ASSUME StackTopAssumption == StackTop \in Nat /\ StackTop % 2 = 0

VARIABLES program, text, ast, stage, level, use, meaning

vars == <<program, text, ast, stage, level, use, meaning, machine, allocation>>

Nothing == [out |-> <<>>, verdict |-> "undefined"]

NoProgram == ProgramOf(<<>>, <<>>, <<>>)
Init ==
  /\ use \in Uses
  /\ IF use = "read" THEN level = "O0" /\ program \in Programs \cup Trees \cup {NoProgram}
     ELSE level \in Levels /\ program \in Programs
  /\ IF program = NoProgram THEN stage = "text" /\ text \in Texts ELSE stage = "write" /\ text = <<>>
  /\ ast = NoProgram /\ meaning = Nothing
  /\ nir = <<>> /\ frames = <<>> /\ memory = <<>> /\ edge = 0 /\ out = <<>> /\ verdict = "running"
  /\ intervals = <<>> /\ current = 1 /\ active = <<>> /\ free = Registers /\ location = <<>> /\ spillSlots = 0

(* Its author writes a program, with all that its text may have or, to be  *)
(* only read, with as little as it needs.                                  *)
Write ==
  /\ stage = "write" /\ stage' = "text"
  /\ LET whole == ProgramText(program) IN text' \in {whole} \cup (IF use = "read" THEN {Briefly(whole)} ELSE {})
  /\ UNCHANGED <<program, ast, level, use, meaning, machine, allocation>>

(* A pass hands on the tree it made or annotated, or the compilation ends. *)
Pass(at, next, result) ==
  /\ stage = at
  /\ IF result.ok THEN ast' = result.program /\ stage' = next ELSE ast' = ast /\ stage' = "rejected"
  /\ UNCHANGED <<program, text, level, use, meaning, machine, allocation>>

(* compileSource: a text that does not parse is not compiled.              *)
Parse == Pass("text", IF use = "read" THEN "read" ELSE "generics", parse(text))
MakeInstances == Pass("generics", "types", Monomorphize(ast))
CheckTypes == Pass("types", "safety", TypeCheck(ast))
CheckSafety == Pass("safety", "borrows", SafetyCheck(ast))
CheckBorrows == Pass("borrows", "lower", [ok |-> BorrowCheck(ast), program |-> ast])

(* Generic functions mean what they say for the values they get: their     *)
(* meaning is the written program's, whatever instances were made; so is   *)
(* that of a repeat, whatever loop was made of it.                         *)
IsGeneric == \E i \in DOMAIN program.functions : program.functions[i].generics # <<>>
RECURSIVE HasRepeat(_)
HasRepeat(body) == \E i \in DOMAIN body : body[i].k = "repeat" \/ HasRepeat(body[i].body)
HasRepeats == HasRepeat(program.statements) \/ \E i \in DOMAIN program.functions : HasRepeat(program.functions[i].body)
Source1 == IF IsGeneric \/ HasRepeats THEN program ELSE ast

LowerProgram ==
  /\ stage = "lower" /\ stage' = "optimize"
  /\ nir' = Lower(ast)
  /\ meaning' = MeaningOf(Source1)
  /\ UNCHANGED <<program, text, ast, level, use, frames, memory, edge, out, verdict, allocation>>

OptimizeProgram ==
  /\ stage = "optimize" /\ stage' = use
  /\ nir' = Analyze(Optimize(nir, level), ast.functions)
  /\ UNCHANGED <<program, text, ast, level, use, meaning, frames, memory, edge, out, verdict, allocation>>

-----------------------------------------------------------------------------
(* Interpreter::run enters the entry function.                             *)
StartInterpreter ==
  /\ stage = "interpret" /\ stage' = "interpreting"
  /\ frames' = <<[fn |-> Entry, pc |-> 0, regs |-> [r \in 0..(nir[Entry].next - 1) |-> Null],
                  vars |-> <<>>, cells |-> <<>>, taken |-> {}]>>
  /\ edge' = 1
  /\ UNCHANGED <<program, text, ast, level, use, meaning, nir, memory, out, verdict, allocation>>

StepInterpreter ==
  /\ stage = "interpreting" /\ Interpret
  /\ UNCHANGED <<program, text, ast, stage, level, use, meaning, allocation>>

(* The names of the functions in the order of the program.                 *)
Order == [i \in DOMAIN ast.functions |-> ast.functions[i].name]

EmitNative ==
  /\ stage = "native"
  /\ IF Assembles(nir)
       THEN nir' = Emitted(nir, Order) /\ edge' = StackTop /\ stage' = "loaded" /\ verdict' = verdict
       ELSE verdict' = "unlinked" /\ stage' = "executing" /\ UNCHANGED <<nir, edge>>
  /\ UNCHANGED <<program, text, ast, level, use, meaning, frames, memory, out, allocation>>

StartNative ==
  /\ stage = "loaded" /\ stage' = "executing"
  /\ Prologue(<<>>, Entry, <<>>)
  /\ UNCHANGED <<program, text, ast, level, use, meaning, nir, out, verdict, allocation>>

StepNative ==
  /\ stage = "executing" /\ Native
  /\ UNCHANGED <<program, text, ast, stage, level, use, meaning, allocation>>

StartAllocation ==
  /\ stage = "allocate" /\ stage' = "allocating"
  /\ \E f \in DOMAIN nir :
       Allocating(Collected(nir[f].code, {r \in DOMAIN nir[f].types : nir[f].types[r].kind = "slice"}))
  /\ UNCHANGED <<program, text, ast, level, use, meaning, machine>>

StepAllocation ==
  /\ stage = "allocating" /\ Allocate
  /\ UNCHANGED <<program, text, ast, stage, level, use, meaning, machine>>

Over ==
  \/ stage \in {"rejected", "read"}
  \/ stage \in {"interpreting", "executing"} /\ verdict # "running"
  \/ stage = "allocating" /\ current > Len(intervals)
Rest == Over /\ UNCHANGED vars

Next ==
  \/ Write \/ Parse \/ MakeInstances \/ CheckTypes \/ CheckSafety \/ CheckBorrows \/ LowerProgram \/ OptimizeProgram
  \/ StartInterpreter \/ StepInterpreter \/ EmitNative \/ StartNative \/ StepNative
  \/ StartAllocation \/ StepAllocation \/ Rest

Spec == Init /\ [][Next]_vars

-----------------------------------------------------------------------------
(* Where the known limits of the passes are named for the properties.      *)
RECURSIVE Within(_)
AllWithin(body) == FoldLeft(LAMBDA found, s : found \o Within(s), <<>>, body)
Within(s) == <<s>> \o AllWithin(s.body)
StatementsOf(p) == FoldLeft(LAMBDA found, f : found \o AllWithin(f.body), AllWithin(p.statements), p.functions)
Statements == StatementsOf(program)
Some(ss, test(_)) == \E i \in DOMAIN ss : test(ss[i])

UsesUnsafe == Some(Statements, LAMBDA s : s.k = "block" /\ s.unsafe)

(* The borrow checker keeps what the branch written last left behind: a    *)
(* reference that a branch or a loop assigns is followed along one path.   *)
RebindsReference(s) ==
  s.k = "expr" /\ IsAssign(s.expr) /\ s.expr.kids[1].k = "name" /\ s.expr.kids[2].k \in {"name", "unary", "call"}
BranchesRebind ==
  Some(Statements, LAMBDA s : s.k \in {"if", "while", "repeat"} /\ Some(Within(s), RebindsReference))

(* A variable is its name to NIR: a declaration that hides one of an outer *)
(* scope stores into it.                                                   *)
Declared(body) == {body[i].name : i \in {i \in DOMAIN body : body[i].k = "let"}}
RECURSIVE Hides(_, _)
SomeHides(body, names) == \E i \in DOMAIN body : Hides(body[i], names \cup Declared(SubSeq(body, 1, i - 1)))
Hides(s, names) == (s.k = "let" /\ s.name \in names) \/ SomeHides(s.body, names)
ParamNames(f) == {f.params[i].name : i \in DOMAIN f.params}
Shadows ==
  \/ SomeHides(program.statements, {})
  \/ \E i \in DOMAIN program.functions : SomeHides(program.functions[i].body, ParamNames(program.functions[i]))

(* Dead code elimination moves code and leaves jump targets alone: code    *)
(* with jumps is only as long as it was if none of it went away.           *)
HasJumps(code) == \E p \in DOMAIN code : code[p].op \in Jumps
JumpsHold ==
  LET before == Lower(ast) IN
  \A f \in DOMAIN nir : HasJumps(nir[f].code) => Len(nir[f].code) = Len(before[f].code)

(* Programs for which neither of the two is the case; only the violated    *)
(* runs are about the others. Dead code elimination also drops a division  *)
(* by zero whose result is not used, so that O1 ends where O0 traps: no    *)
(* family has one, and Plain does not exclude them.                        *)
Plain == ~Shadows /\ JumpsHold

(* Where the Monomorphizer is known to go wrong: a call of a generic       *)
(* function that it does not look at, a cast to a type parameter, a type   *)
(* that it cannot tell (of a member, or of a top-level name), and types    *)
(* that are spelt alike in the name of an instance.                        *)
RECURSIVE Parts(_)
Parts(e) == FoldLeft(LAMBDA found, kid : found \o Parts(kid), <<e>>, e.kids)
SomePart(p, test(_)) == Some(StatementsOf(p), LAMBDA s : Some(Parts(s.expr), test))
Templates == {program.functions[i].name : i \in {i \in DOMAIN program.functions : program.functions[i].generics # <<>>}}
LeavesCalls == SomePart(ast, LAMBDA e : e.k = "call" /\ e.callee \in Templates)
CastsToParameter == SomePart(program, LAMBDA e : e.k = "cast" /\ ~KnownType(e.type, program.records))
Guesses == \E i \in DOMAIN ast.functions : ~KnownTypes(ast.functions[i], program.records)
Opened(f) == CopyOf(f, f.name, [t \in {f.generics[i].name : i \in DOMAIN f.generics} |-> Unknown])
Open == [program EXCEPT !.functions = [i \in DOMAIN @ |-> Opened(@[i])]]

Interpreted == stage = "interpreting" /\ verdict # "running"
Executed == stage = "executing" /\ verdict # "running"

-----------------------------------------------------------------------------
(* A running interpreter stays inside its code and its cells, emitted code *)
(* inside the stack (emitFunction), and registers are handed out or free.  *)
TypeOK ==
  /\ level \in Levels /\ use \in Uses
  /\ verdict \in Verdicts
  /\ \A a \in DOMAIN memory : memory[a] \in Words
  /\ stage = "interpreting" => \A d \in DOMAIN frames :
       /\ frames[d].pc \in 0..Len(CodeOf(frames[d].fn))
       /\ frames[d].taken \subseteq DOMAIN frames[d].cells
       /\ \A x \in DOMAIN frames[d].cells : frames[d].cells[x] \in DOMAIN memory
  /\ stage = "executing" => \A a \in DOMAIN memory : Writable(a)
  /\ stage = "allocating" => intervals \in Seq(Interval) /\ InOrder(intervals)
  /\ \A r \in {active[j] : j \in DOMAIN active} : r \in Registers \ free

(* A program is read as it is written (Grammar/noqeri.grammar.md), and so  *)
(* it is without the semicolons and parentheses that may be left out; a    *)
(* text of any other tokens is refused or read as a tree that has all of   *)
(* them, in their order, and that is read again from its own text          *)
(* (parser_host.cpp).                                                      *)
ReadsWhatIsWritten ==
  [][stage = "text" =>
       /\ program # NoProgram => stage' # "rejected" /\ (HasRepeats \/ ast' = program)
       /\ stage' # "rejected" /\ ~HasRepeats =>
            /\ Essence(ProgramText(ast')) = Essence(text)
            /\ parse(ProgramText(ast')) = [ok |-> TRUE, program |-> ast']]_vars

(* The interpreter prints what the program means and ends the way it does, *)
(* at every optimization level (nir.cpp, optimizer.cpp, runFunction).      *)
CompiledMeansTheSame ==
  Interpreted /\ verdict # "stuck" /\ meaning.verdict # "undefined" /\ Plain =>
    out = meaning.out /\ verdict = meaning.verdict

(* A program that means to end does so natively with the same output; the  *)
(* exceptions are code that does not assemble for want of a label, and the *)
(* quotient that idiv cannot hold (emitFunction against nir.cpp).          *)
IdivOverflows == /\ verdict = "trap" /\ frames # <<>>
                 /\ Current.op = "Binary" /\ Source(1) = SmallestInt /\ Source(2) = -1
NativeAgrees ==
  Executed /\ verdict # "unlinked" /\ ~IdivOverflows /\ meaning.verdict = "done" /\ Plain =>
    out = meaning.out /\ verdict = "done"

(* A program that the type checker accepts meets no run-time type error,   *)
(* other than a comparison of values that are not both integers, which the *)
(* checker admits and the interpreter refuses (type_checker.cpp).          *)
WellTypedGoesRight ==
  Interpreted /\ verdict = "stuck" /\ Plain =>
    Current.op = "Binary" /\ Current.text \in Comparisons /\ ~BothInt(Get(1), Get(2))

(* A program that is accepted and has no unsafe block touches only memory  *)
(* of its own that is still there (safety.cpp, lifetime.cpp).              *)
AcceptedIsSafe ==
  Interpreted /\ ~UsesUnsafe /\ ~BranchesRebind /\ JumpsHold => verdict # "undefined"

(* A step inside a function stays in its basic block or goes to one of the *)
(* successors that the analysis gives it (blocks, nir_analysis.cpp).       *)
Flows(f, from, to) ==
  LET blocks == nir[f].blocks
      b == Max({b \in DOMAIN blocks : b <= from})
  IN  to \in (from + 1)..(blocks[b].end - 1) \/ to \in blocks[b].successors \/ to >= Len(CodeOf(f))
FlowIsCovered ==
  [][(stage = "interpreting" /\ frames' # <<>> /\ Len(frames') = Len(frames) /\ verdict' = "running") =>
       Flows(Here.fn, Here.pc, Here'.pc)]_vars

(* A program that checks with its type parameters left open, and whose     *)
(* generic calls are resolved, checks with the instances made for them: a  *)
(* call goes to the copy for its own types (generics.cpp against           *)
(* type_checker.cpp).                                                      *)
InstancesFit ==
  stage = "types" /\ IsGeneric /\ TypeCheck(Open).ok =>
    \/ TypeCheck(ast).ok
    \/ LeavesCalls \/ CastsToParameter \/ Guesses \/ ~DistinctFunctions(ast.functions)

(* A register holds a value of the kind that the analysis recorded for it; *)
(* a word stands for a Boolean that was in memory (analyze).               *)
Fits1(kind, v) ==
  CASE kind = "bool" -> v[1] = "bool" \/ v \in {IntV(0), IntV(1)}
    [] kind \in IntegerKinds -> v[1] = "int"
    [] kind \in {"pointer", "slice"} -> v[1] = "int"
    [] OTHER -> TRUE
KindsAreRight ==
  stage = "interpreting" /\ frames # <<>> /\ Plain =>
    \A r \in DOMAIN Here.regs : Here.regs[r] # Null /\ r \in DOMAIN nir[Here.fn].types =>
      Fits1(nir[Here.fn].types[r].kind, Here.regs[r])

(* An optimizer removes redundant checks and never one that would fail:    *)
(* a program that means to trap traps (nir.hpp l.25-29, dce).              *)
ChecksSurvive == Interpreted /\ meaning.verdict = "trap" => verdict = "trap"

(* A constant of the top level has its value to the end of the program     *)
(* (LANGUAGE_REFERENCE.md l.13; Store of nir.cpp).                         *)
AtEntryEnd ==
  stage = "interpreting" /\ verdict = "running" /\ Len(frames) = 1 /\ ~Finished /\ Current.op = "Return"
ConstIsNotReassigned ==
  AtEntryEnd =>
    \A i \in DOMAIN ast.statements :
      LET s == ast.statements[i] IN
      s.k = "let" /\ s.const /\ s.expr.k = "lit" => Loaded1(s.name) = s.expr.value
=============================================================================
