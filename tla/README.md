# NoeCode in TLA+

NoeCode is the Noqeri language: a bootstrap compiler in C++, a compiler written in Noqeri, a virtual machine and a package manager in JavaScript, an embedded database and a standard library.
This directory holds TLA+ models of the parts whose correctness depends on order, failure or sharing, and of the compiler, where six passes have to agree; the TLC configurations that check them; and proofs that TLAPS checks.
Line numbers refer to the sources in `src/`.

## The system

| Part | State it keeps | Operations | What is hard |
|---|---|---|---|
| NoqeriDB host (`Compiler/bootstrap/noqeridb_host.cpp`) | the tables in memory, the `.nqdb` file, `path.tmp`, a dirty flag | `database`, `table`, `insert`, `select`, `delete`, `update`; load, save | a statement that fails after others succeeded; constraints between rows; replacing the file while processes die or write at the same time |
| Package manager (`Runtime/package-manager.mjs`) | cache directories, `project.nqr`, `noqeri.lock` | `add`, `install`, import resolution; fetch, verify, replace a directory; walk the dependency graph | several processes in one cache, deaths in the middle of a recursive removal, a registry that moves, circles and conflicts in the graph, manifest and lock that drift apart |
| Standard concurrency (`Lib/std/task,sync,atomic,...nqr`) | words shared by threads | start, complete, fail, cancel, read; lock, unlock; once; acquire, release; maximum | every interleaving of loads, stores and compare-exchanges |
| Race detector (`Runtime/race.nqr`, a copy in `Compiler/selfhost/race.nqr`) | a clock per task, a few slots of history | synchronise, read, write | whether one number per task can stand for happens-before |
| Containers (`Lib/std/ring, deque, channel, pool, cache, heap, priority_queue, arena, ...`) | positions and counters over the caller's storage | push, pop, drop, clear, grow | wrapping positions, generations and counters; clear and reopen |
| Algorithms (`Lib/std/calendar, duration, semver, bit, checked, ...`) | none | pure functions | boundaries of the integer types |
| Database policy (`Database/*.nqr`) | states and limits of an engine that is not in the repository | small predicates | the order of write-ahead log, checkpoint and recovery |
| Self-hosted compiler (`Compiler/selfhost`) | token, tree, NIR and object buffers | lex, parse, check, lower, optimise, write | optimisation versus meaning; layout; bounded buffers |
| Bootstrap compiler (`Compiler/*.cpp`, `Compiler/bootstrap`) | the tokens and the place in them, the syntax tree that each pass annotates, NIR per function, frames and memory of a run | `compileSource`: parse; `compileProgram`: instantiate generics, check types, check unsafe code and bounds, check borrows, lower; then optimize, analyze, interpret, emit assembly, allocate registers | six passes and two back ends each have their own idea of scopes, values, checks and jumps; a disagreement shows only in a program that crosses them; where an expression or a statement ends is decided without separators |
| Virtual machine (`Runtime/nqo-vm.mjs`) | stack, frames, heap | run NQO | traps at the limits |
| Tools (`Tools`, `scripts`, `Runtime/ecosystem-tools.mjs`) | files | vendor, audit, fuzz, release | partial results |

How they interact: the command lines (`Runtime/stage1-cli.mjs`, `stage2-cli.mjs`) resolve package imports through the package manager and compile them; a compiled program uses the library, whose concurrent objects are plain records on which threads call functions; the race detector is called at the accesses and hand-offs of a checked program; the database host runs a script on one file that any number of processes may share.
The bootstrap compiler shares nothing with them at run time: it reads one program and writes code.
`PROJECT.json` lists every part, the ones without a model included, and the hazards of the code at their lines.

## The modules

| Module | What it models |
|---|---|
| `NqdScript` | one `.nqd` script: the parser's statements, acceptance, the dirty flag, the save at the end |
| `NqdStore` | `loadState` and `saveState` as steps of processes in one directory, down to the inodes that `path` and `path.tmp` name |
| `DurableStore` | the abstract promise: a script takes effect at once and for good, or not at all |
| `Database` | the host from its two sides, script and store, and the refinement of `DurableStore` |
| `PkgCache` | `fetchPackage`, `verifyCachedPackage`, `atomicPackageWrite`: one cache directory, its files and metadata, entry by entry |
| `PkgInstall` | the recursive `visit` of `installGraph` with an explicit stack |
| `PkgProject` | the commands of the package manager on manifest, lock and cache; a walk and a fetch are one step here |
| `Packages` | the package manager from its three sides |
| `ThreadSystem` | what the concurrent objects share: `cell` (the words), `pc` and `local` (each thread's call) |
| `TaskCell` | `task.nqr` |
| `Sync` | the spin lock, the once cell and the semaphore of `sync.nqr`, and `atomic_update_max_u64` |
| `Threads` | the three side by side: a behaviour picks one object, named by `object` |
| `RaceDetector` | `race.nqr` beside the true happens-before order (`known`) |
| `ContainerSystem` | what the containers share: `store` (the record and its storage) and `call` (the last call, its argument and its answer) |
| `Ring`, `Deque`, `Channel`, `Pool`, `LruCache`, `BinaryHeap` | `ring.nqr`, `deque.nqr`, `channel.nqr`, `pool.nqr`, `cache.nqr`, `heap.nqr`, `priority_queue.nqr` |
| `BoundedSequence`, `LruMap`, `OrderedWaiting` | what ring, deque and channel, the cache, the heap, and the priority queue promise |
| `Containers` | the seven side by side, and the refinements |
| `Syntax` | the trees of `ast.hpp`, and the types |
| `Parser` | `parser_host.cpp`: recursive descent over tokens, with the recovery from syntax errors |
| `Generics` | `generics.cpp`: inference, binding, constraints, the instances of generic functions |
| `TypeChecker` | `type_checker.cpp` |
| `MemorySafety` | `safety.cpp` (unsafe blocks, the bounds of indices) and `lifetime.cpp` (summaries of functions, borrows) |
| `Lowering` | `nir.cpp`: expressions and statements to NIR |
| `NirPasses` | `optimizer.cpp` (folding, dead code) and `nir_analysis.cpp` (basic blocks, kinds of registers) |
| `Interpreter` | what a run keeps (code, frames, memory, output, verdict), for the native code too; and the reference interpreter, one NIR instruction per step |
| `NativeBackend` | `native_backend.cpp`: the frame of a function, what is emitted for each instruction, calls; a step is what one instruction is emitted as |
| `RegisterAlloc` | `register_alloc.cpp`: live intervals, linear scan |
| `Meaning` | the abstract specification of the compiler: what a checked program means, told over its tree, and how a program is written |
| `Compiler` | `compileSource` and `compileProgram`, and what is then done with the code |
| `MC...` | the small instances; those of the race detector and of the package manager stand at the end of their modules |
| `Threads_proofs` | the proofs about `Threads`: the task cell, then the other objects |
| `Database_proofs`, `Packages_proofs` | the proofs about `Database` (the file replacement and the scripts) and about `Packages` (cache, walk, project) |
| `Containers_proofs`, `Deque_proofs`, `Ordered_proofs` | the proofs about the pool, the ring and the channel; on top of them, about the deque; and, on top of both, about the cache |
| `RaceDetector_proofs`, `RegisterAlloc_proofs` | the proofs about `RaceDetector` and `RegisterAlloc` |

State and steps correspond to the code as follows.

* In `NqdScript` a statement is one action: nothing else can look at the tables in between. `disk` is every `.nqdb` file, `db` the tables in memory, `dirty` the flag. `PatchRows` is the loop of `update`, row after row, which stops in the middle at the first row that violates a constraint and leaves the earlier ones patched in memory; `RowsKept` is what `remove_if` does, row after row. What the loops are held against is told without loops where that is possible: `Remaining` (the rows that stay are those that do not match, in their order), `Promise` (what one statement does to the tables), and `Replayed`, the promises of a script one after the other. `MalformedWhere` is the clause that the parser gives up on after it has consumed `where`.
* In `NqdStore` a step is one system call, but for the parts of a text, which are written in one step: until the last part is there the file is not whole, as the empty file before is not. A file that is not whole is refused, or, where it ends after its header or after a table, taken for a smaller database. An inode is named after the process that made it, so that a file renamed away from under an open descriptor is still written through it. A database is abstracted to the set of the scripts whose effects it holds.
* In `PkgCache` a file's bytes are the revision they came from and a digest is the content. `rm` lists the directory, unlinks what it listed and removes the directory, which fails when another process has put something there; a rename replaces an empty directory and no other.
* In `TaskCell` and `Sync` a step is one atomic operation, one plain load or one plain store. The library documents its atomics as sequentially consistent (`Doc/MATURITY_1_6.md:54`), and so are they here. The caller's part (who finishes a task, what is done under a lock) is external in `PROJECT.json`.
* A container has one caller at a time, so a call is one step. `Ring`, `Deque` and `Channel` keep the storage slot by slot, with what the caller left in it; `LruCache` keeps the parallel arrays and forgets what a free slot stores; `BinaryHeap` (the heap and the priority queue) keeps the live part of the array, and a sift is the code's loop, round by round. Calls that are loops over other calls (`heap_push_many`, `priority_queue_push_many`) or only look (`contains`, `count`, `copy`) are left out unless the look is about the order or the wrapped layout. `Pool` includes the caller's handles and, for each, how often its slot was released since, which no code reads.
* In `RaceDetector` a task is its number, and `known[t][u]` is the last epoch of `u` that `t` has learnt of through any chain of synchronisations. The detector never reads it.
* In `Compiler` the passes are actions in their order: `Parse` (`compileSource`), then those of `compileProgram`, `MakeInstances`, `CheckTypes`, `CheckSafety`, `CheckBorrows`, `LowerProgram`. Each hands on the tree it annotated (`ast`) or rejects the program. Before them, `Write` is the author: it sets down the text of the program. `OptimizeProgram` runs the optimizer at one level and records what the analysis says. Then a behaviour follows one use: `interpret`, `native` or `allocate`; with the use `read` it ends after `Parse`.
* The passes are functions over trees and code, so they are operators; what runs the code is a state machine. `frames` holds the registers, variables and local storage of the calls, `memory` the words that may be accessed. Widths and addresses are counted in words: a value has one, a slice two. A verdict says how a run ended: `trap` is the error a safe program may end with, `stuck` is an error that a type checker should have excluded, `undefined` is an access to memory that is not the program's.
* In `Parser` every rule takes a record `p` (the tokens, where the next one is, what was read last) and returns the next. A C++ exception is the field `thrown`: a parser that threw sees a token that no rule takes, so that all the rules it is in come to their end, up to the block or program that catches. `repeat` becomes the loop that `repeatStatement` builds, with the two variables named for its place.
* `Meaning` has block-scoped names, objects as sequences of values, and no registers, addresses or jumps. `meaning` is set when the program is lowered. For a program with generic functions or a `repeat` it is the meaning of the written program, before instances and loops are made. `ProgramText` writes a tree as tokens by the grammar (`Grammar/noqeri.grammar.md`), with the parentheses its grouping needs; `Briefly` leaves out every semicolon and every parenthesis around a condition that can go.

## The runs

A model that depends on its surroundings carries them in a variable, `env`, chosen at the start: the set of the things that may happen (deaths, concurrency, loss of power, ...). One run then checks each property where it is promised, and the properties say where that is.

| Run | Instance | What it shows |
|---|---|---|
| `database` | script: two files, one table with one or two columns, five rows, four patches, three conditions, three statements. Store: three scripts, every subset of concurrency, deaths, power, errors | stored tables satisfy their constraints; a script takes effect as a whole or leaves no trace. The file is whole unless writers overlap or power fails, a failed script is never visible, no loss is silent (`FileIsHonest`); only the next script destroys what a death left recoverable; without faults `DurableStore` is implemented |
| `script_late_database` (violated) | the script side, with `database` after data statements | the accepted statements before it are dropped and the script succeeds |
| `store_loses` (violated) | two scripts, deaths | success is not durable: a death between `remove` and `rename` |
| `packages` | cache: three processes (one offline), two files, two revisions, one edit, every subset of concurrency and deaths, with and without integrities. Graph: 2646 manifest graphs over three packages, one in two versions, three roots, depth limit 2. Project: two packages, one in two versions, one change of content, one failure | nobody vouches for a package that was not published as such; fetches one after the other see one immutable copy; a fetch that succeeds alone leaves a whole package, whatever deaths left before. The walk installs exactly the closure, or reports a real conflict. The lock is always a complete installation or unreadable; in a quiet world imports resolve to what is locked. Every operation ends. Two processes that clear the directory at the same time may leave a partial package: the next fetch detects it |
| `project_unlocked` (violated) | the project, the registry moves | imports do not consult the lock |
| `threads` | two workers, two cancellers, a reader; three contenders, two attempts, two permits | one verdict; readers see it; mutual exclusion; no increment and no permit lost; the maximum covers its candidates; retrying calls return |
| `containers` | capacities 0, 1 and 3 (heaps 6), three values, counters of 3 values, four keys and a clock limit of 5, two handles and three generations, six arrivals | each container answers and changes as the abstract one; pool handles open exactly what they were given out for; the layout invariants of the code hold and nothing is read that was not written. States are told apart without `call`, which no function reads |
| `race_detector` | programs of two and three tasks, three ranges in a space of four addresses, two slots, three epochs, generations up to 3 | a report is always a race; with two tasks every race with a tracked access is reported |
| `race_missed` (violated) | three tasks | a synchronisation with a third task hides a race |
| `compiler` | eleven families of programs, five optimization levels, four uses, words of 10 bits, two registers; to be only read, every program in full and in brief, every nesting of two operators in a statement, a condition and a branch, and every text of up to four tokens over two alphabets of seven | what is written is what is read, in full and in brief; other texts are refused, or read as a tree that has all their tokens in order and is read again from its own text (`ReadsWhatIsWritten`); the interpreter does what the program means at every level (`CompiledMeansTheSame`), and so does the assembly (`NativeAgrees`); accepted programs meet no type error (`WellTypedGoesRight`) and touch only memory that is there (`AcceptedIsSafe`); generic calls get instances that check (`InstancesFit`); the analysis is right about the kinds in registers and about where control goes (`KindsAreRight`, `FlowIsCovered`); values alive together are in different registers (`NoSharedRegister`) |
| `compiler_checks` (violated) | programs with dead literals before a branch, and after it an index past the array whose value is shown | from `O1` on a jump can pass the bounds check it should meet, and the load behind it: the program shows a value it never loaded and ends without a trap |
| `compiler_const` (violated) | a constant and a variable of its name in an inner scope | the variable overwrites the constant |

### Why the bounds are enough

* Scripts: three statements are enough for one to change rows, one to fail or select another file, and one to act on the result; the stored table has a row of each kind that can collide, as an integer, as a real, and with an absent optional column.
* Store: three processes let a third one observe, overwrite or recover what two left in any state of their own.
* Cache: two online processes that clear and rename plus one that only reads; two files tell a mix of revisions from one revision.
* Walk: every shape that matters (chain, diamond, circle, conflict at depth 0 to 2) needs at most three packages; `MaxDepth` is below the number of packages, so that the limit is reached. The code's limit is 32.
* Threads: a lost exchange needs two threads; the third makes it lose twice.
* Containers: three slots have a first, a middle and a last item and every wrap of the head; capacity 0 and 1 are where the modulo and the halves degenerate. Six items are the fewest for which the replacement of a removed heap item must rise. Three keys fill the cache and a fourth evicts; the clock passes its limit several times, and `ClockEnd` stops it where an unused entry keeps a rebase from lowering it. Generations wrap after three releases; the property promises nothing to older handles. Repeated sequences cannot occur before 2^64 pushes, so `MaxSequence` bounds the pushes between clears.
* Race detector: three tasks are the fewest for an order through another; two slots with three addresses force evictions; ranges reach over the end of the address space; generations reach the number where they stop.
* Compiler: a disagreement between passes needs one construct in the right surroundings, not a large program. Each family varies one construct and the surroundings that the code tells apart: arithmetic with constants that are folded and with variables that are not, at zero, at the edges of the word and beyond; the short-circuit operators with operands that print or trap; indices at both edges of arrays and slices that are literals, variables, fields and results; pointers, records and atomics with and without `unsafe`, null included; branches and loops that return on one path, both or none; thrown and passed-on errors; programs with one type error beside nearly equal correct ones; borrows that leave a scope by every way the checker follows; generic functions that call each other, repeat, and are called where the pass looks and where it does not; names in nested and in successive scopes; loops that count, from a variable the body changes, with a return inside, inside each other. Grouping is decided between two neighbouring operators, so nesting two of each level and kind on either side shows every decision; the texts of arbitrary tokens are long enough for an error in the middle, the recovery after it, and a statement after that. Ten bits are enough for results that wrap and for literals that do not; two registers make every third live value spill; frames have at most 200 words.

### Fairness

`Packages`: every operation is awaited, and a request ends by an answer, an error or a time limit, so each process that fetches goes on (weak fairness of its steps), and so does the walk; deaths and the registry are not fair.
`Threads`: a thread inside a call is scheduled. Nothing makes a thread begin a call on a task. `task_cancel` and `sync_semaphore_release` loop until an exchange succeeds; they return under weak fairness because a task changes state at most twice, and because in the instance every contender acquires a bounded number of times: an unbounded stream of other threads' successes could starve one, as in any lock-free loop.
The other runs check no liveness and assume none. The parser ends because every turn takes a token, a pass because its tree does; interpreted programs need not end, those of the families do.

### Where the properties of the compiler make exceptions

An exception names a place where the code is known to differ, so that the property still covers everything else. Each is a definition of `Compiler`.

* `Plain` (`Shadows`, `JumpsHold`): NIR knows variables by name only, and dead code elimination does not move jump targets. Of the programs for which either matters `CompiledMeansTheSame` and the other properties that assume `Plain` say nothing: only `compiler_const` and `compiler_checks` are about them, and show what either leads to.
* No family has a division by zero whose result nobody uses: `Binary` is not among the side effects (`optimizer.cpp:23`), so dead code elimination removes it (`:35`) and a program that traps at `O0` ends normally from `O1` on. `CompiledMeansTheSame` does not hold for such a program.
* `BranchesRebind`: the borrow checker keeps what the branch written last left behind, so a reference that a branch or loop assigns is followed along one path.
* `IdivOverflows`: the smallest integer divided by -1 wraps in the interpreter and traps in the assembly.
* `unlinked`: a jump past the last instruction of a function gets no label in the assembly.
* `NativeAgrees` is about programs that mean to end: the native backend emits nothing for the checks (`Doc/MATURITY_1_6.md:46`), so a program that should trap goes on.
* `WellTypedGoesRight` leaves out comparisons of values that are not both integers: the checker admits them, the interpreter refuses them.
* `InstancesFit` leaves out calls the Monomorphizer does not look at (below casts, in the index of an index expression, in elements of an array after the first), casts to a type parameter, types it does not know (members; top-level names, as every top-level statement has an environment of its own), and types that are spelt alike in the name of an instance.

### What the violated runs say

Each states a sentence of the repository and TLC shows the code does otherwise; `PROJECT.json` quotes the sentences under `findings`: a late `database` statement (`noqeridb_host.cpp:97`), durability (`:64`), the authority of the lock (`package-manager.mjs:313`), third-party synchronisation (`race.nqr:104`), a jump that the optimizer lets pass a check and the load behind it (`optimizer.cpp:35`), constants that are reassigned (`nir.cpp:26`).

More disagreements have no run of their own:

* The cycle message at `package-manager.mjs:277` cannot be reached, because `resolved` answers first; `packages` shows circles being installed completely.
* A program that calls a generic function at `*int` and at `[]int` is rejected although it is correct: both instances are named with `_int`, and the second function of that name is a duplicate (`safeType`, `generics.cpp`).
* A generic call below a cast or in an index is left as it is and later rejected as unknown.
* Semicolons are optional (`Doc/GETTING_STARTED.md:26`), but a new line separates nothing: after `let a = b` a statement that begins with `(`, `[`, `*`, `-` or `+` goes on with the expression (a call, an index, a product, a difference, a sum). `GoesOn` names these beginnings; `Briefly` keeps the semicolon before them, and after a `return` without a value.
* A condition that begins with a parenthesis ends where that closes (`parser_host.cpp:161-162`), so `if (a) && b {` is an error, where the grammar has an expression there.
* A literal of more than 64 bits raises an exception that the parser does not catch (`parser_host.cpp:233`); one of 64 bits is read as a negative number.

## What is proved

TLAPS proves the following for every value of the constants that satisfies the named assumptions. Each module of proofs begins with its inductive invariant, part by part; a part says of the code what the property alone leaves unsaid and a step would need. TLC finds each of them true on the instance of its run.

`Database_proofs`, from `DatabaseAssumption` (names the bounds and surroundings) and `InitialDisksAssumption` (the files a script finds are tables that satisfy their own constraints, as every file saved by a script does). On the file replacement, for any number of scripts that are loaded, saved, killed at any step, with or without errors and loss of power:

* `FileIsHonestAlways`: three promises in one. That scripts which follow one another never show a torn file or an unsuccessful script is inductive only together with `OneAtATime` and `OwnTemp`: the one script at work has `path.tmp` for itself, its text there is what it loaded plus itself, and what it loaded is what `path` shows until it removes it. That concurrent scripts do not lose the file in silence needs `RenamedOrReported`, and `OwnText`: a text nobody else opened is as its writer made it. Its last part, a torn file that nobody was told of, needs a count: only an open that finds no `path.tmp` makes an inode and only a rename takes one away (`RenamesCounted`).
* `OnlyTheNextScriptDestroysAlways`: needs `KeptInMain`: while nothing is lost, a file that is there lacks nothing, so that what a death leaves between `remove` and `rename` is in `path.tmp`.
* `ScriptsAreDurable`: the refinement of `DurableStore`, step by step: the rename is `Commit`, and every other step is an abort or a stutter. It rests on `OwnTemp`, which says that what the rename brings is the loaded state and the script.
* `StoreTypesAlways`: the types of the store.

On the scripts, for any tables, schemas, rows, patches and conditions, and scripts of any length:

* `NothingByHalvesAlways`: an accepted script had no statement refused, and a failed one left every file alone (`ScriptInv`).
* `StoredTablesAreWellFormedAlways`: files are only ever written from memory, so memory is well-formed too (`ScriptTypes`), and stays so within a statement: a row that `validate` admits differs from every other in each unique column (`ValidDiffers`), a deletion keeps rows from a table whose rows differ (`RowsDeleted`), and an update keeps its table well-formed turn by turn, also where it stops half way (`PatchTurnKeeps`, `PatchRowsTo`).
* `WholeScriptAlways`: every script takes effect as its statements say, or not at all. `EffectsKept` is the invariant it needs: as long as nothing was refused the tables in memory are `Replayed(base, log)`, and memory that is not dirty is what is in the file, which is why a save may be skipped. That the loops of `delete` and `update` keep their promises, which are not told as loops, is `DeleteKeeps` and `UpdatePatches`; a loop of `update` that patches nothing leaves the table as it is and need not set the flag (`UpdateLeavesTable`). The theorem assumes `~LateDatabase`: with a `database` statement after data it is false, which is what the run `script_late_database` shows.
* `TypesAlways`: the types of both sides.

The loops are recursive functions. That such a function is what its equation says, for every number of rows, and that an invariant of its turns holds at the end, is shown by the least number for which it would fail (`LeastOf`), because induction theorems that take an operator cannot be used.

`Packages_proofs`, from `PackagesAssumption` and `NoneAssumption` (a dependency graph is a function to sequences of releases; the words for "nothing" and "torn" are none of the data they stand beside):

* `VouchedIsPublishedAlways`: for any processes, files and revisions. `MetaIsGood` follows a revision from the index through the download to the metadata: whatever any process has read, checked or written is complete, and of one revision when the index has integrities. The metadata in the directory is not known to fit the files beside it; that is what `verifyCachedPackage` is for.
* `CacheKeepsAndHealsAlways`: both action properties, by `FetchAlone`: of fetches that follow one another one at a time is under way, it has read what is there, and it removes and writes only after it has found no whole package.
* `WalkIsExactAlways`: for any dependency graph, circular ones included. An installed set contains nothing foreign because everything found is needed (`Found`), and lacks nothing because what is needed is found or still to be visited by a call in progress (`NothingMissed`), of which none is left at the end (`EndsEmpty`). Both range over the closure, which is a set, so no induction over paths is needed.
* `CyclesAreInstalled`: the check for cycles never fires; what is being visited is always resolved already.
* `LockIsCompleteAlways`: the lock is complete because what is about to be written is (`PlanIsComplete`), and a failure leaves the old lock, none or a torn one. `QuietWorldResolvesLockedAlways` adds what a quiet world's lock holds at each phase of a command (`QuietLock`). `TypesAlways`: the types of all three.

`Containers_proofs`, from `ContainerAssumption`. On the pool (among other things there is a greatest capacity, which is not 0; a pool of capacity 0 refuses everything), for any number of slots, handles and generations:

* `HandlesStayTrueAlways`: `HandlesStayTrue` compares a handle with its slot; what a step preserves is the distance between them. `HandleKept`: the generation of a slot is as many generations after that in the handle as the slot has been released since, round the corner included (`Later`), and a slot not released since is in use. Fewer releases than a full turn do not bring a generation back (`LaterIsOther`), one more release is one generation later (`NextIsLater`); `FoundSlotIsFree` says that the search from the hint on ends at a free slot.
* `PoolInvariantAlways`: `pool_invariant` after every call.

On the ring, the channel and the deque (`Deque_proofs`; what an unwritten slot holds is none of the values), for any capacities, 0 included, any values and any size of the counters' word:

* `SequencesKeptAlways`, from `RingKeepsItsSequence`, `DequeKeepsItsSequence` and `ChannelKeepsItsSequence`: every call, bulk calls, turns, reversal, removal from the middle and rebasing included, is a step of `BoundedSequence`; and the channel's counters account for every item, round every corner of the word. A call on a record whose head or length points outside its storage is no such step, so each needs an invariant, `RingInv`, `DequeInv` and `ChannelInv`: there is a sequence of values, not longer than the capacity, that the record holds from its head on.
* The argument has three layers. Lemmas about circular buffers: what putting a value into a slot or moving the head does to the sequence (`CircleAppended`, `CircleDropped`, `CircleTurned` and the like), where positions wrap by a comparison, as `ring_physical_index` has it. What each function does to the sequence its record holds, loops included. And each call as a step of `BoundedSequence`, from any sequence.
* Most calls of the deque are loops: the bulk pushes, both turns, the swaps of `deque_reverse`, the copies of `deque_remove_at` from either side. For each there is a family of sets `D`, `D[k]` those deques that it may have made after `k` rounds (the sequence turned by `k`, reversed up to `k` from both ends, `IsHalfReversed`, with `k` items moved over the gap, `IsMovedUp` and `IsMovedDown`); every round leads from `D[k - 1]` to `D[k]` (`DequeLoopLands`), and in `D[n]` the sequence is what the abstract call says. In between, the deque holds sequences that no call of `BoundedSequence` makes, in a removal with one item in two places. `deque_remove_first` and `deque_remove_last` are removals at the least and the largest of the indices where the value is (`RemoveFirstIs`, `RemoveLastIs`).
* `RingInvariantAlways`, `DequeInvariantAlways`, `ChannelInvariantAlways`: `ring_invariant`, `deque_invariant` and `channel_invariant` after every call, and nothing is handed out from a slot that was never written.

On the cache (`Ordered_proofs`), for any capacities, 0 included, any keys and values, and any limit of the clock:

* `EvictsLeastRecentAlways`: every call is a step of `LruMap`. A cache has arrays and ages, a map has an order, and the two are tied by `IsOrder`: a sequence that holds each occupied slot once, by increasing age. There is only one (`OrderRank`: the slot at place `i` is the one with `i - 1` older slots, which is how `CacheOrder` finds it). A touch takes the slot out and puts it last, an eviction drops the first, a rebase lowers every age by the same amount and leaves the order alone, and so does the clock, because it is past every age. `CacheInv` says that a cache has such an order, that its occupied slots have different keys, and that the clock has passed their ages.
* `CacheInvariantAlways`: `cache_invariant` after every call, and no two occupied slots with one key or one age.

The loops (`Loop`, `Iterate`) are treated as those of the database are: each is a recursive function, and a round after which the record would hold another sequence than it should is refuted at its first number.

`Threads_proofs`, on the task cell, from `RolesAssumption` (the roles are disjoint, and no worker is one of the words that calls answer), for any number of workers, cancellers and readers:

* `TypeCorrect`: the types are inductive.
* `OneVerdictAlways`: `OneVerdict` is inductive together with the types. The heart of it: a call that is told a verdict moved the state from a live one to a terminal one in the same step, and no step leaves a terminal state.
* `RefusedCancelAlways`: needs that a canceller's copy of the state is no younger than the state (`CopiesAreOlder`), since terminal states never change (`DecidedForGood`).
* `ReadersAlways`: needs `Owned`: only the one thread that started the task stores its value and error (`OneOwner`), what it has stored is there when it publishes (`StoresArePublished`), and readers load only after they have seen a terminal state (`ReadersWait`). Without `OneOwner` the step that stores the value is not inductive: another worker could overwrite it.

`Threads_proofs`, on the lock, the once cell and the semaphore, from `ContendersAssumption`, for any number of contenders, attempts and permits:

* `MutualExclusionAlways`: inductive together with the types; at most one thread is past the exchange, and then the word says so.
* `BuiltBeforeUseAlways`: needs `OnceInv`: the word names the claimer's progress, and the object is built before the word says complete.
* `PermitsAlways`, `PeakAlways`: `SemInv` counts the holders; every step changes the word and the set of holders together (`HoldersCounted`), so the word never wraps (`NoWrap`).
* `TypesAlways`: the type invariant of the whole harness.

`RaceDetector_proofs`, from `RaceAssumption`, for any tasks, accesses, number of slots and address width:

* `TypesAlways`.
* `NoFalseAlarmAlways`: `NoFalseAlarm` is not inductive: it needs `Generations`, which says that nobody knows of an epoch its task has not finished (`KnownIsPast`), that an entry is not younger than its task (`EntryIsPast`), and that whoever knows of an entry's epoch is in a later generation, until generations saturate (`KnownIsOlder`). A synchronisation copies knowledge from one of two tasks and puts both in a generation later than either, which keeps the third part; the second makes it hold for an entry of one of the two. `OverlapIsShared` adds that ranges that overlap share a byte, at the end of the address space too.
* `TwoTasksHideNothingAlways`: needs `TwoTasksInStep`: the generations of two tasks are only ever changed together (`InStep`), so whoever is in a later generation than an entry of the other knows of it (`OlderIsKnown`) and an unordered pair is not taken for an ordered one. With a third task `InStep` fails, which is what `race_missed` shows.

`RegisterAlloc_proofs`, for any sequence of intervals in order, of any number, and any set of registers:

* `ScanIsInductive`, `NoSharedRegisterAlways`: `NoSharedRegister` is not inductive: it needs that an active interval is in the register it holds, which is not free and no other's (`Held`), and that an interval which was in a register and is no longer active ended before everything still to be placed begins (`Expired`). Without the latter the step that takes a freed register could meet an older interval in it. `Expired` survives a step because intervals come in the order they begin, so what ended before this one begins ended before all later ones do.

That the compiler's intervals are in order (`Collected`) is model-checked, as part of `TypeOK` of the run `compiler`.

Only model-checked:

* of the containers, `ServedInOrder` and the invariants of heap and priority queue;
* the compiler but for register allocation: its parser, passes and meaning are recursive over tokens and trees;
* all liveness (`EveryOperationEnds`, `CallsReturn` and the like), which the installed provers cannot show; and the six disagreements, which are counterexamples.

## What is not modelled

Host programs: the lexers, the parsers but that of the compiler, the writers, formats and digests; command lines; the choice of the newest version of a package.
The data language: texts and Booleans as values, and the comparison of an integer beyond 2^53 with a real, for which the code takes the nearest double (`noqeridb_host.cpp:55`). A `select` changes nothing and is a step only with a malformed `where`, which it records as an error like the others.
The manifest: its text. `add` finds the line to replace by the alias, so that of two packages whose names differ by their owners alone, or by `-` and `_`, the second takes the place of the first (`package-manager.mjs:247-251`); the packages of the model have different aliases.
Threads: weak memory (the code asks for sequential consistency).
Containers: calls that are loops over other calls or only look, statistics that no function reads, the values of pool slots and of priority queue entries, null pointers, allocation failures.

Compiler:

* Values: floats, strings, volatile accesses, the checked-overflow build (`NOQERI_CHECKED_OVERFLOW`, off by default), small integer types beyond their name (the interpreter does not truncate to them), generic records, inline assembly, the intrinsics of freestanding targets, foreign calls.
* Before the passes: characters (the lexer, the preprocessing of type applications), strings, floats and `volatile` in the text, calls through a module name, functions inside blocks; the merging of modules; functions stand before the other statements. Polymorphic recursion, which would make instances for ever, is in no program.
* After: the text of the assembly, sections, the alignment of the stack to 16 bytes. A Boolean parameter, or one whose address is taken, prints as an integer natively; programs that print one are left out. The storage of a local array lives to the end of the run in the interpreter, as in the code.
* The stack of free registers is a set: which one is taken is a matter of names.

As in the code, `safety.cpp` and `lifetime.cpp` visit functions only, and functions do not see the variables of the top level at run time.

Of the parts that `PROJECT.json` lists as `not_modelled`, the pure algorithms and encodings are functions without state; the database policy is predicates over an engine that is not in the repository; futures and events are single assignments behind a guard; the self-hosted compiler is a second compiler for the same language on token and node buffers of its own, and the virtual machine runs its object format; the hosts and tools read files and write files.

## What is left open

* `arena`: its doubling and page arithmetic meet the end of the address space.
* `sync_semaphore_release` without an acquire counts the word up without a limit; the library leaves the pairing to the caller.
* The self-hosted compiler's optimizer and NQO writer, against the virtual machine.
* The proofs that ring, deque, channel and cache have, for the heap and the priority queue. A round of a sift puts one pair of the heap in order and leaves another one out of order, so `D[k]` would be the heaps with one pair out of order at the depth of round `k`.
