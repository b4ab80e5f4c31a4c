# A TLA+ development of the Stra compiler

Stra is a batch compiler written in C++: one thread reads the source files,
lowers them through two intermediate representations and hands the result to
LLVM. Nothing runs concurrently and nothing is persisted; what is hard about
the code is *order*: declarations are analysed on demand, in an order the
program text and not the compiler's author decides, through tables that are
read while they are being filled, and with pointers held into containers that
move. The back end adds *bytes*: a value changes its place and its form on the
way from a statement to memory and registers. The models concentrate on these.

## Inventory

| component | sources | state it keeps | operations | interacts with |
|---|---|---|---|---|
| containers | `common/containers.hpp`, `common/arenalist.hpp`, `common/allocator.hpp`, `common/optional.hpp`, `common/inline.hpp` | slots of a `HashMap`, elements of an `ArrayList`/`ArenaList`, chunks of a `DynamicArena` | insert, get, remove, resize; push, insert, remove, pop; alloc | used by every pass; passes keep raw pointers into them |
| driver | `src/main.cpp`, `src/helper.cpp`, `src/environment.cpp` | the file list, the import table, the error totals | parse arguments, load a file, follow imports, run the passes, link, run | all passes, the linker process |
| tokenizer | `src/tokenizer.cpp` | cursor, current token | next token, numbers, strings, comments | parser |
| parser | `src/parser.cpp`, `src/ast.hpp`, `src/operator.cpp` | token cursor, tree, imports, error count | one function per construct, precedence climbing | tokenizer, driver |
| printer | `src/print.cpp`, `uir/debug.cpp`, `rir/debug.cpp`, `common/debug.cpp` | none | write a tree or a module as text | driver |
| symbols | `src/symbolize.cpp`, `src/symbol.hpp` | the tree of scopes | symbolize, find a symbol, find a duplicate | uirgen |
| uirgen | `src/uirgen/*` | UIR builder cursor, `node_to_value`, the defer stack | lower a node, inject the deferred statements, declare | symbols, UIR store |
| UIR store | `uir/uir.hpp`, `uir/uir.cpp`, `uir/builder.cpp` | instructions, blocks and scopes per module | append, look up | uirgen, analysis, comptime |
| analysis | `uir/analysis/*` | `resolved_mapping`, the C++ call stack of `analyse`, `function_stack`, the RIR builder's module and block, the error count | `analyse` for each UIR kind, scope and block traversal | comptime (mutually recursive), type context, RIR store |
| comptime | `uir/comptime/*` | the stack of frames, each with values, a lookup and an arena | execute an instruction or a program, get a value, compute a record type | analysis (mutually recursive) |
| type context and layout | `rir/type.hpp`, `rir/type.cpp` | the interned types and the hash index | push, compare, sizeBits, alignBits | uirgen, analysis, comptime, codegen |
| RIR store | `rir/rir.hpp`, `rir/rir.cpp`, `rir/builder.cpp` | instructions, blocks and roots per module | build an instruction, declare | analysis, codegen |
| codegen | `src/codegen/*.cpp` | the map from RIR to LLVM values | emit one instruction, declare globals | RIR store, LLVM (external) |
| SysV ABI | `src/codegen/abi/*` | none | classify a type, lower parameters and results | codegen |
| build and CI | `CMakeLists.txt`, `.github/`, `tests.sh` | none | build and run the tests | |

What makes each one correct, in a sentence:

* **containers**: a map answers for a key what was last inserted for it; a
  pointer handed out stays good as long as its holder uses it.
* **driver**: each file is loaded once, every import resolves to the module of
  its file, and no pass runs on the output of a pass that reported an error.
* **tokenizer, parser**: what is written as the rules of the language say is
  parsed to the tree that was meant, with every operator next to every other.
* **symbols**: a name means its innermost declaration that precedes its use.
* **uirgen**: on every path out of a scope each deferred statement registered
  on that path runs exactly once, last registered first, and nothing follows a
  `return`.
* **analysis**: each declaration is analysed once, in its own module; what
  others may use of it is complete when they use it; a cycle is reported if and
  only if there is one; a success leaves nothing unresolved.
* **comptime**: the frames pushed are the frames popped, a value read belongs to
  a frame that is alive, a `return` ends the program it is in.
* **type context**: equal types compare equal, assignability never drops a
  `const`, sizes are those that LLVM gives the same type.
* **codegen**: between two statements memory holds what the source says; the
  program traps where the source has no such element or variant, and only there.
* **SysV ABI**: every eightbyte gets the register the ABI gives it, and an
  argument arrives as it left.

What is hard to test in this code is listed in `PROJECT.json` under `hazards`,
each at its line, with the properties that would catch it. In short:

* *order*: the analysis follows the program, through a mutual recursion of
  `analyse` and `getValue`; a test exercises one order of one program;
* *positions kept by hand*: the builder's module and block, `function_stack`,
  and the length and boundary of the defer stack are saved and restored by each
  function, on each of its ways out;
* *pointers into containers that move*: `HashMap::get` hands out a pointer into
  its table, and the interpreter keeps pointers to frames in a list that grows;
* *errors that are not errors*: a poisoned operand silently drops the
  instruction, so that an error that is not counted would be a wrong program;
  each pass counts its own, and the driver must look at every count;
* *sizes computed twice*: by `rir/type.cpp` and by LLVM, and a third time by the
  classification of eightbytes; where they differ, bytes are lost or written
  over.

There is no concurrency, no message and no persistent state; the interleavings
are those of recursion, and no crash, loss or timeout is modelled, as there is
none.

## Plan

In the order in which the modules are written, the most important behaviour
first.

1. **Analysis** (done): `Analyser` with its abstract specification
   `Resolution`, properties, and proofs of every safety property and of the
   refinement.
2. **Containers** (`HashMap` done): `HashMap` with its abstract specification
   `Dictionary`, and proofs. Next: `ArrayList`, `DynamicArena` and `ArenaList`
   with a sequence as the abstract specification, and the compiler's use of a
   held pointer across a nested analysis (`call.cpp:44-46`, `global.cpp:132`) as
   a composition of `HashMap` and `Analyser`.
3. **Statements** (done): `UIRGen`, run by `Execution` against the meaning given
   in `Deferral`, and proofs that the generator's points nest, that every block
   ends once, and that a function stays in its blocks.
4. **Comptime interpreter** (core done): `Comptime`, whose results are compared
   with the recursive `Evaluation`, and proofs about its frames. Left: lookups,
   casts and builtin functions.
5. **Front end** (done): `Tokenizer`, `Parser` and `Symbols` as operators, checked
   against `Grammar` and `Scoping`, which know no tokens and no symbols.
6. **Driver** (done): `Driver`, composed with the front end in `MCDriver`, and the
   proofs that errors stop it and that the files are found once and linked,
   which hold for any parser.
7. **Back end** (memory and calls done): `Layout`, `CallingConvention` and
   `Lowering` as operators, run by `Codegen` against `Storage`. Left: branches
   and switches with values, casts and arithmetic, interning and comparison of
   types. Since sizes are recursive, these stay with TLC.

## Modules

| module | what it is |
|---|---|
| `Analyser` | the state machine of on-demand analysis |
| `Resolution` | abstract: what the analysis promises in any order |
| `AnalyserProperties` | its properties and the refinement mapping |
| `AnalyserProofs` | its types, its errors and its contexts |
| `AnalyserCompletion` | what an analysis without errors has done, and that it implements `Resolution` |
| `MCAnalyser` | three families of small programs for TLC |
| `HashMap` | the hash table, call by call, with `resize` in steps |
| `Dictionary` | abstract: a function from keys to values |
| `HashMapProofs` | its theorems |
| `MCHashMap` | keys and hashcodes that collide |
| `UIRGen` | the lowering of statements to blocks, with the defer stack |
| `UIRGenProofs` | its theorems |
| `Deferral` | the reference: what statements mean |
| `Execution` | runs the generated blocks; `UIRGen` composed with a machine |
| `ExecutionProofs` | that each block ends once, and that the machine stays in its function's blocks |
| `MCUIRGen` | small programs with every kind of scope, and the comparison with `Deferral` |
| `Comptime` | the interpreter, with its frames and the pointers to them |
| `ComptimeProofs` | its theorems |
| `Evaluation` | the reference: what a program's value is |
| `MCComptime` | small programs, and the comparison of both |
| `Tokenizer` | from characters to tokens |
| `Parser` | from tokens to a tree, by recursive descent |
| `Grammar` | the reference: how a tree is written |
| `Symbols` | the tree of scopes, and where uirgen looks names up |
| `Scoping` | the reference: what a name stands for |
| `Driver` | a run of the compiler, from its arguments to its exit |
| `DriverProofs` | that errors stop it, files are found once, imports lead to them, and all are linked |
| `MCDriver` | `Driver` composed with `Parser` and `Symbols`, on programs, files and command lines |
| `NumbersAndLists` | lemmas: natural numbers are well ordered; lists that grow |
| `Layout` | types of the RIR and of LLVM, their sizes and alignments |
| `CallingConvention` | the registers in which values travel |
| `Lowering` | from a statement to instructions of the RIR |
| `Storage` | the reference: what the variables mean |
| `Codegen` | the generated code, run on bytes |
| `MCCodegen` | small programs over every kind of type |

### Analyser and the code

`analyse(inst)` (`uir/analysis/analysis.cpp:65-717`) marks a value Pending in
`resolved_mapping`, moves the builder to its module, does the case for its kind,
which may call `analyse` or `UIRComptime::getValue` for others, and moves the
builder back. In the model a value is a *declaration*, and everything between
two demands for other declarations is abstracted to the demand: a program is,
for each declaration, the list of demands made before it is of use to others
(`sig`) and after (`body`). The C++ stack is `call_stack`; its frames hold the
locals `prev_mod` and `prev_block`.

| action | code |
|---|---|
| `VisitRoot`, `Finish` | `UIRAnalyser::analyse` over the modules and their definitions |
| `DemandAnalysis`, `CheckResolved` | an operand: `analyse` and then `checkResolved` (`define.hpp`) |
| `DemandValue`, `DemandKnownValue`, `ReadValue`, `AbortOnValue` | `getValue` (`comptime.cpp:485-513`) with its assertion |
| `Begin...` | the first half of the case for a global, function, record or namespace |
| `ResolveGlobal`, `ResolveFunction`, `ResolveScope` | where the declaration becomes known, or is poisoned |
| `LeaveFunction`, `LeaveScope` | the end of the case: positions are restored |

Type errors are one per declaration, in its signature or its body, and what a
type rule says is not modelled. `cyclic`, `holes` and `garbage` are history
variables that no action reads.

### HashMap and the code

`common/containers.hpp:213-337`. `slots` and `slot_capacity` are the fields of
the struct. `Insert`, `Get` and `Remove` are whole calls. An insertion that
finds no slot is `InsertIntoFull`, one `MoveSlot` for each old slot, and
`FinishResize`, which is the second `getSlot` with its assertion; the caller
cannot run in between, but the steps show the table half moved. `held` is the
pointer the caller got last. Memory that was allocated and not written is
`Absent`; `resize` clears the flags of new slots, as the code does.

Keys are compared by hashcode only, in the code and in the model; distinct keys
have distinct hashcodes by assumption. With `Removals`, an insertion stops at
the first tombstone and would put a key that is further on into the table
twice: `MayInsert` confines the callers to inserting keys that are absent. No
code of the compiler removes a key.

### UIRGen and the code

`gen` (`src/uirgen/uirgen.cpp:99-594`) is recursive; `todo` is the list of what
its activations have still to do, and `saved` holds the locals
`old_defer_len` and `old_defer_boundary` of those that are inside a scope.
`defer_stack`, `defer_stack_len`, `defer_local_boundary` and the builder's
`block` are the code's. A scope (the body of an `if`, `else`, loop, `case` or
block) is `EnterScope`, its statements, `EndScope`, `ResetScope`, which is the
same code in six places; `InjectDefer` is one turn of `injectDefer`.
Expressions are one instruction each, conditions are part of their branch. The
values that an expression has, declarations, records, comptime blocks and inline
assembly are left out.

`Execution` then runs the blocks of one generated function, with every outcome
of the conditions; it knows no source. `MCUIRGen` compares its trace with
`FunctionMeaning` of the source (`FollowsTheSource`), which `Deferral` states.
`Deferral` gives that meaning by recursion over the statements; it knows no
blocks and no stack. It takes from the code's own test (`tests/defer.stra`,
which returns a value that depends on a deferred statement of the function) that
deferred statements run before the value of a `return` is evaluated.

### Comptime and the code

`executeProgram` runs the blocks of a function or of a `comptime` block in the
frame on top of `call_stack`; `execute` does one instruction and calls
`executeProgram` for calls and `comptime` blocks; `UIRComptime::execute` is
where the analysis enters. They are recursive: `activations` are their C++
locals, the block and `pc`, the frame that `executeProgram` looked up when it
began (`home`) and the one that the `execute` in progress holds (`frame`).
`call_stack` is an `ArrayList`: a pointer to a frame is an index together with
the `table` it was taken from, and a list that grows may be moved. Reading or
writing through a pointer to memory that was given back is undefined behaviour,
and the model stops there (`UseFreed`, `CallMoves`, `EndInFreed`, and `Dangling`
for a local of a frame that is gone).

So is a store through what is no pointer. `Load` checks the kind of its operand;
`Store` does not, and reads the kind of the place from the union of whatever
literal it got (`comptime.cpp:136`). Where these bytes are those of `Raw`
(`MayBeRaw`: the number 1, perhaps `true`, and a type or void, for which memory
decides), it writes through a pointer that nobody set (`WildStore`); where they
are not, it ends with the message of the next check (`NoPlace`). A value that has
a type may do either, since the bytes of its type are read first, as those of a
pointer type (`:130`); a literal of the source has none, and is written through
(`SurelyRaw`).

A global that is not resolved is evaluated on demand, in two new frames, while
the instruction that asked keeps its own (`Demand`); one that is Pending is met
by the assertion (`Cycle`). The result of a program is what its frame got last,
and `Return` is no more than that. Types are literals; a frame's lookup and its
values are the code's, and `heap` holds the literals of all arenas, `Freed` once
their frame is popped. `TakeArg` needs no case for an index out of bounds: the
type of a parameter is evaluated into the frame just before.

`Evaluation` computes the same value the way the compiled program would: each
call has its own variables, a declaration makes a new one, a `return` ends the
call. It also counts the frames that a program nests, from the structure of its
calls, and notes what makes a program odd: a local declared twice in one call,
code after a return, a missing argument, a store through what is no pointer.
The interpreter differs from the compiled program on the first three, as the
hazard at `comptime.cpp:411` says, and the properties are stated for the others:
nothing checks what it does with odd programs but that its frames nest and that
it ends. The last one has no meaning. `ResultIsMeaning` includes it, and says that
no value comes of it; that it is always reported, as the messages of `Store`
suggest, would be false.

### Tokenizer, Parser, Symbols and the code

`Tokenizer!next` is `Tokenizer::next` (`tokenizer.cpp:125-534`): from a place in
the source it gives the next token and the place after it. A source is a
sequence of characters, but a run of letters, digits and underscores is one
element, since where it ends is never in doubt. Longest lexemes win, as in the
nested switches; comments, strings and characters run to their end, and one
without an end to the end of the file. There is no `~=`, `**/` does not end a
comment, and a `-` before a digit is part of the number, as in the code.

`Parser` has an operator for each function or case of `parser.cpp`, which takes
a parser (its tokens, its place, whether an error was counted, its imports) and
returns it with the node in it. A null node and a crash (a null pointer that is
followed) are nodes. `parseRightSideExpr` with `Precedence` and `Associativity`
is the loop over operators, with its prefix and postfix forms. The imports are
kept in the order in which they are met, as the driver handles them so.

`Grammar` says how a tree is written, with parentheses where an operator needs
them, and `TreesAsWritten` that parsing what is written gives the tree.
`LeftAssociative` chooses how the writer saves parentheses.

`Symbols` is `symbolize` (`symbolize.cpp:6-246`) and `getSymbolInScope`,
`findSymbol`, `findSymbolByNode` (`symbol.hpp:17-76`). Which scope uirgen passes
to the node it goes on with is `Passed`, from `uirgen.cpp`, `flow.cpp` and
`record.cpp`. `Scoping` says what a name means by environments instead, and has
no symbols.

### Driver and the code

`main` (`main.cpp:208-689`) is one function; `phase` is where it is. The
arguments are read word by word (`ReadOption`, `ReadValue`). `list` and `indices`
are `SourceFiles`; `LoadFile`, `HandleImport` and `NextFile` are the loop that
finds files while it parses others; `file_idx` and `import_idx` are its
variables. After that each pass runs over all files and a `Gate` follows: it
exits if an error was counted, or if what `--emit` asks for is reached. Which
files a later pass fails on is left open. Objects are named by `MangledNames`,
written to `disk`, linked by `Link`, whose outcome nobody looks at, and removed by
`Cleanup`.

Paths are sequences of names from the root, and `makeAbsolute`, `makeRelative`
work on them, with `..` and packages (`helper.cpp:36-79`). The loop over the
imports holds a pointer `file` into the list of files: `stale` says that the list
has moved, and what is then read is anything (`ReadFreed`). `Parse` and
`Symbolize` are constants of `Driver`, which `MCDriver` gives the operators of
`Parser` and `Symbols`.

### Layout, CallingConvention, Lowering, Codegen and the code

`SizeBits` and `AlignBits` are `RIRType::sizeBits` and `alignBits`;
`typeToLLVM` is `convert.cpp:11-167`. LLVM's own sizes, offsets, loads and stores
are external and follow its data layout for x86-64. `Classify`, `Unify`,
`Registers` and `Argize` are `classify`, `unify`, `llreg` and `argize`
(`sysvamd64.cpp`).

`Lowering` makes the instructions of an assignment in two of the compiler's
passes at once: `Addr` and `Gen` walk a place or a value as `addr` and `gen` do,
and each step builds what the analysis builds for it (`AnalyseLookup`,
`AnalyseIndex`, `AnalyseRange`, `AnalyseCall`, `AnalyseAggregate`).

`Codegen` has one action for each kind of instruction, which does what the LLVM
code made for it does to `memory`. A byte is a part of what was stored; what was
never stored, and padding, is undefined. Locals are allocas, and so are the
parameters of a callee. A call passes its arguments through `BuildABICast` into
registers and out of them again (`Passed`); the callee returns one of them. A
check that fails ends the program as `"trapped"`, an access beyond its variable
as `"outside"`.

`Storage` gives the same statements a meaning without bytes: a variable is a
function from the paths of its leaves to values, and a union remembers which
variant it holds. Its operators give sets, of one element or none: what is not
defined (a pointer or a union read before it was set, a range that is empty or
reversed) has no meaning, and `Begin` lets no program do it. Widths of `usize`
(`UsizeBits`) matter only to the length of a range.

## Runs

| run | expects | states | what it asks |
|---|---|---|---|
| `core` | pass | 247 046 | analysis of error-free programs: types, once only, cycles, refinement, termination |
| `faulty` | pass | 270 227 | the builder's position, with type errors, extern and comptime functions, namespaces |
| `cycle` | violation | | is every reported cycle one? |
| `fields` | violation | | are fields read only after they are computed? |
| `table` | pass | 8 958 | the map as the compiler uses it, and one with removals |
| `lower` | pass | 21 143 | statements, scopes and deferred statements, generated and run |
| `evaluate` | pass | 10 996 | compile-time evaluation, on a stack of frames that grows and moves |
| `compile` | pass | 10 890 | the driver with tokenizer, parser and symbols |
| `execute` | pass | 24 555 | generated code on bytes: memory, traps, registers |
| `associativity` | violation | | are operators of one precedence grouped from the left? |
| `break` | violation | | do `break` and `continue` leave the loop's body? |
| `nested` | violation | | do deferred statements stay with their function? |

**Bounds.** *Analysis*: four declarations in two modules, at most one demand in
each list (two where a lookup goes through its record), both orders of the
roots. Four are enough for a cycle through each kind, for one met from outside
and from inside of it, and for a nested analysis that crosses modules twice;
every family holds thousands of programs. *Map*: four keys and two values from
a capacity of 1, so that there are two resizes, full tables, and collisions
in the first table, the next, and none; three keys with removals. *Statements*:
scopes two deep and once more inside a deferred statement, two deferred
statements in each, three conditions that may go any way (`MaxOutcomes`), after
which loops are left; a `defer` stack of 8 (`DeferSlots`), never reached.
*Comptime*: 101 programs, among them recursions up to four deep, loops of up to
three turns, globals that need each other, and stores through every kind of
literal that is no pointer; memory for five frames in place
of eight (`InitialCapacity`), of which up to three are in use (`Outer`), as when
records nest, so that programs of each kind fit, grow the list in the middle of a
call, of an evaluation on demand, and of a `comptime` block, and some of them
then read what was given back (`StaleOnlyIfMoved` says when they may). *Front end*: every
binary operator as the left and the right operand of every other, every operand
in every place an operand has, each statement and declaration with and without
its optional parts, the same names declared at up to four depths in both orders,
written with and without spaces; `Digits` are the words that begin with a digit.
*Driver*: up to five files, each imported under several names from several places,
with packages, one that is a prefix of another; every option; each kind of
mistake in a file or on the command line. The list of files begins with four
slots (`FileSlots`) in place of 32, and outgrows them. *Back end*: 32 programs,
each with up to four statements (`MaxStatements`) in any order out of three to
twenty. Four are enough to set a value, take its address or slice, move it, and
read it after another was set. Types are of up to three eightbytes, with every
mixture of integers, floats and padding in one eightbyte. `UsizeBits` is 4: the
lengths are at most 4, and all that a range computes with them wraps only where
it would with 64.

**Fairness.** `WF(Next)` in `Analyser`, `Comptime` and `Driver`, and
`WF(ExecutionNext)` in `Execution`: the compiler, and a compiled function, is one
thread that keeps running until it returns or aborts; the driver waits for
nothing but the linker. `WF(MoveSlot \/ FinishResize)` in `HashMap`: the loop of
`resize` runs to its end; nothing is assumed about callers. Deadlock is not
checked where the system really stops, at the end of the analysis, of an
evaluation, of the run of a function, of the compiler, and of a program that
traps; a premature stop would violate `Termination`, `Completes`,
`EveryRunReturns` and `Ends`. In `execute` a program stops before a statement
that is not defined, and `StopsWhenMeant` says when it may stop otherwise.

## What the runs found

* **A cycle that is none** (`cycle`). A function is Pending while the types in
  its signature are evaluated; evaluating a record analyses the *methods* of the
  record; a method that calls the function makes it a "Cyclic dependency".
  With the record declared first the same program is accepted. A cycle of
  constants, on the other hand, is met in `getValue` and hits an assertion, so
  that the message is practically only given where there is no cycle
  (`tests/cycle.stra` is not among the programs that `tests.sh` runs).
* **Fields read before they are there** (`fields`). A record's type is in the
  mapping before its fields are filled; a field whose type is another record
  has that record's methods analysed, and one that reads a field of the first
  reads an array that was allocated and not written.
* **`break` and `continue` do nothing** (`break`). They are parsed and have no
  case in `gen`.
* **Deferred statements of the outer function run in the inner one, and then
  not in the outer one** (`nested`). A function literal shares the defer stack.
* **Operators are right associative** (`associativity`).
  `operatorAssociativity` says Left for all but the access to a member, and
  `parseRightSideExpr` adds the number of the associativity to the precedence as
  if Left were 1: `a - b - c` is `a - (b - c)`.

Met while the code was read, left out of the passing runs or of what their
properties are stated for, and checked by no run of its own:

* a statement without its end is printed as an error that is not counted
  (`parser.cpp:1058`), and the rest of the file is dropped; so is it after
  `a -1`, whose `-1` is one number; a comment inside a record is a null pointer;
* the driver says "Compilation Success" whatever the linker did, and `--run` then
  executes what was there before; two files whose paths differ only in the
  characters `/`, `.`, `_` share an object; more than 32 files move the list from
  under a pointer (`main.cpp:453`);
* the first of two declarations of one name wins, as `findDuplicateField` is
  never called;
* `llreg` loses the eightbyte behind one that is full of floats
  (`sysvamd64.cpp:288`): a struct of two `f64` arrives with its second half
  undefined; structs of more than 16 bytes travel in several registers, as
  nothing asks for memory; the temporary of such a cast is an alloca at the
  call (`general.cpp:49`), so that a loop grows the stack;
* the length of a range is not checked when it is computed: a reversed one may
  pass the check of codegen (`codegen.cpp:277`); a range of a pointer or of a
  pointer-slice compares with a null length (`codegen.cpp:265`);
* a store at compile time does not check that it is given a pointer
  (`comptime.cpp:124-138`): `v.* = 3` for a `v` that is 1 writes through a pointer
  that was never set. The model has the step (`WildStore`), and `StaleOnlyIfMoved`
  names it;
* the sizes of `type.cpp` are smaller than LLVM's for an array of `bool`, of one
  bit each, and for an array of unions with a tag of more than a byte, after which
  LLVM pads each element: a union with such a variant gets too few bytes
  (`type.cpp:42-59`). The data of a union is an array of bytes right behind
  its tag, and is accessed with the alignment of the variant's type all the same;
* `typeToLLVM` does not end on a struct that points to itself, which
  `tests/struct_self_pointer.stra` declares; a struct without fields is a
  division by zero (`type.cpp:44`).

The passing runs of statements avoid functions in functions, `break` and
`continue`, and a `return` inside a deferred statement, which generating does
not survive. `OneTerminator`, and the part of `RunsInItsBlocks` that promises
a next instruction, are stated for programs in which a `return` ends its list, is
not deferred, and does not stand in a bare block, whose end injects and branches
without looking for a return (`uirgen.cpp:128-130`).

## Proofs

Checked by TLAPS, for every value of the constants under the named assumptions.
These are weak, and are what the code before the modelled part guarantees:

* `ProgramsAssumption`, `NoDeclAssumption` (*Analyser*): the programs are
  well-formed, and "no declaration" is none;
* `HashAssumption`, `CapacityAssumption`, `RemovalsAssumption`,
  `AbsentAssumption` (*HashMap*): every key has a hashcode, the first capacity is
  not 0, and `Absent` is no key or value;
* `StmtAssumption`, `ProgramAssumption`, `DeferAssumption`, `NameAssumption`
  (*UIRGen*): a statement has the parts that its kind has in the parser's tree,
  and a program is a function;
* `ProgramAssumption`, `CapacityAssumption`, `OuterAssumption` (*Comptime*):
  instructions have the operands and targets that uirgen gives them, a literal in
  the code is no pointer (uirgen makes none), and what is on `call_stack` when an
  evaluation begins fits into its memory;
* `FileSlotsAssumption`, `JobsAssumption` (*Driver*): the parser lists what a file
  imports, and the command line is a list of words.

The programs may be of any size, and loop or recur as they like. `NumbersAndLists`
has what several proofs need. Where a proof is by induction, over the steps of a
recursive function or over what is known, it takes a least element of the
counterexamples (`LeastElement`).

### Analyser

`AnalyserProofs`, for any set of well-formed programs:

* `TypeCorrect`: the type invariant is inductive.
* `NothingIsLostSilently`: inductive as it stands, since whatever poisons or
  leaves out also counts; the case that needs thought is `CheckResolved`, where
  a poisoned operand adds nothing and the earlier poison must have been counted.
* `BuildsInContext`: `BuildContext` speaks of the top of the stack only, and
  says nothing of what a return uncovers. The invariant `Nesting` says it of
  each activation: its saved module is that of the activation below
  (`ModulesNest`), its saved block is the block of the nearest function below
  (`BlocksNest`), and `function_stack` is the functions on the stack, in order
  (`FunctionsNest`). Each action either rewrites the frames in place, pushes
  one, or pops one, and one lemma for each of these carries each part.

`AnalyserCompletion` rests on these and on one more invariant, `Completing`,
which says of each activation what it has got and what still waits for it:

* `Stacking`: each activation has the resolution that its phase gives it
  (`Stacked`); while no error was counted, what is Pending is on the stack
  (`PendingOpen`); a scope that was started is laid out or being laid out
  (`ScopesLaidOut`), and has had all its definitions started once it is left
  (`ScopesVisited`);
* `Emission`: no declaration is emitted twice or into another module, and what
  others refer to as an instruction was emitted. That `EmittedOnce` is kept needs
  the converse too: what is emitted was started, so that `analyse` does not enter
  it again;
* `RootsVisited` and `AtEnd`: the loop over the modules has skipped nothing;
* `NeedsKnown` and `NoCycle`: what is known needs only what is known, and each set
  of known globals has one that needs none of the others, so that a cycle can
  never become known.

From it follow `EachEmittedOnce`, `SuccessLeavesNothingOut` and
`GlobalCyclesRejected`, and `RefinesResolution`: each step of the analysis starts
declarations, makes known what has all it needs, ends in success or in failure,
or stutters, as `Resolution` allows. `Resolution` knows no stack and no order.

### HashMap

For all keys, hashcodes and initial capacities:

* `Invariance`: the conjunction `Inv` of the types, `Chained` (no probe stops
  early), `Keyed` (an entry is under the hashcode of its key), `AllocatesSlot`,
  `Resizing` (what the half-moved table holds is what was moved of the old one)
  and `PointerKept` is inductive. `Chained` alone is not: that a key stands in
  one slot only follows from it together with `Keyed`, and that the loop of
  `resize` finds a free slot from counting what was moved.
* `TypeCorrect`, `EntriesReachable`, `SlotAllocated`, `PointersStayGood`,
  `FreesOnlyFull` follow, and
* `RefinesDictionary`: each step of the table is a put, a delete or a stutter
  of `Dictionary`, under `[k |-> Lookup(k)]`.

`RemovalsImplementDictionary`, which the run `table` checks, is
`ImplementsDictionary` for other values of the constants; `RefinesDictionary` is
about all of them, and `EntriesReachable` about tables with and without
removals. `FreedOnlyWhenFull`, the action property of `FreesOnlyFull`, is left to
the proof and is not checked by a run.

### UIRGen

`UIRGenProofs`, for any program and any number of defer slots:

* `StateWellFormed`, `BranchesStayInFunctions`: `BranchesStay` says something of
  the blocks that are there, and nothing of the branches that `todo` will still
  emit. The invariant `Building` does: a *point* is how many scopes are open, at
  how many the present function began, and which function it is; each item of
  `todo` takes the generator from one point to another (`Fits`): it branches and
  moves only to blocks of the point's function, a scope that is entered is one
  deeper, and the end of a function is at the level at which it began. `todo` is
  a chain of such steps from the present point to the one outside of everything
  (`Chain`), and an action replaces its first item by a chain between the same
  points.
* `ScopesNestIfFunctionsApart`: that what `saved` holds never decreases from the
  outside in (`Rising`), that a scope began where the one around it had got to
  (`Mark`), and that a function began with nothing deferred (`Nested`).

The last theorem has the premise `[][FunctionsApart]_vars`: no function is
entered while something is deferred. A program without functions in functions
satisfies it, and so does one whose inner functions come before the first
`defer`. Without it the property is false: the end of the inner function empties
the defer stack, and a scope that it stands in then begins beyond the end of the
stack. What becomes of the deferred statements the run `nested` shows.

`ExecutionProofs`, for any program and any outcomes of its conditions, without
that premise:

* `BlocksEndOnce`: `OneTerminator` speaks of the end, when nothing is left to do.
  The invariant `Completed` says of every step where each block is on its way to
  its one terminator. The builder is in an open block, in one that has returned,
  or `"away"`, in one to which nothing is added until it is moved; each item of
  `todo` is met in some of these states and leaves another (`Before`, `After`,
  `Linked`). The open blocks are the one the builder is in and those that one item
  of `todo` each will open (`Live`, `Apart`); all others have one terminator, at
  their end (`Sorted`). So an item may end a block only once, and none is
  forgotten. `Tidy`, that a return ends its list and stands neither in a block
  statement nor in a deferred one, is recursive over the statements, whose depth is
  not bounded; that its equation has a solution is proved by taking the
  greatest set of statements that satisfies it.
* `FunctionsRunInTheirBlocks`: `RunsInItsBlocks`, by the invariant `Running`. A
  function's entry is its own block, a branch leads to blocks of its owner
  (`BranchesStay`), and in a tidy program what is not a terminator is followed by
  something (`OneTerminator`), so that there is always a next instruction.

### Comptime

`ComptimeProofs`, for any program, any capacity of `call_stack` and any depth of
calls:

* `EvaluationTyped`, `EachCallHasItsFrame`: `FramesNest` says that the pointers
  that activations keep are to their own frames; which pointer a *return* will
  bring back to use, it does not say. The invariant `Evaluating` does:
  each activation stands at the frame of its own place (`Placed`), one that waits
  for another holds its frame, and, if it is an evaluation, has not had its result
  (`Waits`), so that a pop leaves a stack of the same form (`Stacked`). The
  frames hold literals that are set, and no two hold the same one (`GoodFrames`).
  A pointer in a literal leads to a literal that was made, or to a global whose
  value is known (`Sound`, `KnownSound`). `Alive`, the last part of `FramesNest`,
  needs all of it: a pop gives back one frame's literals, and so none of another;
  the result is read before the pop; and `Freed` is stored nowhere, since what is
  stored was read from a frame that is there, or through a pointer that
  `Dangling` would have stopped at.
* `StaleAfterMoving`: `StaleOnlyIfMoved`, an action property: undefined behaviour
  comes only of a list that has moved, or moves, or of a place that the program
  itself has no right to. By the invariant
  `PointersGood`: as long as the list has not moved, every pointer that an
  activation or a frame keeps is into its first memory, and once it has moved, it
  has memory for twice as many frames at least. A search that comes to a pointer
  that is not good (`Holders` is -1) has met a parent that was taken from an
  older memory.

The parents of frames lie below them, and the search of `getValue` through them
ends (`HoldersDefined`, `HoldersFind`). That a program follows no pointer to a local of
a call that has returned, and stores through nothing but pointers, is *not*
proved, because it is not so: the model stops there (`Dangling`, `WildStore`), as
the program's own fault.

### Driver

For any parser, symbols, files and command lines:

* `ErrorsStopTheRun`: `StopsOnErrors`, an action property, by the
  invariant that an error is counted only before the last gate (`ErrorsSeen`) and
  that nothing is generated or linked before the back end (`NothingMade`).
* `TypeCorrect`, `FilesLoadedOnce`, `ImportsFound`, by the
  invariant `Loading`: `indices` and `path_to_file` lead into the list
  (`Indexes`), a file that the loop has not come to is as it was pushed
  (`Ahead`), and each import that was handled leads to its file (`Handled`), as
  long as the list is in its first memory. That it is there until it holds more
  than `FileSlots` files is a lemma on its capacities (`CapacitiesDefined`).
* `EveryFileLinked`: `LinksEveryFile` wherever the objects have different names
  (`NamesDiffer`), by `Objects`, which relates the outputs to the list while code
  is generated. `LinksEveryFile` itself speaks of files with `Plain` paths; that
  these give different names is a matter of how names are joined, and is left to
  the run `compile`, which checks `LinksEveryFile` without the premise.

### Only model-checked

* Liveness is out of the prover's reach: `Termination`, `InsertReturns`,
  `EveryRunReturns`, `Completes` and `Ends`.
* What is stated against a recursive reference: `FollowsTheSource`,
  `ResultIsMeaning` and `DefinedIfShallow`, `TreesAsWritten`,
  `NamesResolve` and `DeferredNamesStay`. The theorems on `UIRGen`, `Comptime` and
  `Driver` are about the same state machines, and say nothing of these meanings.
  `DefinedIfShallow` counts the frames that a program nests by running its
  meaning; `StaleOnlyIfMoved`, which is proved, counts those that are there.
* The back end: `MemoryMeans`, `StopsWhenMeant` and `RegistersFollowABI`, since the
  sizes of types are recursive.

## Not modelled

* *Analysis*: the type rules of instructions, operators and casts; builtins.
* *Comptime*: lookups, casts, type constructors and builtin functions.
* *Containers*: `ArrayList`, `DynamicArena`, `ArenaList`, except that lists move
  when they grow.
* *Front end*: the values of numbers and strings; `findDuplicateField`, which is
  never called; names in the conditions of `switch`, attributes and operands of
  assembly, which the code does not look up by symbols.
* *Driver*: the words of the linker's command line, targets, and what is emitted.
* *Types*: interning by a hash of 64 bits, and the comparison of types.
* *Code generation*: arithmetic, casts, branches, switches, globals, builtins and
  inline assembly, each a transcription into one call of LLVM; receivers of
  methods; an index into a range; arrays of at most eight bytes as arguments,
  for which the cast is not valid; fieldless structs, `bool` in a union, arrays of
  unions whose tag is wider than a byte, and tags of type `usize`; ranges of a
  pointer or a pointer-slice; whether the machine bears a misaligned access to the
  data of a union; LLVM itself.
* The printers and the build.
