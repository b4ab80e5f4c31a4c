-------------------------------- MODULE Comptime --------------------------------
(*****************************************************************************)
(* src/uir/comptime: the interpreter that evaluates values at compile time.  *)
(*                                                                           *)
(* executeProgram, execute and UIRComptime::execute call each other: each    *)
(* activation of them keeps a C++ pointer to a frame of call_stack, an       *)
(* ArrayList that moves when it grows.  A pointer into the list is an index  *)
(* and the table, the generation of the list's memory, that it points into.  *)
(*                                                                           *)
(* A type is a literal like others; which type it is is left out, and so is  *)
(* the evaluation of a global's declared type, which ends before that of its *)
(* constant begins and takes two frames like it.  The type that a local or   *)
(* an argument names is one, which the code does not check (comptime.cpp:50  *)
(* and 143).  Four operators stand for all; numbers are small.               *)
(*****************************************************************************)
EXTENDS Integers, Sequences

CONSTANTS
  Program,          \* [blocks, globals]: code, and the block of each global
  InitialCapacity,  \* of call_stack
  Outer             \* how many frames an evaluation may find on call_stack

Binary == {"add", "sub", "less", "equal"}
Ops == Binary \cup {"local", "load", "store", "arg", "rettype", "typeof", "call",
                    "return", "comptime", "literal", "br", "condbr"}

(* A literal: its kind, and its number or the cell that it points to.        *)
Kinds == {"int", "bool", "type", "void", "ptr", "global", "freed"}
Value == [kind : Kinds, n : Int]
Void == [kind |-> "void", n |-> 0]
Freed == [kind |-> "freed", n |-> 0]
Type == [kind |-> "type", n |-> 0]
Number(n) == [kind |-> "int", n |-> n]
Bool(b) == [kind |-> "bool", n |-> IF b THEN 1 ELSE 0]
Pointers == {"ptr", "global"}

(* executeBinary.                                                            *)
Operates(op, x, y) ==
  \/ x.kind = "int" /\ y.kind = "int"
  \/ op = "equal" /\ x.kind = "bool" /\ y.kind = "bool"
  \/ op = "equal" /\ {x.kind, y.kind} \subseteq Pointers
Computed(op, x, y) ==
  CASE op = "add" -> Number(x.n + y.n)
    [] op = "sub" -> Number(x.n - y.n)
    [] op = "less" -> Bool(x.n < y.n)
    [] op = "equal" -> Bool(x = y)

(* What resolved_mapping has for a global that is not resolved yet.          *)
Unresolved == [kind |-> "none", n |-> 0]
Pending == [kind |-> "pending", n |-> 0]

(* A value is named by its block and its place there; a global by <<0, g>>,  *)
(* and <<0, 0>> is the comptime instruction that holds a global's constant.  *)
ValueId == Nat \X Nat
Instruction == [op : Ops, args : Seq(ValueId), value : Value, to : Seq(Nat)]
Blocks == Seq(Seq(Instruction))
Globals == Seq(Nat)

ASSUME ProgramAssumption ==
  \A p \in Program :
    /\ p.blocks \in Blocks /\ p.globals \in Globals
    /\ p.globals # <<>> /\ \A g \in DOMAIN p.globals : p.globals[g] \in DOMAIN p.blocks
    /\ \A b \in DOMAIN p.blocks : \A i \in DOMAIN p.blocks[b] :
         LET inst == p.blocks[b][i]
         IN /\ \A t \in DOMAIN inst.to : inst.to[t] \in DOMAIN p.blocks
            /\ inst.op \in {"call", "comptime", "br"} => Len(inst.to) = 1
            /\ inst.op = "condbr" => Len(inst.to) = 2
            /\ inst.op \in Binary \cup {"store"} => Len(inst.args) = 2
            /\ inst.op \in {"local", "load", "condbr", "arg", "typeof"} => inst.args # <<>>
            /\ inst.value.kind \in {"int", "bool", "type", "void"}
ASSUME CapacityAssumption == InitialCapacity \in Nat \ {0}
ASSUME OuterAssumption == Outer \subseteq 0 .. InitialCapacity - 1

VARIABLES
  program,
  call_stack,   \* the frames
  capacity,     \* what call_stack has memory for
  table,        \* how often that memory was moved
  heap,         \* the literals that the arenas of all frames have held
  activations,  \* of executeProgram, and (block 0) of UIRComptime::execute
  resolved,     \* resolved_mapping of the globals
  status, result

vars == <<program, call_stack, capacity, table, heap, activations, resolved,
          status, result>>
memory == <<call_stack, capacity, table, heap>>

-------------------------------------------------------------------------------
(* Frames, and pointers to them.                                             *)
Pointer == [index : Nat, table : Nat]
NoFrame == [index |-> 0, table |-> 0]
FrameOK(f) ==
  /\ DOMAIN f.lookup \subseteq ValueId
  /\ \A id \in DOMAIN f.lookup : f.lookup[id] \in DOMAIN f.values
  /\ f.values \in Seq(DOMAIN heap)
  /\ f.arg_count \in Nat /\ f.parent \in Pointer
Cells(f) == {f.values[x] : x \in DOMAIN f.values}
EmptyFrame(parent) ==
  [lookup |-> <<>>, values |-> <<>>, arg_count |-> 0, parent |-> parent]

Depth == Len(call_stack)
CurrentStack == [index |-> Depth, table |-> table]
Good(pointer) == pointer.table = table

(* The frame that getValue finds a value in: 0 if there is none, and -1 if a *)
(* pointer on the way points to memory that was given back.                  *)
Holders(id) ==
  LET from[i \in 0 .. Depth] ==
        IF i = 0 THEN 0
        ELSE IF id \in DOMAIN call_stack[i].lookup THEN i
        ELSE IF call_stack[i].parent = NoFrame THEN 0
        ELSE IF ~Good(call_stack[i].parent) THEN -1
        ELSE from[call_stack[i].parent.index]
  IN from
Holder(pointer, id) == IF Good(pointer) THEN Holders(id)[pointer.index] ELSE -1

Get(pointer, id) ==
  LET i == Holder(pointer, id)
  IN IF i > 0 THEN heap[call_stack[i].values[call_stack[i].lookup[id]]]
     ELSE [kind |-> "global", n |-> id[2]]

(* The arena of frame i allocates a literal; add sets the value of an        *)
(* instruction, which is allocated the first time.                           *)
Memory == [frames |-> call_stack, heap |-> heap]
Allocated(m, i, value) ==
  [frames |-> [m.frames EXCEPT ![i].values = Append(@, Len(m.heap) + 1)],
   heap |-> Append(m.heap, value)]
AddedNew(m, i, id, value) ==
  [Allocated(m, i, value) EXCEPT
     !.frames[i].lookup = [x \in DOMAIN @ \cup {id} |->
                             IF x = id THEN Len(m.frames[i].values) + 1 ELSE @[x]]]
AddedOnce(m, i, id, value) ==  \* mutant: what was added is not set again
  IF id \in DOMAIN m.frames[i].lookup THEN m ELSE AddedNew(m, i, id, value)
Added(m, i, id, value) ==
  IF id \in DOMAIN m.frames[i].lookup
  THEN [m EXCEPT !.heap[m.frames[i].values[m.frames[i].lookup[id]]] = value]
  ELSE AddedNew(m, i, id, value)

(* pushStack: a full list is given twice the memory, in another place or in  *)
(* the same.                                                                 *)
GrowEarly ==  \* mutant: one frame too soon
  /\ capacity' = IF Depth + 1 = capacity THEN 2 * capacity ELSE capacity
  /\ table' \in IF Depth + 1 = capacity THEN {table, table + 1} ELSE {table}
GrowLate ==  \* mutant: one frame too late
  /\ capacity' = IF Depth > capacity THEN 2 * capacity ELSE capacity
  /\ table' \in IF Depth > capacity THEN {table, table + 1} ELSE {table}
GrowAlways ==  \* mutant: new memory for every frame
  /\ capacity' = IF Depth = capacity THEN 2 * capacity ELSE capacity
  /\ table' \in {table, table + 1}
Grow ==
  /\ capacity' = IF Depth = capacity THEN 2 * capacity ELSE capacity
  /\ table' \in IF Depth = capacity THEN {table, table + 1} ELSE {table}

(* popStack: the arena of the last frame is given back.                      *)
Popped ==
  LET gone == call_stack[Depth].values
  IN [frames |-> SubSeq(call_stack, 1, Depth - 1),
      heap |-> [c \in DOMAIN heap |->
                  IF \E i \in DOMAIN gone : gone[i] = c THEN Freed ELSE heap[c]]]

-------------------------------------------------------------------------------
(* Activations: frame is the pointer that the instruction in progress holds. *)
Activation == [block : Nat, pc : Nat, home : Pointer, frame : Pointer, global : Nat]
Top == activations[Len(activations)]
Below == SubSeq(activations, 1, Len(activations) - 1)
WithTop(activation) == Append(Below, activation)

Running == status = "run"
Finished ==
  IF Top.block = 0 THEN Top.pc = 1 ELSE Top.pc > Len(program.blocks[Top.block])
Constant(g) ==
  [op |-> "comptime", args |-> <<>>, value |-> Void, to |-> <<program.globals[g]>>]
Inst == IF Top.block = 0 THEN Constant(Top.global) ELSE program.blocks[Top.block][Top.pc]
InstId == <<Top.block, Top.pc>>
Here == IF Inst.op = "condbr" THEN Top.home
        ELSE IF Top.frame # NoFrame THEN Top.frame ELSE CurrentStack
Arg(k) == Get(Here, Inst.args[k])

(* The globals that the operands name, and operands that cannot be read.     *)
Needed == {Inst.args[k][2] : k \in {j \in DOMAIN Inst.args : Holder(Here, Inst.args[j]) = 0}}
Lost == \E k \in DOMAIN Inst.args : Holder(Here, Inst.args[k]) = -1
Ready(op) ==
  /\ Running /\ ~Finished /\ Inst.op = op
  /\ ~Lost /\ \A g \in Needed : g \in DOMAIN resolved /\ resolved[g] \in Value

Pointed == IF Arg(1).kind = "global" THEN resolved[Arg(1).n] ELSE heap[Arg(1).n]
Stop(how) ==
  /\ status' = how
  /\ UNCHANGED <<program, memory, activations, resolved, result>>
Go == UNCHANGED <<program, resolved, status, result>>
Becomes(m) == call_stack' = m.frames /\ heap' = m.heap
Executed(m) ==
  /\ Becomes(m)
  /\ activations' = WithTop([Top EXCEPT !.pc = @ + 1, !.frame = NoFrame])
  /\ Go /\ UNCHANGED <<capacity, table>>
Yields(value) == Executed(Added(Memory, Here.index, InstId, value))
Entered(activation) == Append(WithTop([Top EXCEPT !.frame = Here]), activation)

-------------------------------------------------------------------------------
(* UIRComptime::execute of the constant of a global.                         *)
Evaluation(g) ==
  [block |-> 0, pc |-> 0, home |-> NoFrame, frame |-> NoFrame, global |-> g]

(* It is called for the first one, with outer frames in use.                 *)
Init ==
  /\ program \in Program
  /\ \E outer \in Outer : call_stack = [i \in 1 .. outer + 1 |-> EmptyFrame(NoFrame)]
  /\ capacity = InitialCapacity /\ table = 1 /\ heap = <<>>
  /\ activations = <<Evaluation(1)>>
  /\ resolved = [g \in DOMAIN program.globals |-> IF g = 1 THEN Pending ELSE Unresolved]
  /\ status = "run" /\ result = Void

(* getValue of a global that is not resolved: it is analysed first, while    *)
(* the instruction in progress keeps its frame.                              *)
Asks(g, how) ==
  /\ Running /\ ~Finished /\ ~Lost
  /\ \E k \in DOMAIN Inst.args :
       /\ Holder(Here, Inst.args[k]) = 0 /\ Inst.args[k][2] = g
       /\ resolved[g] = how
       /\ \A j \in 1 .. k - 1 :
            Holder(Here, Inst.args[j]) = 0 => resolved[Inst.args[j][2]] \in Value
Demand ==
  /\ \E g \in DOMAIN resolved :
       /\ Asks(g, Unresolved)
       /\ resolved' = [resolved EXCEPT ![g] = Pending]
       /\ activations' = Entered(Evaluation(g))
  /\ Grow
  /\ call_stack' = Append(call_stack, EmptyFrame(NoFrame))
  /\ UNCHANGED <<program, heap, status, result>>
(* A cycle: the assertion of getValue.                                       *)
Cycle ==
  /\ \E g \in DOMAIN resolved : Asks(g, Pending)
  /\ Stop("aborted")

(* An operand is read through a pointer that is not valid any more.          *)
UseFreed ==
  /\ Running /\ ~Finished /\ Lost
  /\ Stop("undefined")

Literal == Ready("literal") /\ Yields(Inst.value)

(* A local that is in lookup already is left as it is.                       *)
LocalVariable ==
  /\ Ready("local")
  /\ LET i == Here.index
         initial == IF Len(Inst.args) = 2 THEN Arg(2) ELSE Number(0)
     IN Executed(IF InstId \in DOMAIN call_stack[i].lookup THEN Memory
                 ELSE Added(Allocated(Memory, i, initial), i, InstId,
                            [kind |-> "ptr", n |-> Len(heap) + 1]))

Load ==
  /\ Ready("load") /\ Arg(1).kind \in Pointers /\ Pointed # Freed
  /\ Yields(Pointed)

Store ==
  /\ Ready("store") /\ Arg(1).kind = "ptr" /\ Pointed # Freed
  /\ Executed([Memory EXCEPT !.heap[Arg(1).n] = Arg(2)])

(* Only Load checks that its operand is a pointer.  Store reads the kind of  *)
(* the place from whatever the literal has in those bytes: a number has its  *)
(* own, a bool only the first of them, a type and void what memory held.     *)
Raw == 1  \* UIRPlaceKind::Raw
MayBeRaw(x) == x.kind \in {"int", "bool"} => x.n = Raw

(* A literal of the source has no type.  A value with one may still be       *)
(* turned away, if the bytes of its type read like those of a pointer to     *)
(* what is constant.                                                         *)
SurelyRaw(id) ==
  /\ Get(Here, id).kind = "int" /\ Get(Here, id).n = Raw
  /\ program.blocks[id[1]][id[2]].op = "literal"

(* Load of what is no pointer, Store to what is none or to a global.         *)
NoPlace ==
  /\ \/ Ready("load") /\ Arg(1).kind \notin Pointers
     \/ Ready("store") /\ Arg(1).kind # "ptr" /\ ~SurelyRaw(Inst.args[1])
  /\ Stop("aborted")
(* Store writes where the other bytes of the literal point.                  *)
WildStore ==
  /\ Ready("store") /\ Arg(1).kind \notin Pointers /\ MayBeRaw(Arg(1))
  /\ Stop("undefined")
(* Load and Store through a pointer to a local of a frame that is gone.      *)
Dangling ==
  /\ Ready("load") \/ Ready("store")
  /\ Arg(1).kind = "ptr" /\ Pointed = Freed
  /\ Stop("undefined")

(* The next argument is whatever the frame holds in that place.              *)
TakeSameArg ==  \* mutant: the arguments are not counted
  /\ Ready("arg")
  /\ LET frame == call_stack[Here.index]
     IN /\ frame.arg_count < Len(frame.values)
        /\ Yields([kind |-> "ptr", n |-> frame.values[frame.arg_count + 1]])
TakeArg ==
  /\ Ready("arg")
  /\ LET i == Here.index
         frame == call_stack[i]
         pointer == [kind |-> "ptr", n |-> frame.values[frame.arg_count + 1]]
     IN /\ frame.arg_count < Len(frame.values)
        /\ Executed([Added(Memory, i, InstId, pointer)
                       EXCEPT !.frames[i].arg_count = @ + 1])

RetType == Ready("rettype") /\ Executed(Memory)
TypeOf == Ready("typeof") /\ Yields(Type)

BinOp ==
  /\ \E op \in Binary : Ready(op) /\ Operates(op, Arg(1), Arg(2))
  /\ Yields(Computed(Inst.op, Arg(1), Arg(2)))
CannotOperate ==
  /\ \E op \in Binary : Ready(op) /\ ~Operates(op, Arg(1), Arg(2))
  /\ Stop("aborted")

(* Return adds its value and does not stop the program.                      *)
Return ==
  /\ Ready("return")
  /\ Yields(IF Inst.args = <<>> THEN Void ELSE Arg(1))

JumpTo(block) ==
  /\ activations' = WithTop([Top EXCEPT !.block = block, !.pc = 1])
  /\ Go /\ UNCHANGED memory
Branch == Ready("br") /\ JumpTo(Inst.to[1])
CondBranch ==
  /\ Ready("condbr") /\ Arg(1).kind = "bool"
  /\ JumpTo(Inst.to[IF Arg(1).n = 1 THEN 1 ELSE 2])
NoCondition ==
  /\ Ready("condbr") /\ Arg(1).kind # "bool"
  /\ Stop("aborted")

(* executeProgram holds on to the frame that was pushed for it.              *)
ProgramOf(block) ==
  [block |-> block, pc |-> 1, home |-> [index |-> Depth + 1, table |-> table'],
   frame |-> NoFrame, global |-> 0]

(* The frame of the callee is pushed before the arguments are read through   *)
(* the frame of the caller.                                                  *)
Call ==
  LET n == Len(Inst.args)
  IN /\ Ready("call")
     /\ Grow
     /\ n = 0 \/ table' = table
     /\ heap' = heap \o [k \in 1 .. n |-> Arg(k)]
     /\ call_stack' = Append(call_stack, [EmptyFrame(NoFrame) EXCEPT
                                            !.values = [k \in 1 .. n |-> Len(heap) + k]])
     /\ activations' = Entered(ProgramOf(Inst.to[1]))
     /\ Go
CallMoves ==
  /\ Ready("call") /\ Inst.args # <<>> /\ Depth = capacity
  /\ Stop("undefined")

(* The frame of a comptime block finds what it lacks in the one around it.   *)
ComptimeAlone ==  \* mutant: its frame has no parent
  /\ Ready("comptime")
  /\ Grow
  /\ call_stack' = Append(call_stack, EmptyFrame(NoFrame))
  /\ activations' = Entered(ProgramOf(Inst.to[1]))
  /\ Go /\ UNCHANGED heap
Comptime ==
  /\ Ready("comptime")
  /\ Grow
  /\ call_stack' = Append(call_stack, EmptyFrame(Here))
  /\ activations' = Entered(ProgramOf(Inst.to[1]))
  /\ Go /\ UNCHANGED heap

(* The end of a program: what its frame got last is its result.              *)
LastValue == heap[call_stack[Depth].values[Len(call_stack[Depth].values)]]
HasValue == call_stack[Depth].values # <<>>
Caller == activations[Len(activations) - 1]
EndProgram ==
  /\ Running /\ Finished /\ Top.block # 0
  /\ HasValue /\ Good(Caller.frame)
  /\ Becomes(Added(Popped, Caller.frame.index, <<Caller.block, Caller.pc>>, LastValue))
  /\ activations' = Append(SubSeq(activations, 1, Len(activations) - 2),
                           [Caller EXCEPT !.pc = @ + 1, !.frame = NoFrame])
  /\ Go /\ UNCHANGED <<capacity, table>>
EndInFreed ==
  /\ Running /\ Finished /\ Top.block # 0
  /\ HasValue /\ ~Good(Caller.frame)
  /\ Stop("undefined")

(* UIRComptime::execute returns, and the global is resolved.                 *)
ExecuteReturns ==
  /\ Running /\ Finished /\ Top.block = 0
  /\ Becomes(Popped)
  /\ activations' = Below
  /\ resolved' = [resolved EXCEPT ![Top.global] = LastValue]
  /\ IF Below = <<>> THEN status' = "done" /\ result' = LastValue
     ELSE UNCHANGED <<status, result>>
  /\ UNCHANGED <<program, capacity, table>>

Next ==
  \/ Demand \/ Cycle \/ UseFreed
  \/ Literal \/ LocalVariable \/ Load \/ Store \/ NoPlace \/ WildStore
  \/ Dangling
  \/ TakeArg \/ RetType \/ TypeOf \/ BinOp \/ CannotOperate \/ Return
  \/ Branch \/ CondBranch \/ NoCondition
  \/ Call \/ CallMoves \/ Comptime \/ EndProgram \/ EndInFreed
  \/ ExecuteReturns

Spec == Init /\ [][Next]_vars
FairSpec == Spec /\ WF_vars(Next)

-------------------------------------------------------------------------------
TypeOK ==
  /\ program \in Program
  /\ \A i \in DOMAIN call_stack : FrameOK(call_stack[i])
  /\ Depth <= capacity
  /\ capacity \in Nat \ {0} /\ table \in Nat
  /\ heap \in Seq(Value)
  /\ activations \in Seq(Activation)
  /\ resolved \in [DOMAIN program.globals -> Value \cup {Unresolved, Pending}]
  /\ status \in {"run", "done", "aborted", "undefined"} /\ result \in Value

(* The frames that were there before the first evaluation.                   *)
OuterDepth == Depth - Len(activations)

(* What a frame holds, and what is known of the globals, was not given back.  *)
Alive ==
  /\ \A i \in DOMAIN call_stack : \A c \in Cells(call_stack[i]) : heap[c] # Freed
  /\ \A g \in DOMAIN resolved : resolved[g] # Freed
  /\ result # Freed

(* Each activation has one frame, in the order of the calls: a comptime block *)
(* has the frame below for its parent, an evaluation and a call have none;    *)
(* the literals of two frames are never the same, and none is given back as   *)
(* long as its frame is there.                                                *)
FramesNest ==
  /\ OuterDepth \in Outer
  /\ \A k \in DOMAIN activations :
       LET frame == call_stack[OuterDepth + k]
       IN /\ activations[k].block # 0 => activations[k].home.index = OuterDepth + k
          /\ activations[k].frame.index \in {0, OuterDepth + k}
          /\ frame.parent.index \in {0, OuterDepth + k - 1}
          /\ activations[k].block = 0 => frame.parent = NoFrame
          /\ k > 1 /\ activations[k - 1].block = 0 => frame.parent # NoFrame
          /\ frame.arg_count <= Len(frame.values)
  /\ \A i, j \in DOMAIN call_stack : i # j =>
       Cells(call_stack[i]) \cap Cells(call_stack[j]) = {}
  /\ Alive

(* An evaluation reads or writes memory that is not its own only after        *)
(* call_stack has outgrown its first memory and moved, with the call that     *)
(* makes it move before it reads the arguments, or if the program itself      *)
(* loads or stores through a pointer to a local of a call that has returned,  *)
(* or stores through what is no pointer.                                      *)
StaleOnlyIfMoved ==
  [][Running /\ status' = "undefined" =>
       \/ table > 1 /\ capacity >= 2 * InitialCapacity
       \/ Ready("call") /\ Inst.args # <<>> /\ Depth = capacity
       \/ (Ready("load") \/ Ready("store")) /\ Arg(1).kind = "ptr" /\ Pointed = Freed
       \/ Ready("store") /\ Arg(1).kind \notin Pointers]_vars

(* Every evaluation comes to an end, with a value or without: the values that *)
(* loops and recursions test are the new ones.                                *)
Completes == <>(~Running)

===============================================================================
