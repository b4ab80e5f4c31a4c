------------------------------- MODULE Analyser -------------------------------
(*****************************************************************************)
(* The on-demand analysis of declarations (uir/analysis, with the part of    *)
(* uir/comptime that calls back into it).                                    *)
(*                                                                           *)
(* analyse(inst) is a recursive C++ function over the UIR values of a        *)
(* program.  Here a value is a declaration: a global variable, a function, a *)
(* record (struct, enum, union) or a namespace.  The instructions between    *)
(* two declarations are abstracted to the requests for other declarations    *)
(* they make, in the order they are made; the C++ call stack is the variable *)
(* call_stack; one step is one call, one check of what a call left behind,   *)
(* or one return.                                                            *)
(*****************************************************************************)
EXTENDS Naturals, Sequences, FiniteSets, SequencesExt

CONSTANTS
  Decl,      \* the declarations
  Module,    \* the modules, one for each source file
  NoDecl,    \* no function: the builder's block is not set
  Programs   \* the programs considered, see ProgramType

Kinds == {"GlobalVariable", "Alias", "Function", "Extern", "ComptimeFunction",
          "Record", "Namespace"}
Variables == {"GlobalVariable", "Alias"}
Functions == {"Function", "Extern"}

(* How an instruction asks for a declaration:                                *)
(*   analyse  run-time analysis: analyse(d), then checkResolved              *)
(*   value    comptime evaluation: UIRComptime::getValue(d)                  *)
(*   layout   getValue(d), then the fields of the type d are read (a member  *)
(*            lookup, sizeof, alignof)                                       *)
(*   visit    analyseScope: analyse(d), whatever the outcome                 *)
Modes == {"analyse", "value", "layout", "visit"}
Item == [to : Decl, how : Modes]

(* kind, mod: what the declaration is and where (an Alias is a global whose  *)
(* constant is a type, or a builtin one: nothing is emitted for it).  sig: the requests made     *)
(* before the declaration is of use to others: type and initial value of a   *)
(* global, parameter and result types of a function, field types of a record *)
(* (those made by the functions a comptime call interprets included).  body: *)
(* the requests made after: a function's blocks, a record's definitions.     *)
(* fault: where the analysis finds a type error.  roots: the definitions of  *)
(* the modules, in the order UIRAnalyser::analyse visits them.               *)
ProgramType ==
  [kind : [Decl -> Kinds], mod : [Decl -> Module],
   sig : [Decl -> Seq(Item)], body : [Decl -> Seq(Item)],
   fault : [Decl -> {"none", "sig", "body"}], roots : Seq(Decl)]

(* The definitions of a scope, and what d asks for, in order.                *)
Definitions(p, d) ==
  IF p.kind[d] \in {"Record", "Namespace"}
    THEN {item.to : item \in Range(p.body[d])} ELSE {}
AllRequests(p, d) == p.sig[d] \o p.body[d]

(* What the passes before see to: types and constants are evaluated at       *)
(* compile time, only scopes have definitions, these belong to the module of *)
(* their scope, a definition stands in one place of the program, and from    *)
(* outside its scope it is reached by a lookup in the scope.                 *)
WellFormed(p) ==
  /\ \A d \in Decl :
       /\ p.sig[d] \in Seq([to : Decl, how : {"value", "layout"}])
       /\ p.body[d] \in
            CASE p.kind[d] = "Function" ->
                   Seq([to : Decl, how : {"analyse", "value", "layout"}])
              [] p.kind[d] \in {"Record", "Namespace"} ->
                   Seq([to : {e \in Decl : p.mod[e] = p.mod[d]}, how : {"visit"}])
              [] OTHER -> {<<>>}
       /\ p.kind[d] \in {"Namespace", "ComptimeFunction"} => p.sig[d] = <<>>
  /\ \A s \in Decl :
       /\ Definitions(p, s) \cap Range(p.roots) = {}
       /\ \A d \in Decl \ {s} : Definitions(p, d) \cap Definitions(p, s) = {}
       /\ \A d \in Decl \ ({s} \cup Definitions(p, s)) :
            \A i \in DOMAIN AllRequests(p, d) :
              AllRequests(p, d)[i].to \in Definitions(p, s) =>
                \E j \in 1 .. (i - 1) : AllRequests(p, d)[j].to = s

ASSUME ProgramsAssumption ==
  \A p \in Programs : p \in ProgramType /\ WellFormed(p)
ASSUME NoDeclAssumption == NoDecl \notin Decl

VARIABLES
  prog,             \* the program under analysis; never changes
  resolved_mapping, \* UIRAnalyser::resolved_mapping, "none" where absent
  laid_out,         \* the records whose type is completely computed
  call_stack,       \* the C++ activations of analyse()
  function_stack,   \* UIRAnalyser::function_stack (the creators)
  builder_module,   \* RIRBuilder::module
  builder_block,    \* RIRBuilder::block, as the function that owns it
  rir,              \* the root values emitted, in order
  error_count,      \* UIRAnalyser::error_count
  next_root,        \* where UIRAnalyser::analyse stands in prog.roots
  status,           \* "run", "done", or "aborted" (a comptime assertion)
  cyclic,           \* history: "Cyclic dependency detected" was reported here
  holes,            \* history: functions with an instruction left out
  garbage           \* history: records read before they were laid out

vars == <<prog, resolved_mapping, laid_out, call_stack, function_stack,
          builder_module, builder_block, rir, error_count, next_root, status,
          cyclic, holes, garbage>>

Resolutions == {"none", "pending", "poison", "inst", "literal"}

Frame == [decl : Decl, phase : {"sig", "body"}, pc : Nat \ {0}, called : BOOLEAN,
          prev_module : Module, prev_block : Decl \cup {NoDecl}]

TypeOK ==
  /\ prog \in ProgramType
  /\ resolved_mapping \in [Decl -> Resolutions]
  /\ laid_out \in SUBSET Decl
  /\ call_stack \in Seq(Frame)
  /\ function_stack \in Seq(Decl)
  /\ builder_module \in Module
  /\ builder_block \in Decl \cup {NoDecl}
  /\ rir \in Seq([decl : Decl, mod : Module])
  /\ error_count \in Nat
  /\ next_root \in Nat \ {0}
  /\ status \in {"run", "done", "aborted"}
  /\ cyclic \in SUBSET Decl
  /\ holes \in SUBSET Decl
  /\ garbage \in SUBSET Decl

-------------------------------------------------------------------------------
Init ==
  /\ prog \in Programs
  /\ resolved_mapping = [d \in Decl |-> "none"]
  /\ laid_out = {}
  /\ call_stack = <<>>
  /\ function_stack = <<>>
  /\ builder_module \in Module   \* UIRAnalyser::analyse sets it for each root
  /\ builder_block = NoDecl
  /\ rir = <<>>
  /\ error_count = 0
  /\ next_root = 1
  /\ status = "run"
  /\ cyclic = {}
  /\ holes = {}
  /\ garbage = {}

(* The activation on top of the stack and its place in the program.          *)
Depth == Len(call_stack)
Top == call_stack[Depth]
Agenda == IF Top.phase = "sig" THEN prog.sig[Top.decl] ELSE prog.body[Top.decl]
Request == Agenda[Top.pc]
KindOf(d) == prog.kind[d]
Running == status = "run" /\ call_stack # <<>>
Busy == Running /\ Top.pc <= Len(Agenda)

(* The stack after a call was made at the top, and after the top went on.    *)
MarkCalled == [call_stack EXCEPT ![Depth].called = TRUE]
MoveOnForgetsToAdvance == [call_stack EXCEPT ![Depth].called = FALSE]  \* mutant
MoveOn == [call_stack EXCEPT ![Depth].pc = @ + 1, ![Depth].called = FALSE]
EnterBody ==
  [call_stack EXCEPT ![Depth].phase = "body", ![Depth].pc = 1]

-------------------------------------------------------------------------------
(* analyse(d) for a d that is absent from the mapping: it is marked Pending, *)
(* the builder moves to its module, and the case for its kind starts.  The   *)
(* caller's activations are `stack`, and `from` is the builder's module.     *)
PushSwapsSaved(d, stack, from) ==  \* mutant: the saved block is the module
  /\ call_stack' = Append(stack,
       [decl |-> d, phase |-> "sig", pc |-> 1, called |-> FALSE,
        prev_module |-> from, prev_block |-> builder_module])
  /\ builder_module' = prog.mod[d]
Push(d, stack, from) ==
  /\ call_stack' = Append(stack,
       [decl |-> d, phase |-> "sig", pc |-> 1, called |-> FALSE,
        prev_module |-> from, prev_block |-> builder_block])
  /\ builder_module' = prog.mod[d]

(* analyseGlobal: Pending until type and constant are known.                 *)
BeginGlobalEarly(d, stack, from) ==  \* mutant: known before its constant is
  /\ KindOf(d) \in Variables
  /\ resolved_mapping' = [resolved_mapping EXCEPT ![d] = "inst"]
  /\ Push(d, stack, from)
  /\ UNCHANGED <<function_stack, builder_block, rir>>
BeginGlobal(d, stack, from) ==
  /\ KindOf(d) \in Variables
  /\ resolved_mapping' = [resolved_mapping EXCEPT ![d] = "pending"]
  /\ Push(d, stack, from)
  /\ UNCHANGED <<function_stack, builder_block, rir>>

(* analyseFunction: the RIR function is declared at once, so that calls can  *)
(* be built as soon as its type is; the builder enters its blocks.           *)
BeginFunction(d, stack, from) ==
  /\ KindOf(d) \in Functions
  /\ resolved_mapping' = [resolved_mapping EXCEPT ![d] = "pending"]
  /\ Push(d, stack, from)
  /\ rir' = Append(rir, [decl |-> d, mod |-> prog.mod[d]])
  /\ function_stack' = Append(function_stack, d)
  /\ builder_block' = IF KindOf(d) = "Function" THEN d ELSE builder_block

(* analyseFunction of a comptime function returns at once: it stays Pending. *)
BeginComptimeFunction(d, stack, from) ==
  /\ KindOf(d) = "ComptimeFunction"
  /\ resolved_mapping' = [resolved_mapping EXCEPT ![d] = "pending"]
  /\ call_stack' = stack
  /\ builder_module' = from
  /\ UNCHANGED <<function_stack, builder_block, rir>>

(* A record type or a namespace is a literal before anything of it is known. *)
BeginScope(d, stack, from) ==
  /\ KindOf(d) \in {"Record", "Namespace"}
  /\ resolved_mapping' = [resolved_mapping EXCEPT ![d] = "literal"]
  /\ Push(d, stack, from)
  /\ UNCHANGED <<function_stack, builder_block, rir>>

BeginAgain(d, stack, from) ==  \* mutant: the mapping is not looked up
  /\ resolved_mapping[d] # "pending"
  /\ \/ BeginGlobal(d, stack, from)
     \/ BeginFunction(d, stack, from)
  /\ UNCHANGED <<error_count, cyclic>>
Begin(d, stack, from) ==
  /\ resolved_mapping[d] = "none"
  /\ \/ BeginGlobal(d, stack, from)
     \/ BeginFunction(d, stack, from)
     \/ BeginComptimeFunction(d, stack, from)
     \/ BeginScope(d, stack, from)
  /\ UNCHANGED <<error_count, cyclic>>

(* analyse(d) for a d that is still Pending: the error is reported and d,    *)
(* not the instruction that asked for it, is poisoned.                       *)
ReportCycle(d, stack, from) ==
  /\ resolved_mapping[d] = "pending"
  /\ resolved_mapping' = [resolved_mapping EXCEPT ![d] = "poison"]
  /\ error_count' = error_count + 1
  /\ cyclic' = cyclic \cup {d}
  /\ call_stack' = stack
  /\ builder_module' = from
  /\ UNCHANGED <<function_stack, builder_block, rir>>

(* analyse(d) for a d that was analysed before.                              *)
AlreadyAnalysed(d, stack, from) ==
  /\ resolved_mapping[d] \in {"poison", "inst", "literal"}
  /\ call_stack' = stack
  /\ builder_module' = from
  /\ UNCHANGED <<resolved_mapping, function_stack, builder_block, rir,
                 error_count, cyclic>>

Analyse(d, stack, from) ==
  \/ Begin(d, stack, from)
  \/ ReportCycle(d, stack, from)
  \/ AlreadyAnalysed(d, stack, from)

-------------------------------------------------------------------------------
(* UIRAnalyser::analyse and analyseScope: the next definition of a module.   *)
VisitRoot ==
  /\ status = "run" /\ call_stack = <<>> /\ next_root <= Len(prog.roots)
  /\ LET d == prog.roots[next_root] IN Analyse(d, <<>>, prog.mod[d])
  /\ next_root' = next_root + 1
  /\ UNCHANGED <<prog, laid_out, status, holes, garbage>>

(* An instruction, or analyseScope, calls analyse for the declaration it     *)
(* needs.                                                                    *)
DemandAnalysis ==
  /\ Busy /\ ~Top.called /\ Request.how \in {"analyse", "visit"}
  /\ Analyse(Request.to, MarkCalled, builder_module)
  /\ UNCHANGED <<prog, laid_out, next_root, status, holes, garbage>>

(* getValue gives functions and namespaces as they are, and analyses what is *)
(* not in the mapping.                                                       *)
Evaluated(d) == KindOf(d) \in Variables \cup {"Record"}

DemandValue ==
  /\ Busy /\ ~Top.called /\ Request.how \in {"value", "layout"}
  /\ Evaluated(Request.to) /\ resolved_mapping[Request.to] = "none"
  /\ Begin(Request.to, MarkCalled, builder_module)
  /\ UNCHANGED <<prog, laid_out, next_root, status, holes, garbage>>

DemandKnownValue ==
  /\ Busy /\ ~Top.called /\ Request.how \in {"value", "layout"}
  /\ ~Evaluated(Request.to) \/ resolved_mapping[Request.to] # "none"
  /\ call_stack' = MarkCalled
  /\ UNCHANGED <<prog, resolved_mapping, laid_out, function_stack,
                 builder_module, builder_block, rir, error_count, next_root,
                 status, cyclic, holes, garbage>>

(* checkResolved after analyse: a poisoned operand poisons the instruction   *)
(* silently, a pending one with an error.  analyseScope checks nothing.      *)
UndecidedIsPoison(d) == resolved_mapping[d] = "poison"  \* mutant
Undecided(d) == resolved_mapping[d] = "pending"

CheckResolved ==
  /\ Busy /\ Top.called /\ Request.how \in {"analyse", "visit"}
  /\ LET d == Request.to
         checked == Request.how = "analyse"
     IN /\ holes' = IF checked /\ resolved_mapping[d] \in {"poison", "pending"}
                      THEN holes \cup {Top.decl} ELSE holes
        /\ IF checked /\ Undecided(d)
             THEN error_count' = error_count + 1 /\ cyclic' = cyclic \cup {d}
             ELSE UNCHANGED <<error_count, cyclic>>
  /\ call_stack' = MoveOn
  /\ UNCHANGED <<prog, resolved_mapping, laid_out, function_stack,
                 builder_module, builder_block, rir, next_root, status, garbage>>

(* getValue after its analysis: the assertion on Pending and Poison.         *)
ValueMissingIfPoison ==  \* mutant: Pending is not asserted on
  Evaluated(Request.to) /\ resolved_mapping[Request.to] = "poison"
ValueMissing ==
  Evaluated(Request.to) /\ resolved_mapping[Request.to] \in {"pending", "poison"}

ReadValue ==
  /\ Busy /\ Top.called /\ Request.how \in {"value", "layout"}
  /\ ~ValueMissing
  /\ garbage' = IF Request.how = "layout" /\ Request.to \notin laid_out
                  THEN garbage \cup {Request.to} ELSE garbage
  /\ call_stack' = MoveOn
  /\ UNCHANGED <<prog, resolved_mapping, laid_out, function_stack,
                 builder_module, builder_block, rir, error_count, next_root,
                 status, cyclic, holes>>

AbortOnValue ==
  /\ Busy /\ Top.called /\ Request.how \in {"value", "layout"}
  /\ ValueMissing
  /\ status' = "aborted"
  /\ UNCHANGED <<prog, resolved_mapping, laid_out, call_stack, function_stack,
                 builder_module, builder_block, rir, error_count, next_root,
                 cyclic, holes, garbage>>

-------------------------------------------------------------------------------
(* All requests of the signature were served: what the declaration is to     *)
(* others becomes known.                                                     *)
SigDone == Running /\ Top.phase = "sig" /\ Top.pc > Len(Agenda)
Faulty(phase) == prog.fault[Top.decl] = phase

Return ==
  /\ call_stack' = SubSeq(call_stack, 1, Depth - 1)
  /\ builder_module' = Top.prev_module

(* analyseGlobal: a type error poisons the variable; otherwise it is emitted *)
(* into the builder's module, or is the literal of an alias.                 *)
ResolveGlobal ==
  /\ SigDone /\ KindOf(Top.decl) \in Variables
  /\ LET d == Top.decl
         result == IF Faulty("sig") THEN "poison"
                   ELSE IF KindOf(d) = "Alias" THEN "literal" ELSE "inst"
     IN /\ resolved_mapping' = [resolved_mapping EXCEPT ![d] = result]
        /\ rir' = IF result = "inst"
                    THEN Append(rir, [decl |-> d, mod |-> builder_module])
                    ELSE rir
        /\ error_count' = error_count + IF result = "poison" THEN 1 ELSE 0
  /\ Return
  /\ UNCHANGED <<prog, laid_out, function_stack, builder_block, next_root,
                 status, cyclic, holes, garbage>>

(* RetType, or the end of computeUndefinedFnType: the type of the function   *)
(* at the back of function_stack is complete.  After a type error in the     *)
(* signature the function stays as it is, and its body is analysed all the   *)
(* same.                                                                     *)
ResolveFunction ==
  /\ SigDone /\ KindOf(Top.decl) \in Functions
  /\ IF Faulty("sig")
       THEN /\ error_count' = error_count + 1
            /\ holes' = holes \cup {Top.decl}
            /\ UNCHANGED resolved_mapping
       ELSE /\ resolved_mapping' =
                 [resolved_mapping EXCEPT ![Last(function_stack)] = "inst"]
            /\ UNCHANGED <<error_count, holes>>
  /\ call_stack' = EnterBody
  /\ UNCHANGED <<prog, laid_out, function_stack, builder_module, builder_block,
                 rir, next_root, status, cyclic, garbage>>

(* computeStructType and the like are done, or abort on a field that is not  *)
(* a type; the definitions follow.                                           *)
ResolveScope ==
  /\ SigDone /\ KindOf(Top.decl) \in {"Record", "Namespace"}
  /\ IF Faulty("sig")
       THEN status' = "aborted" /\ UNCHANGED <<laid_out, call_stack>>
       ELSE /\ laid_out' = laid_out \cup {Top.decl}
            /\ call_stack' = EnterBody
            /\ UNCHANGED status
  /\ UNCHANGED <<prog, resolved_mapping, function_stack, builder_module,
                 builder_block, rir, error_count, next_root, cyclic, holes,
                 garbage>>

(* All requests of the body were served: analyse returns.                    *)
BodyDoneEarly ==  \* mutant: off by one
  Running /\ Top.phase = "body" /\ Top.pc >= Len(Agenda)
BodyDone == Running /\ Top.phase = "body" /\ Top.pc > Len(Agenda)

LeaveBlocksForgetful ==  \* mutant: the builder's block is not restored
  function_stack' = Front(function_stack) /\ UNCHANGED builder_block
LeaveBlocks ==
  function_stack' = Front(function_stack) /\ builder_block' = Top.prev_block

LeaveFunction ==
  /\ BodyDone /\ KindOf(Top.decl) \in Functions
  /\ LeaveBlocks
  /\ IF Faulty("body")
       THEN /\ error_count' = error_count + 1
            /\ holes' = holes \cup {Top.decl}
       ELSE UNCHANGED <<error_count, holes>>
  /\ Return
  /\ UNCHANGED <<prog, resolved_mapping, laid_out, rir, next_root, status,
                 cyclic, garbage>>

LeaveScope ==
  /\ BodyDone /\ KindOf(Top.decl) \in {"Record", "Namespace"}
  /\ Return
  /\ UNCHANGED <<prog, resolved_mapping, laid_out, function_stack,
                 builder_block, rir, error_count, next_root, status, cyclic,
                 holes, garbage>>

(* UIRAnalyser::analyse has visited every module.                            *)
Finish ==
  /\ status = "run" /\ call_stack = <<>> /\ next_root > Len(prog.roots)
  /\ status' = "done"
  /\ UNCHANGED <<prog, resolved_mapping, laid_out, call_stack, function_stack,
                 builder_module, builder_block, rir, error_count, next_root,
                 cyclic, holes, garbage>>

Next ==
  \/ VisitRoot
  \/ DemandAnalysis \/ DemandValue \/ DemandKnownValue
  \/ CheckResolved \/ ReadValue \/ AbortOnValue
  \/ ResolveGlobal \/ ResolveFunction \/ ResolveScope
  \/ LeaveFunction \/ LeaveScope
  \/ Finish

(* The one thread of the compiler keeps running until it returns or aborts.  *)
Spec == Init /\ [][Next]_vars /\ WF_vars(Next)

===============================================================================
