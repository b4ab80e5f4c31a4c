-------------------------- MODULE AnalyserProperties --------------------------
(* What must hold of the analysis of declarations.                           *)
EXTENDS Analyser

(* A declaration is known once others may use its type and value.            *)
Known == {d \in Decl : resolved_mapping[d] \in {"inst", "literal"}}
Started == {d \in Decl : resolved_mapping[d] # "none"}
Interpreted == {d \in Decl : KindOf(d) = "ComptimeFunction"}
Scopes == {d \in Decl : KindOf(d) \in {"Record", "Namespace"}}

(* The values and types evaluated for the interface of d.                    *)
Needs(d) == {item.to : item \in Range(prog.sig[d])}

(* What must be known before d is: a record is known, as a name, before its  *)
(* fields are, which is what lets a record point to itself.                  *)
NeededFirst(d) == IF d \in Scopes THEN {} ELSE {e \in Needs(d) : Evaluated(e)}

(* e is reachable from d by one or more needs: it is in every set that       *)
(* contains the needs of d and is closed under needs.                        *)
Reaches(d, e) ==
  \A T \in SUBSET Decl :
    Needs(d) \subseteq T /\ (\A x \in T : Needs(x) \subseteq T) => e \in T

-------------------------------------------------------------------------------
(* An instruction is built where it belongs: while analyse works on a        *)
(* declaration, RIRBuilder::module is the module of that declaration,        *)
(* RIRBuilder::block is one of its blocks if it is a function with a body,   *)
(* and the back of function_stack is the function itself, whatever           *)
(* declarations of other modules were analysed, to the end or not, in        *)
(* between.                                                                  *)
BuildContext ==
  Running =>
    /\ builder_module = prog.mod[Top.decl]
    /\ KindOf(Top.decl) = "Function" => builder_block = Top.decl
    /\ KindOf(Top.decl) \in Functions =>
         function_stack # <<>> /\ Last(function_stack) = Top.decl

(* Each declaration is emitted at most once, into its own module, and one    *)
(* that the rest of the program refers to as an instruction was emitted.     *)
EmittedOnce ==
  /\ \A i, j \in DOMAIN rir : rir[i].decl = rir[j].decl => i = j
  /\ \A i \in DOMAIN rir : rir[i].mod = prog.mod[rir[i].decl]
  /\ \A d \in Decl : resolved_mapping[d] = "inst" =>
       \E i \in DOMAIN rir : rir[i].decl = d

(* Nothing is lost without an error: if a declaration was poisoned, or an    *)
(* instruction left out of a function, then error_count is positive (and the *)
(* driver does not go on to the back end).                                   *)
NothingLostSilently ==
  (\E d \in Decl : resolved_mapping[d] = "poison") \/ holes # {}
    => error_count > 0

(* A successful analysis has analysed every definition of every module and   *)
(* scope, knows all of them, and has laid out all records.                   *)
SuccessIsComplete ==
  status = "done" /\ error_count = 0 =>
    /\ \A d \in Range(prog.roots) : d \in Started
    /\ \A s \in Started \cap Scopes : \A item \in Range(prog.body[s]) :
         item.to \in Started
    /\ Started \ Interpreted \subseteq Known
    /\ Started \cap Scopes \subseteq laid_out
    /\ call_stack = <<>> /\ function_stack = <<>> /\ builder_block = NoDecl

(* A program in which the constant of a global depends on itself, through    *)
(* globals only, is never accepted.                                          *)
GlobalCycle ==
  \E T \in SUBSET {d \in Started : KindOf(d) \in Variables} :
    T # {} /\ \A d \in T : Needs(d) \cap T # {}
CyclesRejected == status = "done" /\ error_count = 0 => ~GlobalCycle

(* The analysis of any program, with cycles or not, comes to an end.         *)
Termination == <>(status # "run")

-------------------------------------------------------------------------------
(* The analysis implements its abstract specification: what is known stays   *)
(* known, is known after all it needs, and success means no loss.            *)
R == INSTANCE Resolution WITH
       Declaration <- Decl,
       needs <- [d \in Decl |-> NeededFirst(d)], exempt <- Interpreted,
       started <- Started, known <- Known,
       complained <- (error_count > 0), outcome <- status
ImplementsResolution == R!Resolve

-------------------------------------------------------------------------------
(* The message "Cyclic dependency detected" (analysis.cpp:66, define.hpp:39) *)
(* is only reported of a declaration whose interface depends on itself.      *)
CycleErrorsAreReal == \A d \in cyclic : Reaches(d, d)

(* The fields of a record are read only after "Compute type"                 *)
(* (analysis.cpp:649) is done for it, in a program that is accepted.         *)
FieldsReadAfterLayout == status = "done" /\ error_count = 0 => garbage = {}

===============================================================================
