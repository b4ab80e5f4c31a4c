------------------------------- MODULE Lowering -------------------------------
(*****************************************************************************)
(* From a statement to the instructions of the RIR: uirgen's walk over the   *)
(* places of an assignment (uirgen/operator.cpp, uirgen.cpp), and what the   *)
(* analysis builds for each step (analysis.cpp, lookup.cpp, call.cpp).       *)
(*                                                                           *)
(* Code is a sequence of instructions; an operand is a local variable, a     *)
(* constant, or the number of an earlier instruction.  Types are right, as   *)
(* the analysis makes sure.                                                  *)
(*****************************************************************************)
EXTENDS Layout
LOCAL INSTANCE SequencesExt

CONSTANT UsizeBits  \* the width of usize in the arithmetic on lengths

Local(variable) == [kind |-> "local", variable |-> variable]
Constant(token) == [kind |-> "constant", token |-> token]
Inst(n) == [kind |-> "inst", n |-> n]

(* Code so far, the operand that the last step left, and its type: of a      *)
(* place, what the pointer points to.                                        *)
Build(sofar, inst, type) ==
  [code |-> Append(sofar.code, inst), at |-> Inst(Len(sofar.code) + 1), type |-> type]
Pointing(op, sofar, n) == [op |-> op, ptr |-> sofar.at, n |-> n, type |-> sofar.type]
-------------------------------------------------------------------------------
AnalyseLoad(sofar) == Build(sofar, Pointing("Load", sofar, 0), sofar.type)

AnalyseIndex(sofar, n) == Build(sofar, Pointing("Index", sofar, n), sofar.type.child)

(* The length of a range is computed in usize, without a check.              *)
RangeInstruction(sofar, start, length) ==
  [op |-> "Range", ptr |-> sofar.at, offset |-> start, length |-> length % 2 ^ UsizeBits,
   type |-> sofar.type]
AnalyseRange(sofar, start, end) ==
  Build(sofar, RangeInstruction(sofar, start, end - start), Slice(sofar.type.child))

(* A cast of a pointer to an array to a slice.                               *)
AnalyseCast(sofar) ==
  Build(sofar, RangeInstruction(sofar, 0, sofar.type.length), Slice(sofar.type.child))

(* A member of what a pointer, or a pointer to a pointer, points to.         *)
VariantAccess(sofar, step, precedes_store) ==
  IF precedes_store THEN "SetVariant" ELSE "GetVariant"
AnalyseLookup(sofar, step, precedes_store) ==
  LET direct == IF sofar.type.kind = "Pointer"
                THEN [AnalyseLoad(sofar) EXCEPT !.type = sofar.type.child] ELSE sofar
      type == direct.type
  IN CASE step.kind = "field" ->
            Build(direct, Pointing("FieldAt", direct, step.n), type.fields[step.n + 1])
       [] step.kind = "variant" ->
            Build(direct, Pointing(VariantAccess(sofar, step, precedes_store), direct, step.n),
                  type.variants[step.n + 1])
       [] step.kind = "tag" -> Build(direct, Pointing("FieldAt", direct, 0), type.repr)
       [] step.kind = "ptr" -> Build(direct, Pointing("FieldAt", direct, 0), PointerSlice(type.child))
       [] step.kind = "len" -> Build(direct, Pointing("FieldAt", direct, 1), USize)

(* addr: a member, an element, or a dereference after the other.             *)
AddrStep(sofar, step, precedes_store) ==
  CASE step.kind = "index" -> AnalyseIndex(sofar, step.n)
    [] step.kind = "deref" -> [AnalyseLoad(sofar) EXCEPT !.type = sofar.type.child]
    [] OTHER -> AnalyseLookup(sofar, step, precedes_store)

(* Only the outermost lookup of an assigned place precedes the store.        *)
Addr(code, types, place, store) ==
  FoldLeft(LAMBDA sofar, i : AddrStep(sofar, place.path[i], store /\ i = Len(place.path)),
           [code |-> code, at |-> Local(place.variable), type |-> types[place.variable]],
           [i \in DOMAIN place.path |-> i])
-------------------------------------------------------------------------------
(* The arguments of a call, in their order, and the call.                    *)
AnalyseCall(types, expr) ==
  LET loaded == FoldLeft(LAMBDA done, place :
                           LET value == AnalyseLoad(Addr(done.code, types, place, FALSE))
                           IN [code |-> value.code, arguments |-> Append(done.arguments, value)],
                         [code |-> <<>>, arguments |-> <<>>], expr.arguments)
      call == [op |-> "Call", result |-> expr.result,
               arguments |-> [i \in DOMAIN loaded.arguments |-> loaded.arguments[i].at],
               types |-> [i \in DOMAIN loaded.arguments |-> loaded.arguments[i].type]]
  IN [code |-> Append(loaded.code, call), at |-> Inst(Len(loaded.code) + 1),
      type |-> call.types[expr.result]]

(* The values of an initializer, put in the order of the fields.             *)
getFieldIndexAsWritten(names, field) == field + 1  \* mutant: the order of the initializer
getFieldIndex(names, field) == CHOOSE i \in DOMAIN names : names[i] = field
AnalyseAggregate(type, expr) ==
  [code |-> <<[op |-> "Aggregate", type |-> type,
               values |-> [i \in DOMAIN expr.names |-> expr.values[getFieldIndex(expr.names, i - 1)]]]>>,
   at |-> Inst(1), type |-> type]

Gen(types, expr, type) ==
  LET At(place) == Addr(<<>>, types, place, FALSE)
      Only(operand) == [code |-> <<>>, at |-> operand, type |-> type]
  IN CASE expr.kind = "data" -> Only(Constant(<<"data", expr.name, 0>>))
       [] expr.kind = "length" -> Only(Constant(<<"length", "", types[expr.place.variable].length>>))
       [] expr.kind \in {"read", "first"} -> AnalyseLoad(At(expr.place))
       [] expr.kind = "address" -> At(expr.place)
       [] expr.kind = "whole" -> AnalyseCast(At(expr.place))
       [] expr.kind = "slice" -> AnalyseRange(At(expr.place), expr.start, expr.end)
       [] expr.kind = "call" -> AnalyseCall(types, expr)
       [] expr.kind = "struct" -> AnalyseAggregate(type, expr)

(* genAssignment: the value, the place, and the store.                       *)
GenAssignment(types, stmt) ==
  LET value == Gen(types, stmt.value, types[stmt.to.variable])
      place == Addr(value.code, types, stmt.to, TRUE)
  IN Append(place.code, [op |-> "Store", ptr |-> place.at, value |-> value.at, type |-> place.type])
===============================================================================
