-------------------------- MODULE CallingConvention --------------------------
(*****************************************************************************)
(* codegen/abi: in which registers the values of an LLVM type travel to and  *)
(* from functions on x86-64 System V.                                        *)
(*                                                                           *)
(* A value is the classes of its eightbytes, numbered from 0 as its bytes    *)
(* are.  No type of the RIR becomes a vector or an x87 float, and no count   *)
(* of free registers is passed to argize: what it does then is left out, and *)
(* with it every way to pass a value in memory.  Integers have at most 64    *)
(* bits.                                                                     *)
(*****************************************************************************)
EXTENDS Layout, FiniteSets
LOCAL INSTANCE SequencesExt

VectorClasses == {"SSEHalf", "SSEFloat", "SSEDouble"}

UnifyLast(old, new) == IF new = "NO_CLASS" THEN old ELSE new  \* mutant: the last class wins
Unify(old, new) ==
  CASE new = "NO_CLASS" -> old
    [] old = "NO_CLASS" -> new
    [] "Integer" \in {old, new} -> "Integer"
    [] new = "SSEUP" -> old
    [] OTHER -> new

FloatClass(bits, off) ==
  CASE bits = 16 -> IF off % 8 # 0 THEN "SSEHalf" ELSE "SSEHalfScalar"
    [] bits = 32 -> IF off % 8 = 4 THEN "SSEFloat" ELSE "SSEFloatScalar"
    [] OTHER -> "SSEDouble"

Unified(classes, i, class) == [classes EXCEPT ![i] = Unify(@, class)]

RECURSIVE Classify(_, _, _)
ClassifyElements(classes, l, off) ==
  FoldLeft(LAMBDA sofar, i : Classify(sofar, l.elem, off + i * BitsToBytes(SizeInBits(l.elem))),
           classes, [i \in 1 .. l.length |-> i - 1])
ClassifyFields(classes, l, off) ==
  FoldLeft(LAMBDA sofar, elem :
             LET at == RoundUp(sofar.off, ABIAlignment(elem))
             IN [off |-> at + BitsToBytes(SizeInBits(elem)),
                 classes |-> Classify(sofar.classes, elem, at)],
           [off |-> off, classes |-> classes], l.elems).classes
Classify(classes, l, off) ==
  CASE l.kind = "int" ->
         FoldLeft(LAMBDA sofar, i : Unified(sofar, off \div 8 + i, "Integer"), classes,
                  [i \in 1 .. (BitsToBytes(l.bits) + 7) \div 8 |-> i - 1])
    [] l.kind = "ptr" -> Unified(classes, off \div 8, "Integer")
    [] l.kind = "float" /\ l.bits = 128 ->
         Unified(Unified(classes, off \div 8, "SSEDouble"), off \div 8 + 1, "SSEUP")
    [] l.kind = "float" -> Unified(classes, off \div 8, FloatClass(l.bits, off))
    [] l.kind = "array" -> ClassifyElements(classes, l, off)
    [] l.kind = "struct" -> ClassifyFields(classes, l, off)

Classes(l) ==
  Classify([i \in 0 .. (SizeInBits(l) + 63) \div 64 - 1 |-> "NO_CLASS"], l, 0)
-------------------------------------------------------------------------------
CountSSE(classes, i) ==
  Largest({n \in 0 .. Cardinality(DOMAIN classes) :
             \A k \in i .. i + n - 1 : k \in DOMAIN classes /\ classes[k] = "SSEUP"})

VectorElement(class) ==
  CASE class = "SSEHalf" -> FloatType(16)
    [] class = "SSEFloat" -> FloatType(32)
    [] class = "SSEDouble" -> FloatType(64)
WordsPerElement(class) == 64 \div VectorElement(class).bits

(* The loop of llreg from eightbyte i on, with size bytes left.  After a     *)
(* vector it moves on by one eightbyte too many.                             *)
RECURSIVE Registers(_, _, _)
Registers(classes, i, size) ==
  IF i \notin DOMAIN classes THEN <<>>
  ELSE CASE classes[i] = "Integer" ->
              LET bytes == IF size >= 8 THEN 8 ELSE size
              IN <<IntType(8 * bytes)>> \o Registers(classes, i + 1, size - bytes)
         [] classes[i] \in VectorClasses ->
              LET vec_len == CountSSE(classes, i + 1) + 1
                  words == vec_len * WordsPerElement(classes[i])
                  elem == VectorElement(classes[i])
              IN <<IF words = 1 THEN elem ELSE VectorType(words, elem)>>
                 \o Registers(classes, i + vec_len + 1, size - words)
         [] classes[i] = "SSEHalfScalar" -> <<FloatType(16)>> \o Registers(classes, i + 1, size)
         [] classes[i] = "SSEFloatScalar" -> <<FloatType(32)>> \o Registers(classes, i + 1, size)
         [] OTHER -> Registers(classes, i + 1, size)

(* A struct of as many registers as there are eightbytes; where some were    *)
(* lost its last elements are not initialized: such types are not passed.    *)
llreg(classes, l) ==
  LET types == Registers(classes, 0, BitsToBytes(SizeInBits(l)))
  IN IF Len(types) = 1 THEN types[1] ELSE StructType(types)

IsRegister(l) == l.kind \in {"float", "ptr"} /\ l.bits # 128

Argize(l) == IF IsRegister(l) THEN l ELSE llreg(Classes(l), l)
===============================================================================
