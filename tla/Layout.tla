-------------------------------- MODULE Layout --------------------------------
(*****************************************************************************)
(* The types of the RIR and how they lie in memory: the sizes that the       *)
(* compiler computes itself (rir/type.cpp), the LLVM types it makes of them  *)
(* (codegen/convert.cpp), and LLVM's own sizes, which are external.          *)
(*                                                                           *)
(* A type is a tree.  A struct that points to itself is none, and           *)
(* typeToLLVM, which converts the pointee of every pointer, does not end on  *)
(* one.  The representation Void, of a union without a tag, has no bits.     *)
(*****************************************************************************)
EXTENDS Integers, Sequences
LOCAL INSTANCE SequencesExt

NativeSize == 64  \* the bits of a pointer, on x86-64

Void == [kind |-> "Void"]
Bool == [kind |-> "Bool"]
Integer(bits) == [kind |-> "Integer", bits |-> bits]
Float(bits) == [kind |-> "Float", bits |-> bits]
USize == Integer(-1)
Pointer(child) == [kind |-> "Pointer", child |-> child]
Array(length, child) == [kind |-> "Slice", length |-> length, child |-> child]
Slice(child) == Array(0, child)
PointerSlice(child) == Array(-1, child)
Struct(fields) == [kind |-> "Struct", fields |-> fields]
Union(repr, variants) == [kind |-> "Union", repr |-> repr, variants |-> variants]

IsArray(type) == type.kind = "Slice" /\ type.length > 0
IsSlice(type) == type.kind = "Slice" /\ type.length = 0
IsPointerSlice(type) == type.kind = "Slice" /\ type.length < 0
IsTagged(type) == type.kind = "Union" /\ type.repr.kind # "Void"

RoundUp(n, modulus) == n + (-n % modulus)
Largest(sizes) == CHOOSE n \in sizes : \A m \in sizes : m <= n
BitsToBytes(bits) == (bits + 7) \div 8
-------------------------------------------------------------------------------
(* RIRType::alignBits and sizeBits.  The modulus is a power of two, so that  *)
(* the negation in size_t rounds like the one in the integers; it is zero    *)
(* for a struct without fields, which is left out.                           *)
RECURSIVE AlignBits(_)
AlignBits(type) ==
  CASE type.kind = "Void" -> 0
    [] type.kind = "Bool" -> 1
    [] type.kind \in {"Integer", "Float"} ->
         IF type.bits = -1 THEN NativeSize ELSE type.bits
    [] IsArray(type) -> AlignBits(type.child)
    [] type.kind \in {"Pointer", "Slice"} -> NativeSize
    [] type.kind = "Struct" -> Largest({0} \cup {AlignBits(f) : f \in Range(type.fields)})
    [] type.kind = "Union" ->
         Largest({AlignBits(type.repr)} \cup {AlignBits(v) : v \in Range(type.variants)})

SizeUnpadded(total, type) == total  \* mutant: the padding before a field is forgotten
SizePadded(total, type) == RoundUp(total, AlignBits(type))

RECURSIVE SizeBits(_)
SizeBits(type) ==
  CASE type.kind = "Void" -> 0
    [] type.kind = "Bool" -> 1
    [] type.kind \in {"Integer", "Float"} ->
         IF type.bits = -1 THEN NativeSize ELSE type.bits
    [] IsArray(type) -> type.length * SizeBits(type.child)
    [] IsSlice(type) -> 2 * NativeSize
    [] type.kind \in {"Pointer", "Slice"} -> NativeSize
    [] type.kind = "Struct" ->
         SizePadded(FoldLeft(LAMBDA total, f : SizePadded(total, f) + SizeBits(f), 0, type.fields),
                    type)
    [] type.kind = "Union" ->
         Largest({0} \cup {SizeBits(v) : v \in Range(type.variants)}) + SizeBits(type.repr)
-------------------------------------------------------------------------------
(* LLVM's types and typeToLLVM.                                              *)
IntType(bits) == [kind |-> "int", bits |-> bits]
FloatType(bits) == [kind |-> "float", bits |-> bits]
PtrType == [kind |-> "ptr", bits |-> NativeSize]
ArrayType(length, elem) == [kind |-> "array", length |-> length, elem |-> elem]
VectorType(length, elem) == [kind |-> "vector", length |-> length, elem |-> elem]
StructType(elems) == [kind |-> "struct", elems |-> elems]

(* The bytes of a union behind its tag.                                      *)
DataBytes(type) == LET bits == SizeBits(type) - SizeBits(type.repr) IN BitsToBytes(bits)

RECURSIVE typeToLLVM(_)
typeToLLVM(type) ==
  CASE type.kind = "Bool" -> IntType(1)
    [] type.kind = "Integer" -> IntType(SizeBits(type))
    [] type.kind = "Float" -> FloatType(type.bits)
    [] IsArray(type) -> ArrayType(type.length, typeToLLVM(type.child))
    [] IsSlice(type) -> StructType(<<PtrType, IntType(NativeSize)>>)
    [] type.kind \in {"Pointer", "Slice"} -> PtrType
    [] type.kind = "Struct" ->
         StructType([i \in DOMAIN type.fields |-> typeToLLVM(type.fields[i])])
    [] type.kind = "Union" ->
         LET data == ArrayType(DataBytes(type), IntType(8))
         IN StructType(IF IsTagged(type) THEN <<IntType(type.repr.bits), data>> ELSE <<data>>)
-------------------------------------------------------------------------------
(* LLVM's data layout for x86-64 (external).                                 *)
IsScalar(l) == l.kind \in {"int", "float", "ptr"}

RECURSIVE ABIAlignment(_)
ABIAlignment(l) ==
  CASE l.kind = "int" -> Largest({1} \cup {n \in {2, 4, 8} : n < 2 * BitsToBytes(l.bits)})
    [] l.kind \in {"float", "ptr"} -> BitsToBytes(l.bits)
    [] l.kind = "array" -> ABIAlignment(l.elem)
    [] l.kind = "vector" -> l.length * ABIAlignment(l.elem)
    [] l.kind = "struct" -> Largest({1} \cup {ABIAlignment(e) : e \in Range(l.elems)})

RECURSIVE SizeInBits(_)
AllocBytes(l) == LET bytes == BitsToBytes(SizeInBits(l)) IN RoundUp(bytes, ABIAlignment(l))
ElementEnd(at, l) == RoundUp(at, ABIAlignment(l)) + AllocBytes(l)
SizeInBits(l) ==
  CASE IsScalar(l) -> l.bits
    [] l.kind = "array" -> 8 * l.length * AllocBytes(l.elem)
    [] l.kind = "vector" -> l.length * l.elem.bits
    [] l.kind = "struct" -> 8 * RoundUp(FoldLeft(ElementEnd, 0, l.elems), ABIAlignment(l))

ElementOffset(l, i) ==
  LET end == FoldLeft(ElementEnd, 0, SubSeq(l.elems, 1, i))
  IN RoundUp(end, ABIAlignment(l.elems[i + 1]))

(* The scalars of a type, each at its offset, and the bytes that a load or   *)
(* a store of the type reads or writes: all but the padding.                 *)
RECURSIVE Scalars(_)
Moved(scalars, by) == {[scalar EXCEPT !.at = @ + by] : scalar \in scalars}
Scalars(l) ==
  CASE IsScalar(l) -> {[at |-> 0, type |-> l]}
    [] l.kind \in {"array", "vector"} ->
         UNION {Moved(Scalars(l.elem), i * AllocBytes(l.elem)) : i \in 0 .. l.length - 1}
    [] l.kind = "struct" ->
         UNION {Moved(Scalars(l.elems[i]), ElementOffset(l, i - 1)) : i \in DOMAIN l.elems}
ScalarBytes(scalar) == scalar.at .. scalar.at + BitsToBytes(scalar.type.bits) - 1
Accessed(l) == UNION {ScalarBytes(scalar) : scalar \in Scalars(l)}
===============================================================================
