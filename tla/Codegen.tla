------------------------------- MODULE Codegen -------------------------------
(*****************************************************************************)
(* The generated code at work: what codegen (codegen/codegen.cpp,            *)
(* function.cpp) makes of each instruction of the RIR, run on a memory of    *)
(* bytes, next to what the statements mean.                                  *)
(*                                                                           *)
(* A program is a set of variables and of statements, run in any order.  A   *)
(* byte is a part of what was stored; LLVM is external: a value of an LLVM   *)
(* type is its bytes, padding is undefined, and a load or a store is of the  *)
(* bytes that are no padding.                                                *)
(*****************************************************************************)
EXTENDS Lowering, CallingConvention, Storage, TLC

CONSTANTS Jobs,           \* records: the types of the variables, the statements
          MaxStatements   \* a bound on the statements of a run

VARIABLES job, memory, code, values, status, meaning, meant, count
vars == <<job, memory, code, values, status, meaning, meant, count>>

Temporary == "temporary"  \* the alloca of an instruction that needs one

NoByte == [of |-> Undefined, at |-> 0]
Bytes(token, n) == [j \in 0 .. n - 1 |-> [of |-> token, at |-> j]]
PointerTo(object, offset) == Bytes(Ref(object, offset), 8)
Garbage(n) == [j \in 0 .. n - 1 |-> NoByte]
-------------------------------------------------------------------------------
(* The whole of a token that some bytes hold.                                *)
TokenOf(bytes) ==
  IF \A j \in DOMAIN bytes : bytes[j] = [of |-> bytes[0].of, at |-> j] THEN bytes[0].of ELSE Undefined

(* LLVM's load, store and getelementptr (external).                          *)
Inside(pointer, l) ==
  LET token == TokenOf(pointer)
  IN /\ token[1] = "ref"
     /\ \A j \in Accessed(l) : token[3] + j \in DOMAIN memory[token[2]]
Loaded(pointer, l) ==
  LET token == TokenOf(pointer)
  IN [j \in 0 .. AllocBytes(l) - 1 |->
        IF j \in Accessed(l) THEN memory[token[2]][token[3] + j] ELSE NoByte]
Stored(pointer, l, value) ==
  LET token == TokenOf(pointer)
      accessed == Accessed(l)
  IN [memory EXCEPT ![token[2]] =
        [j \in DOMAIN @ |-> IF j - token[3] \in accessed THEN value[j - token[3]] ELSE @[j]]]
GEP(pointer, bytes) ==
  LET token == TokenOf(pointer)
  IN IF token[1] = "ref" THEN PointerTo(token[2], token[3] + bytes) ELSE pointer

(* getReference.                                                             *)
getReference(operand, l) ==
  CASE operand.kind = "local" -> PointerTo(operand.variable, 0)
    [] operand.kind = "constant" -> Bytes(operand.token, AllocBytes(l))
    [] operand.kind = "inst" -> values[operand.n]
Ptr(inst) == getReference(inst.ptr, PtrType)
-------------------------------------------------------------------------------
Init ==
  /\ job \in Jobs
  /\ memory = [x \in DOMAIN job.types |-> Garbage(AllocBytes(typeToLLVM(job.types[x])))]
              @@ Temporary :> Garbage(8)
  /\ meaning = [x \in DOMAIN job.types |-> Uninitialized(job.types[x])]
  /\ code = <<>>
  /\ values = <<>>
  /\ status = "running"
  /\ meant = FALSE
  /\ count = 0

AtRest == Len(values) = Len(code)

(* The program goes on to any statement that is defined there; meant: the    *)
(* statement should trap.                                                    *)
Begin(stmt) ==
  /\ AtRest /\ status = "running" /\ count < MaxStatements
  /\ \E after \in After(meaning, job.types, stmt) :
       /\ meaning' = after.meaning
       /\ meant' = after.trap
  /\ code' = GenAssignment(job.types, stmt)
  /\ values' = <<>>
  /\ count' = count + 1
  /\ UNCHANGED <<job, memory, status>>

(* The instruction that is next, if it is one of these.                      *)
Next1(op) == ~AtRest /\ status = "running" /\ code[Len(values) + 1].op = op
Inst1 == code[Len(values) + 1]

Yield(value) == values' = Append(values, value) /\ UNCHANGED status
End(how) == status' = how /\ UNCHANGED <<values, memory>>
Unchanged == UNCHANGED <<job, code, meaning, meant, count>>

Load ==
  /\ Next1("Load")
  /\ LET pointer == Ptr(Inst1)
         type == typeToLLVM(Inst1.type)
     IN IF Inside(pointer, type)
        THEN Yield(Loaded(pointer, type)) /\ UNCHANGED memory
        ELSE End("outside")
  /\ Unchanged

Store ==
  /\ Next1("Store")
  /\ LET pointer == Ptr(Inst1)
         type == typeToLLVM(Inst1.type)
     IN IF Inside(pointer, type)
        THEN memory' = Stored(pointer, type, getReference(Inst1.value, type)) /\ Yield(<<>>)
        ELSE End("outside")
  /\ Unchanged

(* A field of a struct, a tag, or a part of a slice.  For the pointer of an  *)
(* array there is none, and it is put into memory first.                     *)
FieldAt ==
  /\ Next1("FieldAt")
  /\ IF IsArray(Inst1.type)
     THEN /\ memory' = [memory EXCEPT ![Temporary] = Ptr(Inst1)]
          /\ Yield(PointerTo(Temporary, 0))
     ELSE /\ Yield(GEP(Ptr(Inst1), ElementOffset(typeToLLVM(Inst1.type), Inst1.n)))
          /\ UNCHANGED memory
  /\ Unchanged

(* Where the elements of an array, a slice or a pointer-slice begin, and     *)
(* how many there are, a token; of a pointer-slice nobody knows.  None are   *)
(* found where no pointer can be loaded.                                     *)
Elements(inst) ==
  LET pointer == Ptr(inst)
      l == typeToLLVM(inst.type)
  IN CASE IsArray(inst.type) -> {[at |-> pointer, length |-> Length(inst.type.length)]}
       [] IsSlice(inst.type) ->
            {[at |-> Loaded(pointer, PtrType), length |-> TokenOf(Loaded(length, IntType(NativeSize)))] :
               length \in {p \in {GEP(pointer, ElementOffset(l, 1))} : Inside(pointer, l)}}
       [] OTHER -> {[at |-> Loaded(p, PtrType), length |-> Undefined] :
                      p \in {q \in {pointer} : Inside(q, PtrType)}}
ElementBytes(inst) == AllocBytes(typeToLLVM(inst.type.child))

IndexInBounds(inst, length) == inst.n < length[3]
Index ==
  /\ Next1("Index")
  /\ \/ Elements(Inst1) = {} /\ End("outside")
     \/ \E elements \in Elements(Inst1) :
          IF ~IsPointerSlice(Inst1.type) /\ ~IndexInBounds(Inst1, elements.length)
          THEN End("trapped")
          ELSE Yield(GEP(elements.at, Inst1.n * ElementBytes(Inst1))) /\ UNCHANGED memory
  /\ Unchanged

(* The first and the last element of the range are those of the source.      *)
RangeInBounds(inst, length) ==
  /\ inst.offset < length[3]
  /\ (inst.offset + inst.length - 1) % 2 ^ UsizeBits < length[3]
SliceBytes(pointer, length) ==
  [j \in 0 .. 15 |-> IF j < 8 THEN pointer[j] ELSE [of |-> Length(length), at |-> j - 8]]
Range ==
  /\ Next1("Range")
  /\ \/ Elements(Inst1) = {} /\ End("outside")
     \/ \E elements \in Elements(Inst1) :
          IF ~RangeInBounds(Inst1, elements.length) THEN End("trapped")
          ELSE /\ Yield(SliceBytes(GEP(elements.at, Inst1.offset * ElementBytes(Inst1)), Inst1.length))
               /\ UNCHANGED memory
  /\ Unchanged
-------------------------------------------------------------------------------
(* The data of a union is its only element, or the one behind the tag.       *)
TagType(inst) == IntType(inst.type.repr.bits)
VariantData(inst) ==
  GEP(Ptr(inst), ElementOffset(typeToLLVM(inst.type), IF IsTagged(inst.type) THEN 1 ELSE 0))

TagMatches(inst) ==
  TokenOf(Loaded(Ptr(inst), TagType(inst))) = Tag(inst.n)
GetVariant ==
  /\ Next1("GetVariant")
  /\ IF ~IsTagged(Inst1.type) THEN Yield(VariantData(Inst1)) /\ UNCHANGED memory
     ELSE IF ~Inside(Ptr(Inst1), TagType(Inst1)) THEN End("outside")
     ELSE IF ~TagMatches(Inst1) THEN End("trapped")
     ELSE Yield(VariantData(Inst1)) /\ UNCHANGED memory
  /\ Unchanged

SetVariant ==
  /\ Next1("SetVariant")
  /\ IF ~IsTagged(Inst1.type) THEN Yield(VariantData(Inst1)) /\ UNCHANGED memory
     ELSE IF ~Inside(Ptr(Inst1), TagType(Inst1)) THEN End("outside")
     ELSE /\ memory' = Stored(Ptr(Inst1), TagType(Inst1),
                              Bytes(Tag(Inst1.n), AllocBytes(TagType(Inst1))))
          /\ Yield(VariantData(Inst1))
  /\ Unchanged

(* insertvalue at the index of each value.                                   *)
Aggregate ==
  /\ Next1("Aggregate")
  /\ LET l == typeToLLVM(Inst1.type)
         Field(j) == {i \in DOMAIN l.elems :
                        j - ElementOffset(l, i - 1) \in Accessed(l.elems[i])}
     IN Yield([j \in 0 .. AllocBytes(l) - 1 |->
                 IF Field(j) = {} THEN NoByte
                 ELSE LET i == CHOOSE i \in Field(j) : TRUE
                      IN [of |-> Data(Inst1.values[i]), at |-> j - ElementOffset(l, i - 1)]])
  /\ UNCHANGED memory
  /\ Unchanged
-------------------------------------------------------------------------------
(* BuildABICast.  Between integers it keeps their bytes, as they are of one  *)
(* size, a bool but for the seven bits that it is widened by; to or from a   *)
(* struct it goes through an alloca of the source's size.                    *)
ThroughMemory(from, to) == "struct" \in {from.kind, to.kind}
CastInside(from, to) ==
  ThroughMemory(from, to) => Accessed(to) \subseteq 0 .. AllocBytes(from) - 1
BuildABICast(value, from, to) ==
  IF ~ThroughMemory(from, to) THEN value
  ELSE [j \in 0 .. AllocBytes(to) - 1 |->
          IF j \in Accessed(from) \cap Accessed(to) THEN value[j] ELSE NoByte]

(* An argument on its way into the callee's alloca, and a result back.       *)
PassInside(type) ==
  LET l == typeToLLVM(type)
  IN CastInside(l, Argize(l)) /\ CastInside(Argize(l), l)
Passed(value, type) ==
  LET l == typeToLLVM(type)
  IN BuildABICast(BuildABICast(value, l, Argize(l)), Argize(l), l)
StoredAndLoaded(value, type) ==
  [j \in DOMAIN value |-> IF j \in Accessed(typeToLLVM(type)) THEN value[j] ELSE NoByte]

(* Argument i is in parameter i of the callee, which returns one of them.    *)
Parameter(inst, i) ==
  StoredAndLoaded(Passed(getReference(inst.arguments[i], typeToLLVM(inst.types[i])), inst.types[i]),
                  inst.types[i])
GenCall ==
  /\ Next1("Call")
  /\ IF \E i \in DOMAIN Inst1.types : ~PassInside(Inst1.types[i])
     THEN End("outside")
     ELSE /\ Yield(Passed(Parameter(Inst1, Inst1.result), Inst1.types[Inst1.result]))
          /\ UNCHANGED memory
  /\ Unchanged
-------------------------------------------------------------------------------
Next ==
  \/ \E stmt \in job.statements : Begin(stmt)
  \/ Load \/ Store
  \/ FieldAt \/ Index \/ Range
  \/ GetVariant \/ SetVariant
  \/ Aggregate \/ GenCall

Spec == Init /\ [][Next]_vars
-------------------------------------------------------------------------------
(* Where a leaf of a variable stands in memory, and the type of it.          *)
RECURSIVE LeafAt(_, _)
LeafAt(type, path) ==
  LET l == typeToLLVM(type)
      Down(i, child) == LET leaf == LeafAt(child, Tail(path))
                        IN [leaf EXCEPT !.at = @ + ElementOffset(l, i)]
  IN CASE path = <<>> -> [at |-> 0, type |-> type]
       [] path # <<>> /\ type.kind = "Struct" -> Down(path[1], type.fields[path[1] + 1])
       [] path # <<>> /\ IsArray(type) ->
            LET leaf == LeafAt(type.child, Tail(path))
            IN [leaf EXCEPT !.at = @ + path[1] * AllocBytes(l.elem)]
       [] path # <<>> /\ IsSlice(type) ->
            Down(path[1], IF path[1] = 0 THEN Pointer(type.child) ELSE USize)
       [] path # <<>> /\ type.kind = "Union" ->
            IF path[1] = TagLeaf THEN Down(0, type.repr)
            ELSE Down(IF IsTagged(type) THEN 1 ELSE 0, type.variants[path[1] + 1])

(* The bytes that a leaf should have.                                        *)
Encoded(token, n) ==
  IF token[1] = "ref" /\ IsArray(job.types[token[2]])
  THEN PointerTo(token[2], token[3] * AllocBytes(typeToLLVM(job.types[token[2]].child)))
  ELSE Bytes(token, n)

Holds(x, path) ==
  LET leaf == LeafAt(job.types[x], path)
      l == typeToLLVM(leaf.type)
      token == meaning[x][path]
      bytes == Encoded(token, BitsToBytes(SizeInBits(l)))
  IN \A j \in DOMAIN bytes : memory[x][leaf.at + j] = bytes[j]
KnownBySourceOnly(type, path) ==
  path # <<>> /\ path[Len(path)] = TagLeaf /\ LeafAt(type, path).type = Void
-------------------------------------------------------------------------------
(* Between two statements the bytes of every variable are those that the     *)
(* source says: whatever way a value took, through places, casts, variants,  *)
(* registers and back, it is the one that was assigned, and no other value   *)
(* was overwritten on the way.                                               *)
MemoryMeans ==
  AtRest /\ status = "running" =>
    \A x \in DOMAIN meaning : \A path \in DOMAIN meaning[x] :
      \/ meaning[x][path] = Undefined
      \/ KnownBySourceOnly(job.types[x], path)
      \/ Holds(x, path)

(* The checks that codegen puts before an index, a range and a variant, the  *)
(* "Runtime length check" and the comparison of the tag, stop the program    *)
(* exactly where the source has no such element or variant.  Anywhere else   *)
(* no load, store or copy through the stack touches a byte outside its       *)
(* variable: the sizes that the compiler computes for the types of the jobs  *)
(* are those that LLVM uses.  Arrays of bool and arrays of unions with a tag *)
(* of more than a byte, for which they are not, are in no job's union.       *)
StopsWhenMeant ==
  /\ status # "outside"
  /\ status = "trapped" => meant
  /\ AtRest /\ status = "running" => ~meant

(* The eightbytes of a value, and the scalars that lie in each.  llreg loses *)
(* the eightbyte behind one that is full of floats.                          *)
RegisterList(l) == IF Argize(l).kind = "struct" THEN Argize(l).elems ELSE <<Argize(l)>>
Eightbytes(l) == 0 .. (AllocBytes(l) + 7) \div 8 - 1
ScalarsIn(l, k) == {scalar \in Scalars(l) : ScalarBytes(scalar) \cap (8 * k .. 8 * k + 7) # {}}
OnlyFloats(l, k) == \A scalar \in ScalarsIn(l, k) : scalar.type.kind = "float"
LosesEightbytes(l) ==
  \E k \in Eightbytes(l) :
    /\ k + 1 \in Eightbytes(l) /\ OnlyFloats(l, k)
    /\ \E scalar \in ScalarsIn(l, k) : 8 * k + 7 \in ScalarBytes(scalar)

(* The registers of a value of one or two eightbytes are the ABI's, whatever *)
(* the order in which classify meets its scalars: an eightbyte that holds    *)
(* some part of an integer or of a pointer is in a general register, every   *)
(* other one in a vector register.  Types that lose an eightbyte in llreg    *)
(* are excepted.                                                             *)
RegistersFollowABI ==
  \A x \in DOMAIN job.types :
    LET l == typeToLLVM(job.types[x])
        registers == RegisterList(l)
    IN AllocBytes(l) <= 16 /\ ~LosesEightbytes(l) =>
         /\ Len(registers) = Cardinality(Eightbytes(l))
         /\ \A k \in Eightbytes(l) :
              registers[k + 1].kind \in {"int", "ptr"} <=> ~OnlyFloats(l, k)
===============================================================================
