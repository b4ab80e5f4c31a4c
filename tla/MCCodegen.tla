------------------------------ MODULE MCCodegen ------------------------------
(*****************************************************************************)
(* Codegen on small programs: for each kind of type its variables, and the   *)
(* statements that move values of it in every way there is.                  *)
(*****************************************************************************)
EXTENDS Codegen

Step(kind, n) == [kind |-> kind, n |-> n]
F(n) == Step("field", n)
I(n) == Step("index", n)
V(n) == Step("variant", n)
Deref == Step("deref", 0)
At(variable, path) == [variable |-> variable, path |-> path]
Assign(to, value) == [to |-> to, value |-> value]

DataOf(name) == [kind |-> "data", name |-> name]
ReadOf(place) == [kind |-> "read", place |-> place]
AddressOf(variable) == [kind |-> "address", place |-> At(variable, <<>>)]
SliceOf(place, start, end) == [kind |-> "slice", place |-> place, start |-> start, end |-> end]
CallOf(arguments, result) == [kind |-> "call", arguments |-> arguments, result |-> result]

I8 == Integer(8)
I16 == Integer(16)
I32 == Integer(32)
I64 == Integer(64)
F32 == Float(32)
F64 == Float(64)
-------------------------------------------------------------------------------
(* Values that travel whole: every leaf of x is set by itself, x and y are   *)
(* copied and swapped, and go through calls together.                        *)
RECURSIVE Way(_, _)
Way(type, leaf) ==
  IF leaf = <<>> THEN <<>>
  ELSE CASE type.kind = "Struct" -> <<F(leaf[1])>> \o Way(type.fields[leaf[1] + 1], Tail(leaf))
         [] IsArray(type) -> <<I(leaf[1])>> \o Way(type.child, Tail(leaf))
         [] IsSlice(type) -> <<Step(IF leaf[1] = 0 THEN "ptr" ELSE "len", 0)>>

X == At("x", <<>>)
Y == At("y", <<>>)
Moves == {Assign(Y, ReadOf(X)),
          Assign(X, CallOf(<<Y, X>>, 1)),
          Assign(Y, CallOf(<<Y, X>>, 2))}
Travel(type, statements) == [types |-> [v \in {"x", "y"} |-> type], statements |-> Moves \cup statements]

EveryLeaf(type) ==
  Travel(type, {Assign(At("x", Way(type, leaf)), DataOf(ToString(leaf))) : leaf \in Leaves(type)})

(* An initializer, its fields in the order they are declared and reversed.   *)
Initialized(type) ==
  LET n == Len(type.fields)
      In(names) == [kind |-> "struct", names |-> names, values |-> SubSeq(<<"a", "b", "c">>, 1, n)]
  IN Travel(type, {Assign(X, In([i \in 1 .. n |-> i - 1])), Assign(X, In([i \in 1 .. n |-> n - i]))})

Structs == {Struct(<<I8, I32>>), Struct(<<I64, F64>>), Struct(<<I64, I8>>),
            Struct(<<I32, F32, F32>>), Struct(<<F32, F32>>), Struct(<<F32, I32>>),
            Struct(<<I8, I8, I8>>), Struct(<<I64, I64, I64>>), Struct(<<I16, I8, I32>>),
            Struct(<<I64, Pointer(I8)>>)}
Nested == {Struct(<<Struct(<<I8, I16>>), I8>>), Struct(<<I8, Array(2, I16)>>),
           Struct(<<I8, Slice(I8)>>), Struct(<<Bool, I8>>), Array(2, I64), I32, F64}
-------------------------------------------------------------------------------
(* Unions: each variant set, read back and copied.                           *)
Sets(type, ns) == {Assign(At("x", <<V(n)>>), DataOf(ToString(n))) : n \in ns}
Gets(out, ns) == {Assign(At(out, <<>>), ReadOf(At("x", <<V(n)>>))) : n \in ns}

TaggedScalars ==
  LET type == Union(I8, <<I8, I8>>)
  IN [types |-> [v \in {"x", "y", "out"} |-> IF v = "out" THEN I8 ELSE type],
      statements |-> Moves \cup Sets(type, {0, 1}) \cup Gets("out", {0, 1})
                     \cup {Assign(At("out", <<>>), ReadOf(At("y", <<V(1)>>))),
                           Assign(At("out", <<>>), ReadOf(At("y", <<Step("tag", 0)>>)))}]

(* A variant that is a struct, with padding; one of its fields is set only   *)
(* where the variant is held.                                                *)
TaggedStruct ==
  LET pair == Struct(<<I8, I16>>)
      type == Union(I8, <<I8, pair>>)
  IN [types |-> [v \in {"x", "y", "out", "pair"} |->
                   CASE v = "out" -> I8 [] v = "pair" -> pair [] OTHER -> type],
      statements |-> {Assign(At("pair", <<F(1)>>), DataOf("b")),
                      Assign(At("x", <<V(1)>>), ReadOf(At("pair", <<>>))),
                      Assign(At("x", <<V(1), F(1)>>), DataOf("a")),
                      Assign(At("x", <<V(0)>>), DataOf("a")),
                      Assign(Y, ReadOf(X)),
                      Assign(At("pair", <<>>), ReadOf(At("y", <<V(1)>>)))}]

RawInStruct ==
  LET type == Struct(<<I32, Union(Void, <<F32, I32>>), I32>>)
  IN [types |-> [v \in {"x", "y", "out"} |-> IF v = "out" THEN I32 ELSE type],
      statements |-> Moves \cup
                     {Assign(At("x", <<F(1), V(n)>>), DataOf(ToString(n))) : n \in {0, 1}} \cup
                     {Assign(At("x", <<F(n)>>), DataOf("b")) : n \in {0, 2}} \cup
                     {Assign(At("out", <<>>), ReadOf(At("y", <<F(1), V(1)>>)))}]
-------------------------------------------------------------------------------
(* Arrays and slices, with indices and ranges up to one beyond the end.      *)
Slices ==
  [types |-> [v \in {"array", "x", "y", "out", "p", "n"} |->
                CASE v = "array" -> Array(3, I16)
                  [] v \in {"x", "y"} -> Slice(I16)
                  [] v = "out" -> I16
                  [] v = "p" -> PointerSlice(I16)
                  [] v = "n" -> USize],
   statements |->
     {Assign(At("array", <<I(n)>>), DataOf(ToString(n))) : n \in {0, 2, 3}} \cup
     {Assign(X, SliceOf(At("array", <<>>), range[1], range[2])) :
        range \in {<<0, 2>>, <<1, 3>>, <<2, 4>>}} \cup
     {Assign(Y, SliceOf(X, range[1], range[2])) : range \in {<<0, 1>>, <<1, 2>>, <<1, 3>>}} \cup
     {Assign(X, [kind |-> "whole", place |-> At("array", <<>>)]),
      Assign(X, CallOf(<<Y, X>>, 1)),
      Assign(At("x", <<I(1)>>), DataOf("b")),
      Assign(At("out", <<>>), ReadOf(At("y", <<I(0)>>))),
      Assign(At("out", <<>>), ReadOf(At("x", <<I(2)>>))),
      Assign(At("n", <<>>), ReadOf(At("y", <<Step("len", 0)>>))),
      Assign(At("n", <<>>), [kind |-> "length", place |-> At("array", <<>>)]),
      Assign(At("p", <<>>), ReadOf(At("x", <<Step("ptr", 0)>>))),
      Assign(At("p", <<>>), [kind |-> "first", place |-> At("array", <<Step("ptr", 0)>>)]),
      Assign(At("p", <<I(1)>>), DataOf("b"))}]

(* Pointers: a variable by its name and by its address.                      *)
Pointers ==
  LET type == Struct(<<I8, I32>>)
  IN [types |-> [v \in {"x", "y", "p", "q"} |->
                   CASE v \in {"x", "y"} -> type
                     [] v = "p" -> Pointer(type) [] v = "q" -> Pointer(type)],
      statements |-> {Assign(At("p", <<>>), AddressOf("x")),
                      Assign(At("p", <<>>), AddressOf("y")),
                      Assign(At("q", <<>>), ReadOf(At("p", <<>>))),
                      Assign(At("q", <<>>), CallOf(<<At("p", <<>>), X>>, 1)),
                      Assign(At("p", <<F(1)>>), DataOf("a")),
                      Assign(At("q", <<Deref, F(0)>>), DataOf("b")),
                      Assign(At("q", <<Deref>>), ReadOf(At("p", <<Deref>>))),
                      Assign(X, CallOf(<<Y, At("p", <<Deref>>)>>, 2))}]

(* An array of structs, seen through a slice.                                *)
Records ==
  LET type == Struct(<<I8, I16>>)
  IN [types |-> [v \in {"array", "x", "one"} |->
                   CASE v = "array" -> Array(2, type) [] v = "x" -> Slice(type) [] v = "one" -> type],
      statements |-> {Assign(At("array", <<I(1), F(1)>>), DataOf("a")),
                      Assign(X, SliceOf(At("array", <<>>), 1, 2)),
                      Assign(At("x", <<I(0), F(0)>>), DataOf("b")),
                      Assign(At("one", <<>>), ReadOf(At("x", <<I(0)>>))),
                      Assign(At("x", <<I(1)>>), ReadOf(At("one", <<>>)))}]
-------------------------------------------------------------------------------
MCJobs ==
  {EveryLeaf(type) : type \in Structs \cup Nested} \cup
  {Initialized(type) : type \in {t \in Structs : \A i \in DOMAIN t.fields : t.fields[i].kind # "Pointer"}} \cup
  {TaggedScalars, TaggedStruct, RawInStruct, Slices, Pointers, Records}
===============================================================================
