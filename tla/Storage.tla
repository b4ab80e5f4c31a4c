------------------------------- MODULE Storage -------------------------------
(*****************************************************************************)
(* What the source says of its variables, with no bytes in it.  A variable   *)
(* is a function from the paths of its leaves to what stands there: a path   *)
(* is a list of fields, elements and variants, a union has a leaf that says  *)
(* which variant it holds, and a pointer names a variable or an element of   *)
(* one.  This is the reference for the code that Codegen runs.               *)
(*                                                                           *)
(* Statements assign to a place.  What an uninitialized pointer or union     *)
(* names is not defined, and neither is a statement that asks for it.        *)
(*****************************************************************************)
EXTENDS Layout
LOCAL INSTANCE SequencesExt
LOCAL INSTANCE Functions
LOCAL INSTANCE TLC

Undefined == <<"undefined", "", 0>>
Data(name) == <<"data", name, 0>>
Ref(variable, n) == <<"ref", variable, n>>
Length(n) == <<"length", "", n>>
Tag(n) == <<"tag", "", n>>
TagLeaf == -1

RECURSIVE Leaves(_)
Leaves(type) ==
  CASE type.kind = "Struct" ->
         UNION {{<<i - 1>> \o p : p \in Leaves(type.fields[i])} : i \in DOMAIN type.fields}
    [] IsArray(type) -> {<<i>> \o p : i \in 0 .. type.length - 1, p \in Leaves(type.child)}
    [] IsSlice(type) -> {<<0>>, <<1>>}
    [] type.kind = "Union" -> {<<TagLeaf>>}
    [] OTHER -> {<<>>}
Uninitialized(type) == [p \in Leaves(type) |-> Undefined]
-------------------------------------------------------------------------------
(* Where a place is: a variable and a path in it, with its type.  As what is *)
(* not defined has no place, the operators give sets, of one place or none;  *)
(* a place that is not reached as the way there traps says so.               *)
Trap(r) == {[r EXCEPT !.trap = TRUE]}
Deeper(r, n, type) == {[r EXCEPT !.path = Append(@, n), !.type = type]}

Pointee(types, r, ref, by, type) ==
  LET target == types[ref[2]]
      To(path) == [r EXCEPT !.variable = ref[2], !.path = path, !.type = type]
  IN CASE ref[1] # "ref" -> {}
       [] ref[1] = "ref" /\ IsArray(target) ->
            {To(<<i>>) : i \in {ref[3] + by} \cap 0 .. target.length - 1}
       [] OTHER -> {To(<<>>)}

Direct(meaning, types, r) ==
  IF r.type.kind = "Pointer"
  THEN Pointee(types, r, meaning[r.variable][r.path], 0, r.type.child) ELSE {r}

Element(meaning, types, r, i) ==
  LET leaves == meaning[r.variable]
      child == r.type.child
  IN CASE IsArray(r.type) -> IF i < r.type.length THEN Deeper(r, i, child) ELSE Trap(r)
       [] IsSlice(r.type) ->
            LET length == leaves[Append(r.path, 1)]
            IN IF length[1] = "length" /\ i >= length[3] THEN Trap(r)
               ELSE Pointee(types, r, leaves[Append(r.path, 0)], i, child)
       [] IsPointerSlice(r.type) -> Pointee(types, r, leaves[r.path], i, child)

(* A union without a tag may be read as any scalar of the size of the one it *)
(* holds.                                                                    *)
SameBytes(a, b) ==
  SizeBits(a) = SizeBits(b) /\ {a.kind, b.kind} \subseteq {"Integer", "Float"}
Variant(meaning, r, n, storing) ==
  LET variant(k) == r.type.variants[k + 1]
      tag == meaning[r.variable][Append(r.path, TagLeaf)]
  IN CASE storing \/ tag = Tag(n) -> Deeper(r, n, variant(n))
       [] ~storing /\ tag = Undefined -> {}
       [] OTHER -> IF IsTagged(r.type) THEN Trap(r)
                   ELSE IF SameBytes(variant(n), variant(tag[3]))
                   THEN Deeper(r, tag[3], variant(n)) ELSE {}

Member(meaning, types, r, step, storing) ==
  CASE step.kind = "deref" -> {r}
    [] step.kind = "field" -> Deeper(r, step.n, r.type.fields[step.n + 1])
    [] step.kind = "index" -> Element(meaning, types, r, step.n)
    [] step.kind = "variant" -> Variant(meaning, r, step.n, storing)
    [] step.kind = "tag" -> Deeper(r, TagLeaf, r.type.repr)
    [] step.kind = "ptr" -> Deeper(r, 0, PointerSlice(r.type.child))
    [] step.kind = "len" -> Deeper(r, 1, USize)

(* A pointer is followed before any step.                                    *)
Along(meaning, types, r, step, storing) ==
  IF r.trap THEN {r}
  ELSE UNION {Member(meaning, types, direct, step, storing) : direct \in Direct(meaning, types, r)}

(* Only the last variant of a place that is assigned to is set.              *)
Resolve(meaning, types, place, storing) ==
  LET last == Len(place.path)
  IN FoldLeft(LAMBDA rs, i :
                UNION {Along(meaning, types, r, place.path[i], storing /\ i = last) : r \in rs},
              {[variable |-> place.variable, path |-> <<>>, type |-> types[place.variable],
                trap |-> FALSE]},
              [i \in 1 .. last |-> i])
-------------------------------------------------------------------------------
(* What an expression is, a set of one value or none: its leaves, and        *)
(* whether it traps instead.                                                 *)
Below(leaves, path) == {p \in DOMAIN leaves : IsPrefix(path, p)}
Rest(p, path) == SubSeq(p, Len(path) + 1, Len(p))
Read(meaning, r) ==
  LET leaves == meaning[r.variable]
  IN [p \in {Rest(q, r.path) : q \in Below(leaves, r.path)} |-> leaves[r.path \o p]]

Scalar(token) == {[trap |-> FALSE, leaves |-> <<>> :> token]}

(* A range of a slice that begins at ref; one that is empty or reversed is   *)
(* not defined.                                                              *)
Sliced(ref, length, start, end) ==
  IF start >= end \/ ref = Undefined THEN {}
  ELSE {[trap |-> end > length[3],
         leaves |-> <<0>> :> Ref(ref[2], ref[3] + start) @@ <<1>> :> Length(end - start)]}
SlicedAt(meaning, r, start, end) ==
  CASE r.trap -> {[trap |-> TRUE, leaves |-> <<>>]}
    [] ~r.trap /\ IsArray(r.type) -> Sliced(Ref(r.variable, 0), Length(r.type.length), start, end)
    [] OTHER -> Sliced(meaning[r.variable][Append(r.path, 0)],
                       meaning[r.variable][Append(r.path, 1)], start, end)

Value(meaning, types, expr) ==
  LET At(place) == Resolve(meaning, types, place, FALSE)
      length == types[expr.place.variable].length
  IN CASE expr.kind = "data" -> Scalar(Data(expr.name))
       [] expr.kind = "length" -> Scalar(Length(length))
       [] expr.kind \in {"address", "first"} -> Scalar(Ref(expr.place.variable, 0))
       [] expr.kind = "whole" -> Sliced(Ref(expr.place.variable, 0), Length(length), 0, length)
       [] expr.kind = "read" ->
            {[trap |-> r.trap, leaves |-> Read(meaning, r)] : r \in At(expr.place)}
       [] expr.kind = "slice" ->
            UNION {SlicedAt(meaning, r, expr.start, expr.end) : r \in At(expr.place)}
       [] expr.kind = "call" ->
            LET places == {At(expr.arguments[i]) : i \in DOMAIN expr.arguments}
            IN IF {} \in places THEN {}
               ELSE {[trap |-> \E r \in UNION places : r.trap, leaves |-> Read(meaning, result)] :
                       result \in At(expr.arguments[expr.result])}
       [] expr.kind = "struct" ->
            {[trap |-> FALSE,
              leaves |-> [p \in {<<expr.names[i]>> : i \in DOMAIN expr.names} |->
                            Data(expr.values[CHOOSE i \in DOMAIN expr.names : expr.names[i] = p[1]])]]}

(* What the variables mean after a statement, or that it traps.              *)
Written(meaning, r, set, leaves) ==
  LET union == SubSeq(r.path, 1, Len(r.path) - 1)
      old == meaning[r.variable]
      gone == Below(old, IF set THEN union ELSE r.path)
      tag == IF set THEN Append(union, TagLeaf) :> Tag(r.path[Len(r.path)]) ELSE <<>>
  IN [meaning EXCEPT ![r.variable] =
        [p \in {r.path \o q : q \in DOMAIN leaves} |-> leaves[Rest(p, r.path)]]
        @@ tag @@ Restrict(old, DOMAIN old \ gone)]

SetsVariant(place) == place.path # <<>> /\ place.path[Len(place.path)].kind = "variant"

After(meaning, types, stmt) ==
  {IF value.trap \/ r.trap THEN [trap |-> TRUE, meaning |-> meaning]
   ELSE [trap |-> FALSE, meaning |-> Written(meaning, r, SetsVariant(stmt.to), value.leaves)] :
     value \in Value(meaning, types, stmt.value), r \in Resolve(meaning, types, stmt.to, TRUE)}
===============================================================================
