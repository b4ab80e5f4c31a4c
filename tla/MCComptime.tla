------------------------------- MODULE MCComptime -------------------------------
(*****************************************************************************)
(* Programs as uirgen makes them, with the types of parameters and locals as *)
(* comptime blocks, evaluated with up to three frames on call_stack, which   *)
(* has memory for five: the smallest of them fit, the deepest do not.        *)
(*****************************************************************************)
EXTENDS Evaluation

I(op, args, value, to) == [op |-> op, args |-> args, value |-> value, to |-> to]
Lit(value) == I("literal", <<>>, value, <<>>)
One(op, x) == I(op, <<x>>, Void, <<>>)
Two(op, x, y) == I(op, <<x, y>>, Void, <<>>)
Ret(x) == One("return", x)
Block(block) == I("comptime", <<>>, Void, <<block>>)
CallOf(block, args) == I("call", args, Void, <<block>>)
Br(block) == I("br", <<>>, Void, <<block>>)
If(x, then, else) == I("condbr", <<x>>, Void, <<then, else>>)
RetTy == I("rettype", <<>>, Void, <<>>)
TypeBlock(b) == <<Lit(Type), Ret(<<b, 1>>)>>
P(globals, blocks) == [globals |-> globals, blocks |-> blocks]

(* comptime f(x, y) with f :: fn(a, b) { return a op b }                      *)
Apply(op, x, y, n) ==
  P(<<1>>,
    << <<Lit(x), Lit(y), CallOf(2, SubSeq(<< <<1, 1>>, <<1, 2>> >>, 1, n)), Ret(<<1, 3>>)>>,
       <<Block(3), One("arg", <<2, 1>>), Block(3), One("arg", <<2, 3>>), Block(3), RetTy,
         One("load", <<2, 2>>), One("load", <<2, 4>>), Two(op, <<2, 7>>, <<2, 8>>), Ret(<<2, 9>>)>>,
       TypeBlock(3) >>)

(* f :: fn(n) { if n < 1 { return 0 } return f(n - 1) + 2 }                   *)
Recursion(n) ==
  P(<<1>>,
    << <<Lit(Number(n)), CallOf(2, << <<1, 1>> >>), Ret(<<1, 2>>)>>,
       <<Block(3), One("arg", <<2, 1>>), RetTy, One("load", <<2, 2>>), Lit(Number(1)),
         Two("less", <<2, 4>>, <<2, 5>>), If(<<2, 6>>, 4, 5)>>,
       TypeBlock(3),
       <<Lit(Number(0)), Ret(<<4, 1>>)>>,
       <<One("load", <<2, 2>>), Lit(Number(1)), Two("sub", <<5, 1>>, <<5, 2>>),
         CallOf(2, << <<5, 3>> >>), Lit(Number(2)), Two("add", <<5, 4>>, <<5, 5>>), Ret(<<5, 6>>)>> >>)

(* The sum of i for i < n; with a local of the loop's body, or without.       *)
Loop(n, local) ==
  P(<<1>>,
    << <<CallOf(2, <<>>), Ret(<<1, 1>>)>>,
       <<RetTy, Lit(Number(0)), One("typeof", <<2, 2>>), Two("local", <<2, 3>>, <<2, 2>>),
         Block(3), One("local", <<2, 5>>), Br(4)>>,
       TypeBlock(3),
       <<One("load", <<2, 4>>), Lit(Number(n)), Two("less", <<4, 1>>, <<4, 2>>), If(<<4, 3>>, 5, 6)>>,
       <<One("load", <<2, 4>>), One("typeof", <<5, 1>>),
         IF local THEN Two("local", <<5, 2>>, <<5, 1>>) ELSE Lit(Number(0)),
         One("load", IF local THEN <<5, 3>> ELSE <<2, 4>>), One("load", <<2, 6>>),
         Two("add", <<5, 5>>, <<5, 4>>), Two("store", <<2, 6>>, <<5, 6>>),
         Lit(Number(1)), Two("add", <<5, 1>>, <<5, 8>>), Two("store", <<2, 4>>, <<5, 9>>), Br(4)>>,
       <<One("load", <<2, 6>>), Ret(<<6, 1>>)>> >>)

(* a :: b + c; b :: comptime (c + 1); c :: the constant code                  *)
GlobalsOf(code) ==
  P(<<1, 2, 4>>,
    << <<One("load", <<0, 2>>), One("load", <<0, 3>>), Two("add", <<1, 1>>, <<1, 2>>), Ret(<<1, 3>>)>>,
       <<Lit(Number(1)), Block(3), Two("add", <<2, 1>>, <<2, 2>>), Ret(<<2, 3>>)>>,
       <<One("load", <<0, 3>>), Two("add", <<3, 1>>, <<2, 1>>), Ret(<<3, 2>>)>>,
       code >>)
Constants == { <<Lit(Number(2)), Ret(<<4, 1>>)>>, <<One("load", <<0, 2>>), Ret(<<4, 1>>)>> }

(* comptime (1 + comptime (2 + outer)), blocks in blocks.                     *)
Nested ==
  P(<<1>>,
    << <<Lit(Number(1)), Block(2), Two("add", <<1, 1>>, <<1, 2>>), Ret(<<1, 3>>)>>,
       <<Lit(Number(2)), Block(3), Two("add", <<1, 1>>, <<2, 2>>), Ret(<<2, 3>>)>>,
       <<Two("sub", <<1, 1>>, <<2, 1>>), Ret(<<3, 1>>)>> >>)

(* comptime f() with f :: fn() { return }                                     *)
Procedure ==
  P(<<1>>, << <<CallOf(2, <<>>), Ret(<<1, 1>>)>>, <<RetTy, I("return", <<>>, Void, <<>>)>> >>)

(* The caller loads from the pointer to a local that the callee returns.      *)
Escape ==
  P(<<1>>,
    << <<CallOf(2, <<>>), One("load", <<1, 1>>), Ret(<<1, 2>>)>>,
       <<RetTy, Block(3), One("local", <<2, 2>>), Ret(<<2, 3>>)>>,
       TypeBlock(3) >>)

(* { return 1; } return 2                                                     *)
ReturnInBlock ==
  P(<<1>>,
    << <<CallOf(2, <<>>), Ret(<<1, 1>>)>>,
       <<RetTy, Br(3)>>, <<Lit(Number(1)), Ret(<<3, 1>>), Br(4)>>,
       <<Lit(Number(2)), Ret(<<4, 1>>)>> >>)

(* if x { return 1 } return 2, and x = 1 for a global x or a literal.         *)
Choose(x) ==
  P(<<1>>, << <<Lit(x), If(<<1, 1>>, 2, 3)>>,
              <<Lit(Number(1)), Ret(<<2, 1>>)>>, <<Lit(Number(2)), Ret(<<3, 1>>)>> >>)

(* x = 1 for a global x; x.* = 3 for a literal x, and for a variable x := 1.  *)
AssignGlobal ==
  P(<<1, 2>>, << <<Lit(Number(1)), Two("store", <<0, 2>>, <<1, 1>>), Ret(<<1, 1>>)>>,
                 <<Lit(Number(3)), Ret(<<2, 1>>)>> >>)
StoreThrough(x) ==
  P(<<1>>, << <<Lit(x), Lit(Number(3)), Two("store", <<1, 1>>, <<1, 2>>), Ret(<<1, 2>>)>> >>)
StoreThroughVariable ==
  P(<<1>>, << <<Lit(Number(1)), One("typeof", <<1, 1>>), Two("local", <<1, 2>>, <<1, 1>>),
                One("load", <<1, 3>>), Lit(Number(3)), Two("store", <<1, 4>>, <<1, 5>>),
                Ret(<<1, 5>>)>> >>)

Literals == {Number(1), Number(2), Bool(TRUE)}
Programs ==
  {Apply(op, x, y, n) : op \in Binary, x \in Literals, y \in Literals, n \in 1 .. 2}
  \cup {Recursion(n) : n \in 0 .. 4} \cup {Loop(n, local) : n \in 0 .. 3, local \in BOOLEAN}
  \cup {GlobalsOf(code) : code \in Constants} \cup {Nested, Procedure, Escape, ReturnInBlock}
  \cup {Choose(x) : x \in Literals} 
  \cup {StoreThrough(x) : x \in Literals \cup {Bool(FALSE), Type}}
  \cup {StoreThroughVariable, AssignGlobal}
Capacity == 5
OuterFrames == 0 .. 3

-------------------------------------------------------------------------------
Meanings == [p \in Programs |-> Meaning(p)]

(* The result of an evaluation is the value that the compiled program would   *)
(* compute, and it is aborted only if there is none: results go back through  *)
(* frames that are found again, arguments are taken in order, and values of   *)
(* the blocks around a comptime block are seen in it.  Programs that differ   *)
(* by themselves are left out (Regular), but for a store through what is no   *)
(* pointer: it may end in undefined behaviour, and never in a value.          *)
ResultIsMeaning ==
  LET meaning == Meanings[program]
  IN meaning.odd \subseteq {"store to no pointer"} =>
       /\ status = "done" => IF meaning.out.kind \in Pointers THEN result.kind \in Pointers
                             ELSE result = meaning.out
       /\ status = "aborted" => meaning.out = Error

(* The pointers into call_stack that the activations keep are valid whenever  *)
(* they are used, as long as the frames that the program nests fit in the     *)
(* memory that call_stack begins with.  A store through what is no pointer is *)
(* undefined whatever the frames do, and left out like the rest of what is    *)
(* not Regular.                                                               *)
DefinedIfShallow ==
  LET meaning == Meanings[program]
  IN meaning.odd = {} /\ status = "undefined" =>
       OuterDepth + meaning.deepest > InitialCapacity \/ meaning.out = Undefined

===============================================================================
