---------------------------- MODULE AnalyserProofs ----------------------------
(*****************************************************************************)
(* Theorems about the analysis of declarations, for every set of             *)
(* declarations, modules and well-formed programs: its types, that nothing   *)
(* is lost without an error, and that instructions are built in the context  *)
(* of the declaration they belong to.                                        *)
(*****************************************************************************)
EXTENDS AnalyserProperties, SequenceTheorems, TLAPS

(* What the requests of a well-typed program are.                            *)
LEMMA ProgramFacts ==
  ASSUME TypeOK
  PROVE  /\ \A d \in Decl : /\ prog.kind[d] \in Kinds
                            /\ prog.mod[d] \in Module
                            /\ prog.sig[d] \in Seq(Item)
                            /\ prog.body[d] \in Seq(Item)
         /\ prog.roots \in Seq(Decl)
  BY DEF TypeOK, ProgramType

LEMMA TopFacts ==
  ASSUME TypeOK, call_stack # <<>>
  PROVE  /\ Depth \in Nat \ {0}
         /\ Depth \in DOMAIN call_stack
         /\ Top \in Frame
         /\ Top.decl \in Decl /\ Top.phase \in {"sig", "body"}
         /\ Top.pc \in Nat \ {0} /\ Top.called \in BOOLEAN
         /\ Top.prev_module \in Module /\ Top.prev_block \in Decl \cup {NoDecl}
         /\ Agenda \in Seq(Item)
<1>1. Depth \in Nat \ {0} /\ Depth \in DOMAIN call_stack
  BY EmptySeq, LenProperties DEF TypeOK, Depth
<1>2. Top \in Frame
  BY <1>1, ElementOfSeq DEF TypeOK, Top, Depth
<1>3. Agenda \in Seq(Item)
  BY <1>2, ProgramFacts DEF Agenda, Frame
<1> QED  BY <1>1, <1>2, <1>3 DEF Frame

LEMMA RequestFacts ==
  ASSUME TypeOK, Busy
  PROVE  Request \in Item /\ Request.to \in Decl /\ Request.how \in Modes
<1>1. call_stack # <<>>
  BY DEF Busy, Running
<1>2. Agenda \in Seq(Item) /\ Top.pc \in 1 .. Len(Agenda)
  BY <1>1, TopFacts DEF Busy
<1>3. Request \in Item
  BY <1>2, ElementOfSeq DEF Request
<1> QED  BY <1>3 DEF Item

-------------------------------------------------------------------------------
(* A stack is rewritten when the activations stay, whatever their progress.  *)
SameFrames(s, t) ==
  /\ Len(s) = Len(t)
  /\ \A i \in 1 .. Len(t) : /\ s[i].decl = t[i].decl
                            /\ s[i].prev_module = t[i].prev_module
                            /\ s[i].prev_block = t[i].prev_block

SameActivation(x, fr) ==
  /\ x \in Frame
  /\ x.decl = fr.decl
  /\ x.prev_module = fr.prev_module
  /\ x.prev_block = fr.prev_block

LEMMA FrameUpdates ==
  ASSUME NEW fr \in Frame, NEW b \in BOOLEAN, NEW n \in Nat \ {0}
  PROVE  /\ SameActivation([fr EXCEPT !.called = b], fr)
         /\ SameActivation([fr EXCEPT !.pc = n, !.called = b], fr)
         /\ SameActivation([fr EXCEPT !.phase = "body", !.pc = n], fr)
<1>1. SameActivation([fr EXCEPT !.called = b], fr)
  BY DEF Frame, SameActivation
<1>2. SameActivation([fr EXCEPT !.pc = n, !.called = b], fr)
  BY DEF Frame, SameActivation
<1>3. SameActivation([fr EXCEPT !.phase = "body", !.pc = n], fr)
  BY DEF Frame, SameActivation
<1> QED  BY <1>1, <1>2, <1>3

LEMMA Rewrites ==
  ASSUME TypeOK, call_stack # <<>>, NEW s \in {MarkCalled, MoveOn, EnterBody}
  PROVE  s \in Seq(Frame) /\ s # <<>> /\ SameFrames(s, call_stack)
<1>1. Depth \in DOMAIN call_stack /\ Depth = Len(call_stack) /\ Top \in Frame
      /\ Depth \in Nat \ {0} /\ Top = call_stack[Depth]
  BY TopFacts DEF Depth, Top
<1>2. Top.pc + 1 \in Nat \ {0} /\ 1 \in Nat \ {0}
  BY TopFacts
<1>3. PICK x : s = [call_stack EXCEPT ![Depth] = x] /\ SameActivation(x, Top)
  <2>1. CASE s = MarkCalled
    <3> DEFINE x == [Top EXCEPT !.called = TRUE]
    <3>1. s = [call_stack EXCEPT ![Depth] = x]
      BY <2>1, <1>1 DEF MarkCalled
    <3>2. SameActivation(x, Top)
      BY <1>1, <1>2, FrameUpdates
    <3> HIDE DEF x
    <3> QED  BY <3>1, <3>2
  <2>2. CASE s = MoveOn
    <3> DEFINE x == [Top EXCEPT !.pc = Top.pc + 1, !.called = FALSE]
    <3>1. s = [call_stack EXCEPT ![Depth] = x]
      BY <2>2, <1>1 DEF MoveOn
    <3>2. SameActivation(x, Top)
      BY <1>1, <1>2, FrameUpdates
    <3> HIDE DEF x
    <3> QED  BY <3>1, <3>2
  <2>3. CASE s = EnterBody
    <3> DEFINE x == [Top EXCEPT !.phase = "body", !.pc = 1]
    <3>1. s = [call_stack EXCEPT ![Depth] = x]
      BY <2>3, <1>1 DEF EnterBody
    <3>2. SameActivation(x, Top)
      BY <1>1, <1>2, FrameUpdates
    <3> HIDE DEF x
    <3> QED  BY <3>1, <3>2
  <2> QED  BY <2>1, <2>2, <2>3
<1>4. s \in Seq(Frame) /\ Len(s) = Len(call_stack)
      /\ \A i \in 1 .. Len(call_stack) :
           s[i] = IF i = Depth THEN x ELSE call_stack[i]
  BY <1>1, <1>3, ExceptSeq DEF TypeOK, SameActivation
<1> QED  BY <1>1, <1>3, <1>4, EmptySeq DEF SameFrames, SameActivation

(* What a push and a pop do to a stack, index by index.                      *)
LEMMA Pushes ==
  ASSUME NEW s \in Seq(Frame), NEW fr \in Frame, NEW t, t = Append(s, fr)
  PROVE  /\ t \in Seq(Frame) /\ t # <<>>
         /\ Len(t) = Len(s) + 1 /\ Len(s) \in Nat
         /\ t[Len(t)] = fr
         /\ \A i \in 1 .. Len(s) : t[i] = s[i]
  BY AppendProperties, LenProperties, EmptySeq

LEMMA Pops ==
  ASSUME NEW S, NEW s \in Seq(S), s # <<>>, NEW t, t = SubSeq(s, 1, Len(s) - 1)
  PROVE  /\ t \in Seq(S)
         /\ Len(s) \in Nat \ {0} /\ Len(t) = Len(s) - 1
         /\ \A i \in 1 .. Len(t) : t[i] = s[i]
<1>1. Len(s) \in Nat \ {0} /\ \A i \in 1 .. Len(s) - 1 : s[i] \in S
  BY EmptySeq, LenProperties, ElementOfSeq
<1>2. /\ t \in Seq(S)
      /\ Len(t) = IF 1 <= Len(s) - 1 THEN Len(s) - 1 - 1 + 1 ELSE 0
      /\ \A i \in 1 .. Len(s) - 1 - 1 + 1 : t[i] = s[1 + i - 1]
  BY <1>1, SubSeqProperties
<1>3. Len(t) = Len(s) - 1
  <2>1. PICK n \in Nat \ {0} : n = Len(s)
    BY <1>1
  <2>2. Len(t) = IF 1 <= n - 1 THEN n - 1 - 1 + 1 ELSE 0
    BY <1>2, <2>1
  <2>3. (IF 1 <= n - 1 THEN n - 1 - 1 + 1 ELSE 0) = n - 1
    OBVIOUS
  <2> QED  BY <2>1, <2>2, <2>3
<1> QED  BY <1>1, <1>2, <1>3

LEMMA FramePops ==
  ASSUME NEW s \in Seq(Frame), s # <<>>, NEW t, t = SubSeq(s, 1, Len(s) - 1)
  PROVE  /\ t \in Seq(Frame)
         /\ Len(s) \in Nat \ {0} /\ Len(t) = Len(s) - 1
         /\ \A i \in 1 .. Len(t) : t[i] = s[i]
  BY Pops

-------------------------------------------------------------------------------
(* The inductive invariant behind BuildContext.  An activation saves the     *)
(* builder's position of its caller; so below the top of the stack, that     *)
(* position is found in the activation above.                                *)
ModulesNest(s, module) ==
  \A i \in 1 .. Len(s) :
    prog.mod[s[i].decl] = IF i = Len(s) THEN module ELSE s[i + 1].prev_module

BlockInside(fr) ==
  IF KindOf(fr.decl) = "Function" THEN fr.decl ELSE fr.prev_block

BlocksNest(s, block) ==
  /\ s = <<>> => block = NoDecl
  /\ s # <<>> => s[1].prev_block = NoDecl
  /\ \A i \in 1 .. Len(s) :
       BlockInside(s[i]) = IF i = Len(s) THEN block ELSE s[i + 1].prev_block

(* F[i] is the function stack as it was when the i-th activation was the     *)
(* top.                                                                      *)
FunctionsInside(fr, functions) ==
  IF KindOf(fr.decl) \in Functions THEN Append(functions, fr.decl) ELSE functions

FunctionsNest(s, functions) ==
  \E F \in [0 .. Len(s) -> Seq(Decl)] :
    /\ F[0] = <<>> /\ F[Len(s)] = functions
    /\ \A i \in 1 .. Len(s) : F[i] = FunctionsInside(s[i], F[i - 1])

Nesting ==
  /\ ModulesNest(call_stack, builder_module)
  /\ BlocksNest(call_stack, builder_block)
  /\ FunctionsNest(call_stack, function_stack)

LEMMA ModulesRewrite ==
  ASSUME NEW s \in Seq(Frame), NEW t \in Seq(Frame), SameFrames(t, s),
         NEW module, ModulesNest(s, module)
  PROVE  ModulesNest(t, module)
<1>1. Len(s) \in Nat
  BY LenProperties
<1> QED  BY <1>1 DEF ModulesNest, SameFrames

LEMMA ModulesPush ==
  ASSUME NEW s \in Seq(Frame), NEW fr \in Frame, NEW module,
         ModulesNest(s, module), s = <<>> \/ fr.prev_module = module
  PROVE  ModulesNest(Append(s, fr), prog.mod[fr.decl])
<1> DEFINE t == Append(s, fr)
<1>1. /\ Len(t) = Len(s) + 1 /\ Len(s) \in Nat /\ t[Len(t)] = fr
      /\ \A i \in 1 .. Len(s) : t[i] = s[i]
  BY Pushes
<1>2. s = <<>> => Len(s) = 0
  BY EmptySeq
<1> HIDE DEF t
<1>3. ASSUME NEW i \in 1 .. Len(t)
      PROVE  prog.mod[t[i].decl] =
               IF i = Len(t) THEN prog.mod[fr.decl] ELSE t[i + 1].prev_module
  <2>1. CASE i = Len(t)
    BY <1>1, <2>1
  <2>2. CASE i = Len(s) /\ i # Len(t)
    BY <1>1, <1>2, <2>2 DEF ModulesNest
  <2>3. CASE i < Len(s)
    <3>1. i + 1 \in 1 .. Len(s) /\ i \in 1 .. Len(s)
      BY <1>1, <2>3
    <3> QED  BY <1>1, <2>3, <3>1 DEF ModulesNest
  <2> QED  BY <1>1, <2>1, <2>2, <2>3
<1>4. ModulesNest(t, prog.mod[fr.decl])
  BY <1>3 DEF ModulesNest
<1> QED  BY <1>4 DEF t

LEMMA ModulesPop ==
  ASSUME NEW s \in Seq(Frame), s # <<>>, NEW module, ModulesNest(s, module)
  PROVE  ModulesNest(SubSeq(s, 1, Len(s) - 1), s[Len(s)].prev_module)
<1> DEFINE t == SubSeq(s, 1, Len(s) - 1)
<1>1. /\ Len(s) \in Nat \ {0} /\ Len(t) = Len(s) - 1
      /\ \A i \in 1 .. Len(t) : t[i] = s[i]
  BY FramePops
<1> HIDE DEF t
<1>2. ASSUME NEW i \in 1 .. Len(t)
      PROVE  prog.mod[t[i].decl] =
               IF i = Len(t) THEN s[Len(s)].prev_module ELSE t[i + 1].prev_module
  BY <1>1, SMTT(30) DEF ModulesNest
<1>3. ModulesNest(t, s[Len(s)].prev_module)
  BY <1>2 DEF ModulesNest
<1> QED  BY <1>3 DEF t

LEMMA BlocksRewrite ==
  ASSUME NEW s \in Seq(Frame), NEW t \in Seq(Frame), SameFrames(t, s),
         NEW block, BlocksNest(s, block)
  PROVE  BlocksNest(t, block)
<1>1. Len(s) \in Nat /\ (s = <<>> <=> Len(s) = 0) /\ (t = <<>> <=> Len(t) = 0)
  BY LenProperties, EmptySeq
<1>2. Len(t) = Len(s)
  BY DEF SameFrames
<1>3. t # <<>> => t[1].prev_block = NoDecl
  BY <1>1, <1>2 DEF BlocksNest, SameFrames
<1>4. \A i \in 1 .. Len(t) :
        BlockInside(t[i]) = IF i = Len(t) THEN block ELSE t[i + 1].prev_block
  BY <1>1, <1>2 DEF BlocksNest, SameFrames, BlockInside
<1> QED  BY <1>1, <1>2, <1>3, <1>4 DEF BlocksNest

LEMMA BlocksPush ==
  ASSUME NEW s \in Seq(Frame), NEW fr \in Frame, NEW block,
         BlocksNest(s, block), fr.prev_block = block
  PROVE  BlocksNest(Append(s, fr), BlockInside(fr))
<1> DEFINE t == Append(s, fr)
<1>1. /\ t # <<>> /\ Len(t) = Len(s) + 1 /\ Len(s) \in Nat /\ t[Len(t)] = fr
      /\ \A i \in 1 .. Len(s) : t[i] = s[i]
  BY Pushes
<1>2. s = <<>> <=> Len(s) = 0
  BY EmptySeq
<1> HIDE DEF t
<1>3. t[1].prev_block = NoDecl
  <2>1. CASE s = <<>>
    BY <1>1, <1>2, <2>1 DEF BlocksNest
  <2>2. CASE s # <<>>
    <3>1. 1 \in 1 .. Len(s)
      BY <1>1, <1>2, <2>2
    <3> QED  BY <1>1, <2>2, <3>1 DEF BlocksNest
  <2> QED  BY <2>1, <2>2
<1>4. ASSUME NEW i \in 1 .. Len(t)
      PROVE  BlockInside(t[i]) =
               IF i = Len(t) THEN BlockInside(fr) ELSE t[i + 1].prev_block
  <2>1. CASE i = Len(t)
    BY <1>1, <2>1
  <2>2. CASE i = Len(s) /\ i # Len(t)
    BY <1>1, <1>2, <2>2 DEF BlocksNest
  <2>3. CASE i < Len(s)
    <3>1. i + 1 \in 1 .. Len(s) /\ i \in 1 .. Len(s)
      BY <1>1, <2>3
    <3> QED  BY <1>1, <2>3, <3>1 DEF BlocksNest
  <2> QED  BY <1>1, <2>1, <2>2, <2>3
<1>5. BlocksNest(t, BlockInside(fr))
  BY <1>1, <1>3, <1>4 DEF BlocksNest
<1> QED  BY <1>5 DEF t

LEMMA BlocksPop ==
  ASSUME NEW s \in Seq(Frame), s # <<>>, NEW block, BlocksNest(s, block)
  PROVE  BlocksNest(SubSeq(s, 1, Len(s) - 1), s[Len(s)].prev_block)
<1> DEFINE t == SubSeq(s, 1, Len(s) - 1)
<1>1. /\ Len(s) \in Nat \ {0} /\ Len(t) = Len(s) - 1
      /\ \A i \in 1 .. Len(t) : t[i] = s[i]
  BY FramePops
<1>7. t \in Seq(Frame)
  BY FramePops
<1> HIDE DEF t
<1>2. t = <<>> <=> Len(t) = 0
  BY <1>7, EmptySeq
<1>3. t = <<>> => s[Len(s)].prev_block = NoDecl
  <2>1. t = <<>> => Len(s) = 1
    BY <1>1, <1>2
  <2> QED  BY <2>1 DEF BlocksNest
<1>4. t # <<>> => t[1].prev_block = NoDecl
  BY <1>1, <1>2 DEF BlocksNest
<1>5. ASSUME NEW i \in 1 .. Len(t)
      PROVE  BlockInside(t[i]) =
               IF i = Len(t) THEN s[Len(s)].prev_block ELSE t[i + 1].prev_block
  BY <1>1 DEF BlocksNest
<1>6. BlocksNest(t, s[Len(s)].prev_block)
  BY <1>3, <1>4, <1>5 DEF BlocksNest
<1> QED  BY <1>6 DEF t

LEMMA FunctionsRewrite ==
  ASSUME NEW s \in Seq(Frame), NEW t \in Seq(Frame), SameFrames(t, s),
         NEW functions, FunctionsNest(s, functions)
  PROVE  FunctionsNest(t, functions)
<1>1. Len(t) = Len(s) /\ \A i \in 1 .. Len(s) : t[i].decl = s[i].decl
  BY DEF SameFrames
<1>2. PICK F \in [0 .. Len(s) -> Seq(Decl)] :
        /\ F[0] = <<>> /\ F[Len(s)] = functions
        /\ \A i \in 1 .. Len(s) : F[i] = FunctionsInside(s[i], F[i - 1])
  BY DEF FunctionsNest
<1>3. \A i \in 1 .. Len(t) : F[i] = FunctionsInside(t[i], F[i - 1])
  BY <1>1, <1>2 DEF FunctionsInside
<1> QED  BY <1>1, <1>2, <1>3 DEF FunctionsNest

LEMMA FunctionsPush ==
  ASSUME NEW s \in Seq(Frame), NEW fr \in Frame, NEW functions,
         FunctionsNest(s, functions)
  PROVE  FunctionsNest(Append(s, fr), FunctionsInside(fr, functions))
<1> DEFINE t == Append(s, fr)
<1> DEFINE inside == FunctionsInside(fr, functions)
<1>1. /\ Len(t) = Len(s) + 1 /\ Len(s) \in Nat /\ t[Len(t)] = fr
      /\ \A i \in 1 .. Len(s) : t[i] = s[i]
  BY Pushes
<1>2. PICK F \in [0 .. Len(s) -> Seq(Decl)] :
        /\ F[0] = <<>> /\ F[Len(s)] = functions
        /\ \A i \in 1 .. Len(s) : F[i] = FunctionsInside(s[i], F[i - 1])
  BY DEF FunctionsNest
<1>3. inside \in Seq(Decl)
  <2>1. functions \in Seq(Decl) /\ fr.decl \in Decl
    <3>1. Len(s) \in 0 .. Len(s)
      BY <1>1
    <3>2. F[Len(s)] \in Seq(Decl)
      BY <1>2, <3>1
    <3> QED  BY <1>2, <3>2 DEF Frame
  <2>2. Append(functions, fr.decl) \in Seq(Decl)
    BY <2>1, AppendProperties
  <2> QED  BY <2>1, <2>2 DEF FunctionsInside
<1> HIDE DEF t, inside
<1> DEFINE G == [i \in 0 .. Len(t) |-> IF i = Len(t) THEN inside ELSE F[i]]
<1>4. G \in [0 .. Len(t) -> Seq(Decl)]
  BY <1>1, <1>2, <1>3
<1>5. G[0] = <<>> /\ G[Len(t)] = inside
  BY <1>1, <1>2
<1>6. ASSUME NEW i \in 1 .. Len(t)
      PROVE  G[i] = FunctionsInside(t[i], G[i - 1])
  <2>1. CASE i = Len(t)
    <3>1. G[i - 1] = functions /\ G[i] = inside /\ t[i] = fr
      BY <1>1, <1>2, <2>1
    <3> QED  BY <3>1 DEF inside
  <2>2. CASE i # Len(t)
    <3>1. i \in 1 .. Len(s) /\ G[i - 1] = F[i - 1] /\ G[i] = F[i] /\ t[i] = s[i]
      BY <1>1, <2>2
    <3> QED  BY <1>2, <3>1
  <2> QED  BY <2>1, <2>2
<1>7. FunctionsNest(t, inside)
  BY <1>4, <1>5, <1>6 DEF FunctionsNest
<1> QED  BY <1>7 DEF t, inside

(* The function stack under the top activation, which is the function stack  *)
(* when it returns.                                                          *)
LEMMA FunctionsPop ==
  ASSUME NEW s \in Seq(Frame), s # <<>>, NEW functions \in Seq(Decl),
         FunctionsNest(s, functions)
  PROVE  /\ KindOf(s[Len(s)].decl) \in Functions =>
              /\ functions # <<>> /\ Last(functions) = s[Len(s)].decl
              /\ FunctionsNest(SubSeq(s, 1, Len(s) - 1), Front(functions))
         /\ KindOf(s[Len(s)].decl) \notin Functions =>
              FunctionsNest(SubSeq(s, 1, Len(s) - 1), functions)
<1> DEFINE t == SubSeq(s, 1, Len(s) - 1)
<1>1. /\ Len(s) \in Nat \ {0} /\ Len(t) = Len(s) - 1
      /\ \A i \in 1 .. Len(t) : t[i] = s[i]
  BY FramePops
<1>2. PICK F \in [0 .. Len(s) -> Seq(Decl)] :
        /\ F[0] = <<>> /\ F[Len(s)] = functions
        /\ \A i \in 1 .. Len(s) : F[i] = FunctionsInside(s[i], F[i - 1])
  BY DEF FunctionsNest
<1> DEFINE below == F[Len(s) - 1]
<1>3. below \in Seq(Decl)
  <2>1. Len(s) - 1 \in 0 .. Len(s)
    BY <1>1
  <2> QED  BY <1>2, <2>1
<1>4. functions = FunctionsInside(s[Len(s)], below)
  BY <1>1, <1>2
<1> HIDE DEF t
<1>5. FunctionsNest(t, below)
  <2> DEFINE G == [i \in 0 .. Len(t) |-> F[i]]
  <2>1. G \in [0 .. Len(t) -> Seq(Decl)] /\ G[0] = <<>> /\ G[Len(t)] = below
    BY <1>1, <1>2
  <2>2. ASSUME NEW i \in 1 .. Len(t)
        PROVE  G[i] = FunctionsInside(t[i], G[i - 1])
    BY <1>1, <1>2
  <2> QED  BY <2>1, <2>2 DEF FunctionsNest
<1> HIDE DEF below
<1>6. ASSUME KindOf(s[Len(s)].decl) \in Functions
      PROVE  /\ functions # <<>> /\ Last(functions) = s[Len(s)].decl
             /\ Front(functions) = below
  <2>1. functions = Append(below, s[Len(s)].decl) /\ s[Len(s)].decl \in Decl
    <3>1. s[Len(s)] \in Frame
      BY <1>1, ElementOfSeq
    <3> QED  BY <1>4, <1>6, <3>1 DEF FunctionsInside, Frame
  <2>2. /\ functions # <<>> /\ Len(functions) = Len(below) + 1
        /\ Len(below) \in Nat /\ functions[Len(below) + 1] = s[Len(s)].decl
        /\ \A i \in 1 .. Len(below) : functions[i] = below[i]
    BY <1>3, <2>1, AppendProperties, LenProperties
  <2>3. /\ Front(functions) \in Seq(Decl) /\ Len(Front(functions)) = Len(below)
        /\ \A i \in 1 .. Len(below) : Front(functions)[i] = functions[i]
    <3> DEFINE front == SubSeq(functions, 1, Len(functions) - 1)
    <3>1. /\ front \in Seq(Decl) /\ Len(front) = Len(functions) - 1
          /\ \A i \in 1 .. Len(front) : front[i] = functions[i]
      BY <2>2, Pops
    <3> QED  BY <2>2, <3>1 DEF Front
  <2>4. Front(functions) = below
    BY <1>3, <2>2, <2>3, SeqEqual
  <2> QED  BY <2>2, <2>4 DEF Last
<1>7. KindOf(s[Len(s)].decl) \notin Functions => functions = below
  BY <1>4 DEF FunctionsInside
<1>8. /\ KindOf(s[Len(s)].decl) \in Functions =>
            FunctionsNest(t, Front(functions))
      /\ KindOf(s[Len(s)].decl) \notin Functions => FunctionsNest(t, functions)
  BY <1>5, <1>6, <1>7
<1> QED  BY <1>6, <1>8 DEF t

-------------------------------------------------------------------------------
(* What a call of analyse does: it pushes an activation, or returns at once. *)
Pushed(d, stack, from) ==
  \E fr \in Frame :
    /\ fr.decl = d /\ fr.prev_module = from /\ fr.prev_block = builder_block
    /\ call_stack' = Append(stack, fr)
    /\ builder_module' = prog.mod[d]
    /\ builder_block' = BlockInside(fr)
    /\ function_stack' = FunctionsInside(fr, function_stack)

Returned(stack, from) ==
  /\ call_stack' = stack
  /\ builder_module' = from
  /\ UNCHANGED <<builder_block, function_stack>>

LEMMA PushEffect ==
  ASSUME TypeOK, NEW d \in Decl, NEW stack \in Seq(Frame), NEW from \in Module,
         Push(d, stack, from),
         builder_block' = IF KindOf(d) = "Function" THEN d ELSE builder_block,
         function_stack' = IF KindOf(d) \in Functions
                             THEN Append(function_stack, d) ELSE function_stack
  PROVE  Pushed(d, stack, from)
<1> DEFINE fr == [decl |-> d, phase |-> "sig", pc |-> 1, called |-> FALSE,
                  prev_module |-> from, prev_block |-> builder_block]
<1>1. fr \in Frame
  BY DEF Frame, TypeOK
<1>2. fr.decl = d /\ fr.prev_module = from /\ fr.prev_block = builder_block
  OBVIOUS
<1>3. call_stack' = Append(stack, fr) /\ builder_module' = prog.mod[d]
  BY DEF Push
<1> HIDE DEF fr
<1>4. builder_block' = BlockInside(fr)
      /\ function_stack' = FunctionsInside(fr, function_stack)
  BY <1>2 DEF BlockInside, FunctionsInside
<1> QED  BY <1>1, <1>2, <1>3, <1>4 DEF Pushed

LEMMA BeginEffect ==
  ASSUME TypeOK, NEW d \in Decl, NEW stack \in Seq(Frame), NEW from \in Module,
         Begin(d, stack, from)
  PROVE  /\ Pushed(d, stack, from) \/ Returned(stack, from)
         /\ resolved_mapping' \in [Decl -> Resolutions]
         /\ rir' \in Seq([decl : Decl, mod : Module])
         /\ UNCHANGED <<error_count, cyclic>>
         /\ \A e \in Decl : resolved_mapping'[e] = "poison" <=>
                              resolved_mapping[e] = "poison"
<1> USE DEF TypeOK, Resolutions
<1>1. UNCHANGED <<error_count, cyclic>> /\ resolved_mapping[d] = "none"
  BY DEF Begin
<1>2. CASE BeginGlobal(d, stack, from)
  <2>1. Pushed(d, stack, from)
    BY <1>2, PushEffect DEF BeginGlobal, Variables, Functions
  <2> QED  BY <1>1, <1>2, <2>1 DEF BeginGlobal
<1>3. CASE BeginFunction(d, stack, from)
  <2>1. Pushed(d, stack, from)
    BY <1>3, PushEffect DEF BeginFunction
  <2>2. [decl |-> d, mod |-> prog.mod[d]] \in [decl : Decl, mod : Module]
    BY ProgramFacts
  <2>3. rir' \in Seq([decl : Decl, mod : Module])
    BY <1>3, <2>2, AppendProperties DEF BeginFunction
  <2> QED  BY <1>1, <1>3, <2>1, <2>3 DEF BeginFunction
<1>4. CASE BeginComptimeFunction(d, stack, from)
  <2>1. Returned(stack, from)
    BY <1>4 DEF BeginComptimeFunction, Returned
  <2> QED  BY <1>1, <1>4, <2>1 DEF BeginComptimeFunction
<1>5. CASE BeginScope(d, stack, from)
  <2>1. Pushed(d, stack, from)
    BY <1>5, PushEffect DEF BeginScope, Functions
  <2> QED  BY <1>1, <1>5, <2>1 DEF BeginScope
<1> QED  BY <1>2, <1>3, <1>4, <1>5 DEF Begin

LEMMA AnalyseEffect ==
  ASSUME TypeOK, NEW d \in Decl, NEW stack \in Seq(Frame), NEW from \in Module,
         Analyse(d, stack, from)
  PROVE  /\ Pushed(d, stack, from) \/ Returned(stack, from)
         /\ resolved_mapping' \in [Decl -> Resolutions]
         /\ rir' \in Seq([decl : Decl, mod : Module])
         /\ error_count' \in Nat /\ error_count' >= error_count
         /\ cyclic' \in SUBSET Decl
         /\ (\E e \in Decl : resolved_mapping'[e] = "poison") =>
              \/ error_count' > 0
              \/ \E e \in Decl : resolved_mapping[e] = "poison"
<1>1. CASE Begin(d, stack, from)
  <2>1. /\ Pushed(d, stack, from) \/ Returned(stack, from)
        /\ resolved_mapping' \in [Decl -> Resolutions]
        /\ rir' \in Seq([decl : Decl, mod : Module])
        /\ error_count' = error_count /\ cyclic' = cyclic
        /\ \A e \in Decl : resolved_mapping'[e] = "poison" <=>
                             resolved_mapping[e] = "poison"
    BY <1>1, BeginEffect
  <2>2. error_count' \in Nat /\ error_count' >= error_count /\ cyclic' \in SUBSET Decl
    BY <2>1 DEF TypeOK
  <2> QED  BY <2>1, <2>2
<1>2. CASE ReportCycle(d, stack, from)
  <2>1. Returned(stack, from)
    BY <1>2 DEF ReportCycle, Returned
  <2>2. resolved_mapping' \in [Decl -> Resolutions]
    BY <1>2 DEF ReportCycle, TypeOK, Resolutions
  <2>3. error_count' \in Nat /\ error_count' > 0 /\ error_count' >= error_count
    BY <1>2 DEF ReportCycle, TypeOK
  <2>4. cyclic' \in SUBSET Decl /\ rir' \in Seq([decl : Decl, mod : Module])
    BY <1>2 DEF ReportCycle, TypeOK
  <2> QED  BY <2>1, <2>2, <2>3, <2>4
<1>3. CASE AlreadyAnalysed(d, stack, from)
  BY <1>3 DEF AlreadyAnalysed, Returned, TypeOK
<1> QED  BY <1>1, <1>2, <1>3 DEF Analyse

LEMMA CallTypes ==
  ASSUME TypeOK, NEW d \in Decl, NEW stack \in Seq(Frame), NEW from \in Module,
         Pushed(d, stack, from) \/ Returned(stack, from)
  PROVE  /\ call_stack' \in Seq(Frame)
         /\ builder_module' \in Module
         /\ builder_block' \in Decl \cup {NoDecl}
         /\ function_stack' \in Seq(Decl)
<1>1. CASE Pushed(d, stack, from)
  <2>1. PICK fr \in Frame :
          /\ fr.decl = d /\ fr.prev_block = builder_block
          /\ call_stack' = Append(stack, fr)
          /\ builder_module' = prog.mod[d]
          /\ builder_block' = BlockInside(fr)
          /\ function_stack' = FunctionsInside(fr, function_stack)
    BY <1>1 DEF Pushed
  <2>2. call_stack' \in Seq(Frame)
    BY <2>1, AppendProperties
  <2>3. builder_module' \in Module
    BY <2>1, ProgramFacts
  <2>4. builder_block' \in Decl \cup {NoDecl}
    BY <2>1 DEF BlockInside, TypeOK
  <2>5. function_stack' \in Seq(Decl)
    BY <2>1, AppendProperties DEF FunctionsInside, TypeOK
  <2> QED  BY <2>2, <2>3, <2>4, <2>5
<1>2. CASE Returned(stack, from)
  BY <1>2 DEF Returned, TypeOK
<1> QED  BY <1>1, <1>2

LEMMA FrontInSeq ==
  ASSUME NEW S, NEW s \in Seq(S)
  PROVE  Front(s) \in Seq(S)
<1>1. CASE s = <<>>
  <2>1. Len(s) = 0 /\ Len(s) - 1 < 1 /\ Len(s) - 1 \in Int
    BY <1>1
  <2> QED  BY <2>1, SubSeqEmpty, EmptySeq DEF Front
<1>2. CASE s # <<>>
  BY <1>2, Pops DEF Front
<1> QED  BY <1>1, <1>2

LEMMA ReturnTypes ==
  ASSUME TypeOK, call_stack # <<>>, Return
  PROVE  call_stack' \in Seq(Frame) /\ builder_module' \in Module
<1>1. call_stack' \in Seq(Frame)
  BY FramePops DEF Return, TypeOK, Depth
<1> QED  BY <1>1, TopFacts DEF Return

LEMMA InitTypeOK == Init => TypeOK
<1> SUFFICES ASSUME Init  PROVE TypeOK
  OBVIOUS
<1>1. prog \in ProgramType
  BY ProgramsAssumption DEF Init
<1>2. /\ <<>> \in Seq(Frame) /\ <<>> \in Seq(Decl)
      /\ <<>> \in Seq([decl : Decl, mod : Module])
  BY EmptySeq
<1> QED  BY <1>1, <1>2 DEF Init, TypeOK, Resolutions

(* Every step keeps the types.                                               *)
LEMMA NextTypeOK == TypeOK /\ [Next]_vars => TypeOK'
<1> SUFFICES ASSUME TypeOK, [Next]_vars  PROVE TypeOK'
  OBVIOUS
<1> USE DEF TypeOK
<1>1. CASE VisitRoot
  <2> DEFINE d == prog.roots[next_root]
  <2>1. next_root \in 1 .. Len(prog.roots)
    BY <1>1, ProgramFacts, LenProperties DEF VisitRoot
  <2>2. d \in Decl
    BY <2>1, ProgramFacts, ElementOfSeq
  <2>3. prog.mod[d] \in Module /\ <<>> \in Seq(Frame)
    BY <2>2, ProgramFacts, EmptySeq
  <2>4. Analyse(d, <<>>, prog.mod[d])
    BY <1>1 DEF VisitRoot
  <2> HIDE DEF d
  <2>5. /\ Pushed(d, <<>>, prog.mod[d]) \/ Returned(<<>>, prog.mod[d])
        /\ resolved_mapping' \in [Decl -> Resolutions]
        /\ rir' \in Seq([decl : Decl, mod : Module])
        /\ error_count' \in Nat /\ cyclic' \in SUBSET Decl
    BY <2>2, <2>3, <2>4, AnalyseEffect
  <2>6. /\ call_stack' \in Seq(Frame) /\ builder_module' \in Module
        /\ builder_block' \in Decl \cup {NoDecl} /\ function_stack' \in Seq(Decl)
    BY <2>2, <2>3, <2>5, CallTypes
  <2>7. /\ UNCHANGED <<prog, laid_out, status, holes, garbage>>
        /\ next_root' = next_root + 1
    BY <1>1 DEF VisitRoot
  <2>8. next_root' \in Nat \ {0}
    BY <2>7
  <2> QED  BY <2>5, <2>6, <2>7, <2>8
<1>2. CASE DemandAnalysis
  <2>1. call_stack # <<>> /\ Request.to \in Decl
    BY <1>2, RequestFacts DEF DemandAnalysis, Busy, Running
  <2>2. MarkCalled \in Seq(Frame)
    BY <2>1, Rewrites
  <2>3. Analyse(Request.to, MarkCalled, builder_module)
    BY <1>2 DEF DemandAnalysis
  <2>4. /\ Pushed(Request.to, MarkCalled, builder_module)
           \/ Returned(MarkCalled, builder_module)
        /\ resolved_mapping' \in [Decl -> Resolutions]
        /\ rir' \in Seq([decl : Decl, mod : Module])
        /\ error_count' \in Nat /\ cyclic' \in SUBSET Decl
    BY <2>1, <2>2, <2>3, AnalyseEffect
  <2>5. /\ call_stack' \in Seq(Frame) /\ builder_module' \in Module
        /\ builder_block' \in Decl \cup {NoDecl} /\ function_stack' \in Seq(Decl)
    BY <2>1, <2>2, <2>4, CallTypes
  <2>6. UNCHANGED <<prog, laid_out, next_root, status, holes, garbage>>
    BY <1>2 DEF DemandAnalysis
  <2> QED  BY <2>4, <2>5, <2>6
<1>3. CASE DemandValue
  <2>1. call_stack # <<>> /\ Request.to \in Decl
    BY <1>3, RequestFacts DEF DemandValue, Busy, Running
  <2>2. MarkCalled \in Seq(Frame)
    BY <2>1, Rewrites
  <2>3. Begin(Request.to, MarkCalled, builder_module)
    BY <1>3 DEF DemandValue
  <2>4. /\ Pushed(Request.to, MarkCalled, builder_module)
           \/ Returned(MarkCalled, builder_module)
        /\ resolved_mapping' \in [Decl -> Resolutions]
        /\ rir' \in Seq([decl : Decl, mod : Module])
        /\ UNCHANGED <<error_count, cyclic>>
    BY <2>1, <2>2, <2>3, BeginEffect
  <2>5. /\ call_stack' \in Seq(Frame) /\ builder_module' \in Module
        /\ builder_block' \in Decl \cup {NoDecl} /\ function_stack' \in Seq(Decl)
    BY <2>1, <2>2, <2>4, CallTypes
  <2>6. UNCHANGED <<prog, laid_out, next_root, status, holes, garbage>>
    BY <1>3 DEF DemandValue
  <2> QED  BY <2>4, <2>5, <2>6
<1>4. CASE DemandKnownValue
  <2>1. call_stack' \in Seq(Frame)
    BY <1>4, Rewrites DEF DemandKnownValue, Busy, Running
  <2> QED  BY <1>4, <2>1 DEF DemandKnownValue
<1>5. CASE CheckResolved
  <2>1. call_stack # <<>>
    BY <1>5 DEF CheckResolved, Busy, Running
  <2>2. call_stack' \in Seq(Frame)
    BY <1>5, <2>1, Rewrites DEF CheckResolved
  <2>3. Top.decl \in Decl /\ Request.to \in Decl
    BY <1>5, <2>1, TopFacts, RequestFacts DEF CheckResolved
  <2>4. holes' \in SUBSET Decl
    BY <1>5, <2>3 DEF CheckResolved
  <2>5. error_count' \in Nat /\ cyclic' \in SUBSET Decl
    BY <1>5, <2>3 DEF CheckResolved
  <2> QED  BY <1>5, <2>2, <2>4, <2>5 DEF CheckResolved
<1>6. CASE ReadValue
  <2>1. call_stack' \in Seq(Frame)
    BY <1>6, Rewrites DEF ReadValue, Busy, Running
  <2>2. garbage' \in SUBSET Decl
    BY <1>6, RequestFacts DEF ReadValue
  <2> QED  BY <1>6, <2>1, <2>2 DEF ReadValue
<1>7. CASE AbortOnValue
  BY <1>7 DEF AbortOnValue
<1>8. CASE ResolveGlobal
  <2>1. call_stack # <<>>
    BY <1>8 DEF ResolveGlobal, SigDone, Running
  <2>2. call_stack' \in Seq(Frame) /\ builder_module' \in Module
    BY <1>8, <2>1, ReturnTypes DEF ResolveGlobal
  <2>3. Top.decl \in Decl
    BY <2>1, TopFacts
  <2>4. resolved_mapping' \in [Decl -> Resolutions]
    BY <1>8, <2>3 DEF ResolveGlobal, Resolutions
  <2>5. Append(rir, [decl |-> Top.decl, mod |-> builder_module])
          \in Seq([decl : Decl, mod : Module])
    <3>1. [decl |-> Top.decl, mod |-> builder_module] \in [decl : Decl, mod : Module]
      BY <2>3
    <3> QED  BY <3>1, AppendProperties
  <2>6. rir' \in Seq([decl : Decl, mod : Module])
    BY <1>8, <2>5 DEF ResolveGlobal
  <2>7. error_count' \in Nat
    BY <1>8 DEF ResolveGlobal
  <2> QED  BY <1>8, <2>2, <2>4, <2>6, <2>7 DEF ResolveGlobal
<1>9. CASE ResolveFunction
  <2>1. call_stack # <<>>
    BY <1>9 DEF ResolveFunction, SigDone, Running
  <2>2. call_stack' \in Seq(Frame) /\ Top.decl \in Decl
    BY <1>9, <2>1, Rewrites, TopFacts DEF ResolveFunction
  <2>3. /\ resolved_mapping' \in [Decl -> Resolutions]
        /\ error_count' \in Nat /\ holes' \in SUBSET Decl
    BY <1>9, <2>2 DEF ResolveFunction, Resolutions
  <2> QED  BY <1>9, <2>2, <2>3 DEF ResolveFunction
<1>10. CASE ResolveScope
  <2>1. call_stack # <<>>
    BY <1>10 DEF ResolveScope, SigDone, Running
  <2>2. /\ call_stack' \in Seq(Frame) /\ laid_out' \in SUBSET Decl
        /\ status' \in {"run", "done", "aborted"}
    BY <1>10, <2>1, Rewrites, TopFacts DEF ResolveScope
  <2> QED  BY <1>10, <2>2 DEF ResolveScope
<1>11. CASE LeaveFunction
  <2>1. call_stack # <<>>
    BY <1>11 DEF LeaveFunction, BodyDone, Running
  <2>2. call_stack' \in Seq(Frame) /\ builder_module' \in Module
    BY <1>11, <2>1, ReturnTypes DEF LeaveFunction
  <2>3. builder_block' \in Decl \cup {NoDecl}
    BY <1>11, <2>1, TopFacts DEF LeaveFunction, LeaveBlocks
  <2>4. function_stack' \in Seq(Decl)
    BY <1>11, FrontInSeq DEF LeaveFunction, LeaveBlocks
  <2>5. error_count' \in Nat /\ holes' \in SUBSET Decl
    BY <1>11, <2>1, TopFacts DEF LeaveFunction
  <2> QED  BY <1>11, <2>2, <2>3, <2>4, <2>5 DEF LeaveFunction
<1>12. CASE LeaveScope
  <2>1. call_stack' \in Seq(Frame) /\ builder_module' \in Module
    BY <1>12, ReturnTypes DEF LeaveScope, BodyDone, Running
  <2> QED  BY <1>12, <2>1 DEF LeaveScope
<1>13. CASE Finish
  BY <1>13 DEF Finish
<1>14. CASE UNCHANGED vars
  BY <1>14 DEF vars
<1> QED
  BY <1>1, <1>2, <1>3, <1>4, <1>5, <1>6, <1>7, <1>8, <1>9, <1>10, <1>11, <1>12,
     <1>13, <1>14 DEF Next

(* The variables of the analysis have the types their declarations say.      *)
THEOREM TypeCorrect == Spec => []TypeOK
BY InitTypeOK, NextTypeOK, PTL DEF Spec

-------------------------------------------------------------------------------
(* Nothing is lost without an error.                                         *)
LEMMA InitNothingLost == Init => NothingLostSilently
BY DEF Init, NothingLostSilently

LEMMA NextNothingLost ==
  TypeOK /\ NothingLostSilently /\ [Next]_vars => NothingLostSilently'
<1> SUFFICES ASSUME TypeOK, NothingLostSilently, [Next]_vars
             PROVE  NothingLostSilently'
  OBVIOUS
<1> DEFINE Poisoned == \E d \in Decl : resolved_mapping[d] = "poison"
<1>0. /\ Poisoned \/ holes # {} => error_count > 0
      /\ error_count \in Nat
  BY DEF NothingLostSilently, TypeOK
<1>s. ASSUME Poisoned' \/ holes' # {} => error_count' > 0
      PROVE  NothingLostSilently'
  BY <1>s DEF NothingLostSilently
<1>1. CASE VisitRoot
  <2> DEFINE d == prog.roots[next_root]
  <2>1. next_root \in 1 .. Len(prog.roots)
    BY <1>1, ProgramFacts, LenProperties DEF VisitRoot, TypeOK
  <2>2. d \in Decl
    BY <2>1, ProgramFacts, ElementOfSeq
  <2>3. prog.mod[d] \in Module /\ <<>> \in Seq(Frame)
    BY <2>2, ProgramFacts, EmptySeq
  <2>4. Analyse(d, <<>>, prog.mod[d]) /\ holes' = holes
    BY <1>1 DEF VisitRoot
  <2> HIDE DEF d
  <2>5. /\ error_count' \in Nat /\ error_count' >= error_count
        /\ Poisoned' => error_count' > 0 \/ Poisoned
    BY <2>2, <2>3, <2>4, AnalyseEffect
  <2> HIDE DEF Poisoned
  <2> QED  BY <1>0, <1>s, <2>4, <2>5
<1>2. CASE DemandAnalysis
  <2>1. call_stack # <<>> /\ Request.to \in Decl /\ builder_module \in Module
    BY <1>2, RequestFacts DEF DemandAnalysis, Busy, Running, TypeOK
  <2>2. MarkCalled \in Seq(Frame)
    BY <2>1, Rewrites
  <2>3. Analyse(Request.to, MarkCalled, builder_module) /\ holes' = holes
    BY <1>2 DEF DemandAnalysis
  <2>4. /\ error_count' \in Nat /\ error_count' >= error_count
        /\ Poisoned' => error_count' > 0 \/ Poisoned
    BY <2>1, <2>2, <2>3, AnalyseEffect
  <2> HIDE DEF Poisoned
  <2> QED  BY <1>0, <1>s, <2>3, <2>4
<1>3. CASE DemandValue
  <2>1. call_stack # <<>> /\ Request.to \in Decl /\ builder_module \in Module
    BY <1>3, RequestFacts DEF DemandValue, Busy, Running, TypeOK
  <2>2. MarkCalled \in Seq(Frame)
    BY <2>1, Rewrites
  <2>3. Begin(Request.to, MarkCalled, builder_module) /\ holes' = holes
    BY <1>3 DEF DemandValue
  <2>4. /\ error_count' = error_count
        /\ \A e \in Decl : resolved_mapping'[e] = "poison" <=>
                             resolved_mapping[e] = "poison"
    BY <2>1, <2>2, <2>3, BeginEffect
  <2> QED  BY <1>0, <1>s, <2>3, <2>4
<1>4. CASE CheckResolved
  <2>1. resolved_mapping' = resolved_mapping /\ Request.to \in Decl
    BY <1>4, RequestFacts DEF CheckResolved
  <2>2. CASE Request.how = "analyse" /\ resolved_mapping[Request.to] = "pending"
    BY <1>0, <1>4, <1>s, <2>2 DEF CheckResolved, Undecided
  <2>3. CASE Request.how = "analyse" /\ resolved_mapping[Request.to] = "poison"
    BY <1>0, <1>4, <1>s, <2>1, <2>3 DEF CheckResolved, Undecided
  <2>4. CASE ~(Request.how = "analyse"
               /\ resolved_mapping[Request.to] \in {"poison", "pending"})
    BY <1>0, <1>4, <1>s, <2>1, <2>4 DEF CheckResolved, Undecided
  <2> QED  BY <2>2, <2>3, <2>4
<1>5. CASE ResolveGlobal
  <2>2. CASE Faulty("sig")
    <3>1. error_count' = error_count + 1
      BY <1>5, <2>2 DEF ResolveGlobal
    <3> QED  BY <1>0, <1>s, <3>1
  <2>3. CASE ~Faulty("sig")
    <3>1. Poisoned' => Poisoned
      BY <1>5, <2>3 DEF ResolveGlobal, TypeOK
    <3>2. holes' = holes /\ error_count' = error_count
      BY <1>0, <1>5, <2>3 DEF ResolveGlobal
    <3> HIDE DEF Poisoned
    <3> QED  BY <1>0, <1>s, <3>1, <3>2
  <2> QED  BY <2>2, <2>3
<1>6. CASE ResolveFunction
  <2>1. CASE Faulty("sig")
    BY <1>0, <1>6, <1>s, <2>1 DEF ResolveFunction
  <2>2. CASE ~Faulty("sig")
    <3>1. Poisoned' => Poisoned
      BY <1>6, <2>2 DEF ResolveFunction, TypeOK
    <3>2. holes' = holes /\ error_count' = error_count
      BY <1>6, <2>2 DEF ResolveFunction
    <3> HIDE DEF Poisoned
    <3> QED  BY <1>0, <1>s, <3>1, <3>2
  <2> QED  BY <2>1, <2>2
<1>7. CASE LeaveFunction
  <2>1. resolved_mapping' = resolved_mapping
    BY <1>7 DEF LeaveFunction
  <2> QED  BY <1>0, <1>7, <1>s, <2>1 DEF LeaveFunction
<1>8. CASE UNCHANGED <<resolved_mapping, holes, error_count>>
  BY <1>0, <1>8, <1>s
<1> QED
  BY <1>1, <1>2, <1>3, <1>4, <1>5, <1>6, <1>7, <1>8
  DEF Next, vars, DemandKnownValue, ReadValue, AbortOnValue, ResolveScope,
      LeaveScope, Finish

(* A poisoned declaration, or an instruction left out of a function, is      *)
(* always accompanied by an error: UIRAnalyser::error_count is positive, and *)
(* the driver stops before code generation.                                  *)
THEOREM NothingIsLostSilently == Spec => []NothingLostSilently
<1>1. Init => TypeOK /\ NothingLostSilently
  BY InitTypeOK, InitNothingLost
<1>2. TypeOK /\ NothingLostSilently /\ [Next]_vars
        => (TypeOK /\ NothingLostSilently)'
  BY NextTypeOK, NextNothingLost
<1> QED  BY <1>1, <1>2, PTL DEF Spec

-------------------------------------------------------------------------------
(* Every step keeps the nesting.                                             *)
LEMMA PrimedNesting ==
  ASSUME prog' = prog, ModulesNest(call_stack', builder_module'),
         BlocksNest(call_stack', builder_block'),
         FunctionsNest(call_stack', function_stack')
  PROVE  Nesting'
BY DEF Nesting, ModulesNest, BlocksNest, BlockInside, FunctionsNest,
       FunctionsInside, KindOf

LEMMA CallNests ==
  ASSUME TypeOK, prog' = prog,
         NEW d \in Decl, NEW stack \in Seq(Frame), NEW from \in Module,
         ModulesNest(stack, from), BlocksNest(stack, builder_block),
         FunctionsNest(stack, function_stack),
         Pushed(d, stack, from) \/ Returned(stack, from)
  PROVE  Nesting'
<1>1. CASE Pushed(d, stack, from)
  <2>1. PICK fr \in Frame :
          /\ fr.decl = d /\ fr.prev_module = from
          /\ fr.prev_block = builder_block
          /\ call_stack' = Append(stack, fr)
          /\ builder_module' = prog.mod[d]
          /\ builder_block' = BlockInside(fr)
          /\ function_stack' = FunctionsInside(fr, function_stack)
    BY <1>1 DEF Pushed
  <2>2. ModulesNest(call_stack', builder_module')
    BY <2>1, ModulesPush
  <2>3. BlocksNest(call_stack', builder_block')
    BY <2>1, BlocksPush
  <2>4. FunctionsNest(call_stack', function_stack')
    BY <2>1, FunctionsPush
  <2> QED  BY <2>2, <2>3, <2>4, PrimedNesting
<1>2. CASE Returned(stack, from)
  BY <1>2, PrimedNesting DEF Returned
<1> QED  BY <1>1, <1>2

LEMMA RewriteNests ==
  ASSUME TypeOK, Nesting, call_stack # <<>>,
         NEW s \in {MarkCalled, MoveOn, EnterBody}
  PROVE  /\ s \in Seq(Frame)
         /\ ModulesNest(s, builder_module) /\ BlocksNest(s, builder_block)
         /\ FunctionsNest(s, function_stack)
<1>1. s \in Seq(Frame) /\ SameFrames(s, call_stack) /\ call_stack \in Seq(Frame)
  BY Rewrites DEF TypeOK
<1>2. ModulesNest(s, builder_module)
  BY <1>1, ModulesRewrite DEF Nesting
<1>3. BlocksNest(s, builder_block)
  BY <1>1, BlocksRewrite DEF Nesting
<1>4. FunctionsNest(s, function_stack)
  BY <1>1, FunctionsRewrite DEF Nesting
<1> QED  BY <1>1, <1>2, <1>3, <1>4

LEMMA ReturnNests ==
  ASSUME TypeOK, Nesting, call_stack # <<>>, prog' = prog, Return,
         builder_block' = Top.prev_block,
         function_stack' = IF KindOf(Top.decl) \in Functions
                             THEN Front(function_stack) ELSE function_stack
  PROVE  Nesting'
<1>1. call_stack \in Seq(Frame) /\ function_stack \in Seq(Decl)
      /\ Top = call_stack[Len(call_stack)]
      /\ call_stack' = SubSeq(call_stack, 1, Len(call_stack) - 1)
      /\ builder_module' = call_stack[Len(call_stack)].prev_module
      /\ builder_block' = call_stack[Len(call_stack)].prev_block
  BY DEF TypeOK, Return, Top, Depth
<1>2. ModulesNest(call_stack', builder_module')
  BY <1>1, ModulesPop DEF Nesting
<1>3. BlocksNest(call_stack', builder_block')
  BY <1>1, BlocksPop DEF Nesting
<1>4. FunctionsNest(call_stack', function_stack')
  BY <1>1, FunctionsPop DEF Nesting
<1> QED  BY <1>2, <1>3, <1>4, PrimedNesting

(* An activation other than a function's leaves the builder's block alone,   *)
(* which so is the one that it found.                                        *)
LEMMA BlockOfTop ==
  ASSUME TypeOK, Nesting, call_stack # <<>>
  PROVE  builder_block = BlockInside(Top)
<1>1. Len(call_stack) \in 1 .. Len(call_stack) /\ Top = call_stack[Len(call_stack)]
  BY TopFacts, LenProperties DEF Top, Depth, TypeOK
<1> QED  BY <1>1 DEF Nesting, BlocksNest

LEMMA InitNesting == Init => Nesting
<1> SUFFICES ASSUME Init  PROVE Nesting
  OBVIOUS
<1>1. call_stack = <<>> /\ Len(call_stack) = 0 /\ function_stack = <<>>
      /\ builder_block = NoDecl
  BY DEF Init
<1>2. ModulesNest(call_stack, builder_module) /\ BlocksNest(call_stack, builder_block)
  BY <1>1 DEF ModulesNest, BlocksNest
<1>3. FunctionsNest(call_stack, function_stack)
  <2> DEFINE F == [i \in 0 .. 0 |-> <<>>]
  <2>1. F \in [0 .. 0 -> Seq(Decl)] /\ F[0] = <<>>
    BY EmptySeq
  <2> HIDE DEF F
  <2> QED  BY <1>1, <2>1 DEF FunctionsNest
<1> QED  BY <1>2, <1>3 DEF Nesting

LEMMA NextNesting == TypeOK /\ Nesting /\ [Next]_vars => Nesting'
<1> SUFFICES ASSUME TypeOK, Nesting, [Next]_vars  PROVE Nesting'
  OBVIOUS
<1>1. CASE VisitRoot
  <2> DEFINE d == prog.roots[next_root]
  <2>1. next_root \in 1 .. Len(prog.roots)
    BY <1>1, ProgramFacts, LenProperties DEF VisitRoot, TypeOK
  <2>2. d \in Decl
    BY <2>1, ProgramFacts, ElementOfSeq
  <2>3. prog.mod[d] \in Module /\ <<>> \in Seq(Frame)
    BY <2>2, ProgramFacts, EmptySeq
  <2>4. Analyse(d, <<>>, prog.mod[d]) /\ call_stack = <<>> /\ prog' = prog
    BY <1>1 DEF VisitRoot
  <2> HIDE DEF d
  <2>5. Pushed(d, <<>>, prog.mod[d]) \/ Returned(<<>>, prog.mod[d])
    BY <2>2, <2>3, <2>4, AnalyseEffect
  <2>6. ModulesNest(<<>>, prog.mod[d])
    BY DEF ModulesNest
  <2>7. BlocksNest(<<>>, builder_block) /\ FunctionsNest(<<>>, function_stack)
    BY <2>4 DEF Nesting
  <2> QED  BY <2>2, <2>3, <2>4, <2>5, <2>6, <2>7, CallNests
<1>2. CASE DemandAnalysis \/ DemandValue
  <2>1. call_stack # <<>> /\ Request.to \in Decl /\ builder_module \in Module
    BY <1>2, RequestFacts DEF DemandAnalysis, DemandValue, Busy, Running, TypeOK
  <2>2. /\ MarkCalled \in Seq(Frame)
        /\ ModulesNest(MarkCalled, builder_module)
        /\ BlocksNest(MarkCalled, builder_block)
        /\ FunctionsNest(MarkCalled, function_stack)
    BY <2>1, RewriteNests
  <2>3. Analyse(Request.to, MarkCalled, builder_module) /\ prog' = prog
    BY <1>2 DEF DemandAnalysis, DemandValue, Analyse
  <2>4. \/ Pushed(Request.to, MarkCalled, builder_module)
        \/ Returned(MarkCalled, builder_module)
    BY <2>1, <2>2, <2>3, AnalyseEffect
  <2> QED  BY <2>1, <2>2, <2>3, <2>4, CallNests
<1>3. CASE DemandKnownValue \/ CheckResolved \/ ReadValue \/ ResolveFunction
  <2>1. call_stack # <<>> /\ prog' = prog
    BY <1>3 DEF DemandKnownValue, CheckResolved, ReadValue, ResolveFunction,
                SigDone, Busy, Running
  <2>2. /\ call_stack' \in {MarkCalled, MoveOn, EnterBody}
        /\ UNCHANGED <<builder_module, builder_block, function_stack>>
    BY <1>3 DEF DemandKnownValue, CheckResolved, ReadValue, ResolveFunction
  <2>3. /\ ModulesNest(call_stack', builder_module)
        /\ BlocksNest(call_stack', builder_block)
        /\ FunctionsNest(call_stack', function_stack)
    BY <2>1, <2>2, RewriteNests
  <2> QED  BY <2>1, <2>2, <2>3, PrimedNesting
<1>4. CASE ResolveScope
  <2>1. call_stack # <<>> /\ prog' = prog
        /\ UNCHANGED <<builder_module, builder_block, function_stack>>
    BY <1>4 DEF ResolveScope, SigDone, Running
  <2>2. CASE call_stack' = call_stack
    BY <2>1, <2>2, PrimedNesting DEF Nesting
  <2>3. CASE call_stack' = EnterBody
    <3>1. /\ ModulesNest(call_stack', builder_module)
          /\ BlocksNest(call_stack', builder_block)
          /\ FunctionsNest(call_stack', function_stack)
      BY <2>1, <2>3, RewriteNests
    <3> QED  BY <2>1, <3>1, PrimedNesting
  <2> QED  BY <1>4, <2>2, <2>3 DEF ResolveScope
<1>5. CASE ResolveGlobal \/ LeaveScope
  <2>1. /\ call_stack # <<>> /\ prog' = prog /\ Return
        /\ UNCHANGED <<function_stack, builder_block>>
        /\ KindOf(Top.decl) \notin Functions
    BY <1>5 DEF ResolveGlobal, LeaveScope, SigDone, BodyDone, Running,
                Variables, Functions
  <2>2. builder_block = Top.prev_block
    BY <2>1, BlockOfTop DEF BlockInside, Functions
  <2> QED  BY <2>1, <2>2, ReturnNests
<1>6. CASE LeaveFunction
  <2>1. /\ call_stack # <<>> /\ prog' = prog /\ Return
        /\ KindOf(Top.decl) \in Functions
        /\ function_stack' = Front(function_stack)
        /\ builder_block' = Top.prev_block
    BY <1>6 DEF LeaveFunction, LeaveBlocks, BodyDone, Running
  <2> QED  BY <2>1, ReturnNests
<1>7. CASE AbortOnValue \/ Finish \/ UNCHANGED vars
  BY <1>7, PrimedNesting DEF Nesting, AbortOnValue, Finish, vars
<1> QED  BY <1>1, <1>2, <1>3, <1>4, <1>5, <1>6, <1>7 DEF Next

LEMMA NestingContext == TypeOK /\ Nesting => BuildContext
<1> SUFFICES ASSUME TypeOK, Nesting, Running  PROVE BuildContext
  BY DEF BuildContext
<1>1. /\ call_stack \in Seq(Frame) /\ call_stack # <<>>
      /\ function_stack \in Seq(Decl)
      /\ Top = call_stack[Len(call_stack)]
      /\ Len(call_stack) \in 1 .. Len(call_stack)
  BY TopFacts DEF TypeOK, Running, Top, Depth
<1>2. builder_module = prog.mod[Top.decl]
  BY <1>1 DEF Nesting, ModulesNest
<1>3. KindOf(Top.decl) = "Function" => builder_block = Top.decl
  BY <1>1, BlockOfTop DEF BlockInside
<1>4. KindOf(Top.decl) \in Functions =>
        function_stack # <<>> /\ Last(function_stack) = Top.decl
  BY <1>1, FunctionsPop DEF Nesting
<1> QED  BY <1>2, <1>3, <1>4 DEF BuildContext

(* Whatever the order in which declarations are demanded, and however deep   *)
(* analyse recurses, an instruction is built into the module, the function   *)
(* and the function type of the declaration it belongs to.                   *)
THEOREM BuildsInContext == Spec => []BuildContext
<1>1. Init => TypeOK /\ Nesting
  BY InitTypeOK, InitNesting
<1>2. TypeOK /\ Nesting /\ [Next]_vars => (TypeOK /\ Nesting)'
  BY NextTypeOK, NextNesting
<1>3. TypeOK /\ Nesting => BuildContext
  BY NestingContext
<1> QED  BY <1>1, <1>2, <1>3, PTL DEF Spec

===============================================================================
