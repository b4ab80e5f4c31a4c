-------------------------- MODULE AnalyserCompletion --------------------------
(*****************************************************************************)
(* What an analysis that ends without an error has done, for every set of    *)
(* declarations, modules and well-formed programs: each declaration is       *)
(* emitted once, all that was started is known, no global depends on itself, *)
(* and the analysis implements its abstract specification Resolution.        *)
(*                                                                           *)
(* The invariants say what an activation on the call stack has got already   *)
(* and what still waits for it; they are operators of the stack and of the   *)
(* mapping, so that a lemma about them speaks of one state only.             *)
(*****************************************************************************)
EXTENDS AnalyserProofs

KnownAs == {"inst", "literal"}
Waiting == {"pending", "poison"}

AgendaOf(fr) ==
  IF fr.phase = "sig" THEN prog.sig[fr.decl] ELSE prog.body[fr.decl]

(* An activation and the state of its declaration in the mapping.            *)
Shape(fr, m) ==
  /\ fr.decl \notin Interpreted
  /\ m[fr.decl] # "none"
  /\ KindOf(fr.decl) \in Variables => fr.phase = "sig"
  /\ fr.decl \in Scopes => m[fr.decl] = "literal"
  /\ fr.decl \notin Scopes /\ fr.phase = "sig" => m[fr.decl] \in Waiting

(* A request that was made, and is not checked yet, started what it asked    *)
(* for.                                                                      *)
Starts(item) == item.how \in {"analyse", "visit"} \/ Evaluated(item.to)
Asked(fr, m) ==
  fr.called =>
    /\ fr.pc <= Len(AgendaOf(fr))
    /\ Starts(AgendaOf(fr)[fr.pc]) => m[AgendaOf(fr)[fr.pc].to] # "none"

(* The requests before the present one were served: in the signature their   *)
(* values are known, in a scope the definitions are started.                 *)
Served(fr, m) ==
  \A k \in 1 .. Len(AgendaOf(fr)) : k < fr.pc =>
    /\ fr.phase = "sig" /\ Evaluated(AgendaOf(fr)[k].to) =>
         m[AgendaOf(fr)[k].to] \in KnownAs
    /\ fr.phase = "body" /\ fr.decl \in Scopes =>
         m[AgendaOf(fr)[k].to] # "none"

FrameOK(fr, m) == Shape(fr, m) /\ Asked(fr, m) /\ Served(fr, m)

(* A declaration is under analysis once.                                     *)
DistinctOn(s) == \A i, j \in 1 .. Len(s) : s[i].decl = s[j].decl => i = j

Stacked(s, m) == DistinctOn(s) /\ \A i \in 1 .. Len(s) : FrameOK(s[i], m)

(* A declaration is on the stack, and one whose signature is analysed.       *)
On(s, d) == \E i \in 1 .. Len(s) : s[i].decl = d
OpenOn(s, d) == \E i \in 1 .. Len(s) : s[i].decl = d /\ s[i].phase = "sig"

(* What is undecided without an error is about to be decided; a scope that   *)
(* was started is laid out and its definitions started, unless an activation *)
(* still does so.                                                            *)
PendingOpen(s, m, errors) ==
  errors = 0 => \A d \in Decl \ Interpreted : m[d] = "pending" => OpenOn(s, d)
ScopesLaidOut(s, m, laid) ==
  \A d \in Scopes : m[d] # "none" => d \in laid \/ OpenOn(s, d)
ScopesVisited(s, m) ==
  \A d \in Scopes : m[d] # "none" =>
    \/ On(s, d)
    \/ \A k \in 1 .. Len(prog.body[d]) : m[prog.body[d][k].to] # "none"

RootsVisited(m, next) ==
  \A i \in 1 .. Len(prog.roots) : i < next => m[prog.roots[i]] # "none"

(* At the end nothing is on the stack and all modules were visited.          *)
AtEnd == status = "done" => call_stack = <<>> /\ next_root > Len(prog.roots)

(* The dependencies of what is known are known, and have no cycle.           *)
KnownIn(m) == {d \in Decl : m[d] \in KnownAs}
NeedsKnown(m) == \A d \in KnownIn(m) : NeededFirst(d) \subseteq KnownIn(m)
NoCycle(m) ==
  \A T \in SUBSET {d \in KnownIn(m) : KindOf(d) \in Variables} :
    T # {} => \E d \in T : Needs(d) \cap T = {}

(* What was emitted, and what the mapping says of it.                        *)
EmittedIn(r, d) == \E i \in DOMAIN r : r[i].decl = d
Emission(r, m) ==
  /\ \A i, j \in DOMAIN r : r[i].decl = r[j].decl => i = j
  /\ \A i \in DOMAIN r : r[i].mod = prog.mod[r[i].decl]
  /\ \A d \in Decl : m[d] = "inst" => EmittedIn(r, d)
  /\ \A d \in Decl : KindOf(d) \in Functions /\ m[d] # "none" => EmittedIn(r, d)
  /\ \A d \in Decl : EmittedIn(r, d) =>
       m[d] # "none" /\ (KindOf(d) \in Variables => m[d] = "inst")

(* The parts of the invariant that speak of the stack, and all of it.        *)
Stacking ==
  /\ WellFormed(prog)
  /\ Stacked(call_stack, resolved_mapping)
  /\ PendingOpen(call_stack, resolved_mapping, error_count)
  /\ ScopesLaidOut(call_stack, resolved_mapping, laid_out)
  /\ ScopesVisited(call_stack, resolved_mapping)

Completing ==
  /\ Stacking
  /\ Emission(rir, resolved_mapping)
  /\ RootsVisited(resolved_mapping, next_root)
  /\ NeedsKnown(resolved_mapping)
  /\ NoCycle(resolved_mapping)
  /\ AtEnd

-------------------------------------------------------------------------------
(* What the requests of an activation are, and what a well-formed program    *)
(* asks for in a signature and in a scope.                                   *)
LEMMA AgendaFacts ==
  ASSUME TypeOK, NEW fr \in Frame
  PROVE  /\ fr.decl \in Decl /\ fr.pc \in Nat \ {0} /\ fr.called \in BOOLEAN
         /\ fr.phase \in {"sig", "body"}
         /\ Len(AgendaOf(fr)) \in Nat
         /\ \A k \in 1 .. Len(AgendaOf(fr)) :
              AgendaOf(fr)[k] \in Item /\ AgendaOf(fr)[k].to \in Decl
<1>1. /\ fr.decl \in Decl /\ fr.pc \in Nat \ {0} /\ fr.called \in BOOLEAN
      /\ fr.phase \in {"sig", "body"}
  BY DEF Frame
<1>2. AgendaOf(fr) \in Seq(Item)
  BY <1>1, ProgramFacts DEF AgendaOf
<1>3. \A k \in 1 .. Len(AgendaOf(fr)) : AgendaOf(fr)[k] \in Item
  BY <1>2, ElementOfSeq
<1> QED  BY <1>1, <1>2, <1>3, LenProperties DEF Item

LEMMA RequestsOfScopes ==
  ASSUME TypeOK, WellFormed(prog), NEW d \in Decl
  PROVE  /\ \A k \in 1 .. Len(prog.sig[d]) : prog.sig[d][k].how \in {"value", "layout"}
         /\ d \in Scopes => \A k \in 1 .. Len(prog.body[d]) : prog.body[d][k].how = "visit"
<1>1. prog.sig[d] \in Seq([to : Decl, how : {"value", "layout"}])
  BY DEF WellFormed
<1>2. \A k \in 1 .. Len(prog.sig[d]) : prog.sig[d][k] \in [to : Decl, how : {"value", "layout"}]
  BY <1>1, ElementOfSeq
<1>3. ASSUME d \in Scopes
      PROVE  \A k \in 1 .. Len(prog.body[d]) : prog.body[d][k].how = "visit"
  <2> DEFINE near == {e \in Decl : prog.mod[e] = prog.mod[d]}
  <2>1. prog.body[d] \in Seq([to : near, how : {"visit"}])
    BY <1>3 DEF WellFormed, Scopes, KindOf
  <2> HIDE DEF near
  <2>2. \A k \in 1 .. Len(prog.body[d]) : prog.body[d][k] \in [to : near, how : {"visit"}]
    BY <2>1, ElementOfSeq
  <2> QED  BY <2>2
<1> QED  BY <1>2, <1>3

LEMMA ScopeBodies ==
  ASSUME TypeOK
  PROVE  \A d \in Scopes :
           /\ d \in Decl
           /\ \A k \in 1 .. Len(prog.body[d]) : k \in Nat /\ prog.body[d][k].to \in Decl
<1> SUFFICES ASSUME NEW d \in Scopes
             PROVE  /\ d \in Decl
                    /\ \A k \in 1 .. Len(prog.body[d]) :
                         k \in Nat /\ prog.body[d][k].to \in Decl
  OBVIOUS
<1>1. d \in Decl
  BY DEF Scopes
<1>2. \A k \in 1 .. Len(prog.body[d]) : prog.body[d][k] \in Item
  BY <1>1, ProgramFacts, ElementOfSeq
<1> QED  BY <1>1, <1>2 DEF Item

-------------------------------------------------------------------------------
(* The mapping only moves forward: what is started stays started, what is    *)
(* known stays as it is.                                                     *)
Mapping == [Decl -> Resolutions]
Grows(m, n) ==
  \A e \in Decl : \/ n[e] = m[e]
                  \/ m[e] = "none"
                  \/ m[e] \in Waiting /\ n[e] # "none"

(* The step does not decide d.                                               *)
Leaves(m, n, d) ==
  n[d] = m[d] \/ m[d] = "none" \/ (m[d] = "pending" /\ n[d] = "poison")

LEMMA FrameGrows ==
  ASSUME TypeOK, NEW m \in Mapping, NEW n \in Mapping, Grows(m, n),
         NEW fr \in Frame
  PROVE  /\ Shape(fr, m) /\ Leaves(m, n, fr.decl) => Shape(fr, n)
         /\ Asked(fr, m) => Asked(fr, n)
         /\ Served(fr, m) => Served(fr, n)
<1> USE AgendaFacts
<1>1. Shape(fr, m) /\ Leaves(m, n, fr.decl) => Shape(fr, n)
  BY DEF Shape, Leaves, Waiting
<1>2. Asked(fr, m) => Asked(fr, n)
  BY DEF Asked, Grows, Waiting
<1>3. Served(fr, m) => Served(fr, n)
  BY DEF Served, Grows, Waiting, KnownAs
<1> QED  BY <1>1, <1>2, <1>3

-------------------------------------------------------------------------------
(* The stack after the top activation went on, as x.                         *)
Replaced(s, x) ==
  /\ s \in Seq(Frame)
  /\ Len(s) = Len(call_stack)
  /\ \A i \in 1 .. Len(s) : s[i] = IF i = Len(call_stack) THEN x ELSE call_stack[i]

LEMMA TopOfStack ==
  ASSUME TypeOK, call_stack # <<>>
  PROVE  /\ call_stack \in Seq(Frame)
         /\ Len(call_stack) \in Nat \ {0} /\ Len(call_stack) \in DOMAIN call_stack
         /\ Len(call_stack) \in 1 .. Len(call_stack)
         /\ Depth = Len(call_stack) /\ Top = call_stack[Len(call_stack)]
         /\ Top \in Frame /\ Top.decl \in Decl
         /\ Agenda = AgendaOf(Top)
         /\ Len(Agenda) \in Nat
         /\ \A k \in 1 .. Len(Agenda) : Agenda[k] \in Item /\ Agenda[k].to \in Decl
<1>1. Agenda = AgendaOf(Top)
  BY DEF Agenda, AgendaOf
<1> QED  BY <1>1, TopFacts, AgendaFacts DEF TypeOK, Depth, Top

LEMMA ReplaceTop ==
  ASSUME TypeOK, call_stack # <<>>, NEW x \in Frame
  PROVE  Replaced([call_stack EXCEPT ![Depth] = x], x)
BY TopOfStack, ExceptSeq DEF Replaced

Becomes(x, fr, phase, n) ==
  x \in Frame /\ x.decl = fr.decl /\ x.phase = phase /\ x.pc = n
Idle(x) == ~x.called

LEMMA FrameFields ==
  ASSUME NEW fr \in Frame, NEW b \in BOOLEAN, NEW n \in Nat \ {0}
  PROVE  /\ Becomes([fr EXCEPT !.called = b], fr, fr.phase, fr.pc)
         /\ Becomes([fr EXCEPT !.pc = n, !.called = b], fr, fr.phase, n)
         /\ ~b => Idle([fr EXCEPT !.pc = n, !.called = b])
         /\ Becomes([fr EXCEPT !.phase = "body", !.pc = n], fr, "body", n)
         /\ Idle(fr) => Idle([fr EXCEPT !.phase = "body", !.pc = n])
<1>1. /\ Becomes([fr EXCEPT !.called = b], fr, fr.phase, fr.pc)
      /\ Becomes([fr EXCEPT !.pc = n, !.called = b], fr, fr.phase, n)
  BY DEF Frame, Becomes
<1>2. ~b => Idle([fr EXCEPT !.pc = n, !.called = b])
  BY DEF Frame, Idle
<1>3. Becomes([fr EXCEPT !.phase = "body", !.pc = n], fr, "body", n)
  BY DEF Frame, Becomes
<1>4. Idle(fr) => Idle([fr EXCEPT !.phase = "body", !.pc = n])
  BY DEF Frame, Idle
<1> QED  BY <1>1, <1>2, <1>3, <1>4

LEMMA MarkingCalled ==
  ASSUME TypeOK, call_stack # <<>>
  PROVE  \E x \in Frame : /\ Replaced(MarkCalled, x)
                          /\ Becomes(x, Top, Top.phase, Top.pc)
<1> DEFINE x == [Top EXCEPT !.called = TRUE]
<1>1. 1 \in Nat \ {0} /\ Top \in Frame
  BY TopOfStack
<1>2. Becomes(x, Top, Top.phase, Top.pc)
  BY <1>1, FrameFields
<1>3. MarkCalled = [call_stack EXCEPT ![Depth] = x]
  BY TopOfStack DEF MarkCalled
<1> HIDE DEF x
<1> QED  BY <1>2, <1>3, ReplaceTop DEF Becomes

LEMMA MovingOn ==
  ASSUME TypeOK, call_stack # <<>>
  PROVE  \E x \in Frame : /\ Replaced(MoveOn, x)
                          /\ Becomes(x, Top, Top.phase, Top.pc + 1) /\ Idle(x)
<1> DEFINE x == [Top EXCEPT !.pc = Top.pc + 1, !.called = FALSE]
<1>1. Top.pc + 1 \in Nat \ {0} /\ Top \in Frame
  BY TopFacts
<1>2. Becomes(x, Top, Top.phase, Top.pc + 1) /\ Idle(x)
  BY <1>1, FrameFields
<1>3. MoveOn = [call_stack EXCEPT ![Depth] = x]
  BY TopOfStack DEF MoveOn
<1> HIDE DEF x
<1> QED  BY <1>2, <1>3, ReplaceTop DEF Becomes

LEMMA EnteringBody ==
  ASSUME TypeOK, call_stack # <<>>, Idle(Top)
  PROVE  \E x \in Frame : /\ Replaced(EnterBody, x)
                          /\ Becomes(x, Top, "body", 1) /\ Idle(x)
<1> DEFINE x == [Top EXCEPT !.phase = "body", !.pc = 1]
<1>1. 1 \in Nat \ {0} /\ Top \in Frame
  BY TopFacts
<1>2. Becomes(x, Top, "body", 1) /\ Idle(x)
  BY <1>1, FrameFields
<1>3. EnterBody = [call_stack EXCEPT ![Depth] = x]
  BY TopOfStack DEF EnterBody
<1> HIDE DEF x
<1> QED  BY <1>2, <1>3, ReplaceTop DEF Becomes

-------------------------------------------------------------------------------
(* What going on, a push and a pop do to the invariants of the stack.        *)
LEMMA StackedReplace ==
  ASSUME TypeOK, call_stack # <<>>,
         NEW m \in Mapping, NEW n \in Mapping, Grows(m, n),
         \A e \in Decl \ {Top.decl} : Leaves(m, n, e),
         Stacked(call_stack, m),
         NEW x \in Frame, x.decl = Top.decl, FrameOK(x, n),
         NEW s, Replaced(s, x)
  PROVE  Stacked(s, n)
<1>1. /\ Len(call_stack) \in 1 .. Len(call_stack) /\ Len(s) = Len(call_stack)
      /\ Top = call_stack[Len(call_stack)]
      /\ \A i \in 1 .. Len(s) : s[i] = IF i = Len(s) THEN x ELSE call_stack[i]
  BY TopOfStack DEF Replaced
<1>2. \A i \in 1 .. Len(s) : s[i].decl = call_stack[i].decl
  BY <1>1
<1>3. DistinctOn(s)
  BY <1>1, <1>2 DEF Stacked, DistinctOn
<1>4. ASSUME NEW i \in 1 .. Len(s)
      PROVE  FrameOK(s[i], n)
  <2>1. CASE i = Len(s)
    BY <1>1, <2>1
  <2>2. CASE i # Len(s)
    <3>1. PICK fr \in Frame : fr = call_stack[i]
      BY <1>1, TopOfStack, ElementOfSeq
    <3>2. s[i] = fr /\ FrameOK(fr, m) /\ fr.decl # Top.decl /\ fr.decl \in Decl
      BY <1>1, <2>2, <3>1 DEF Stacked, DistinctOn, Frame
    <3>3. FrameOK(fr, n)
      BY <3>2, FrameGrows DEF FrameOK
    <3> QED  BY <3>2, <3>3
  <2> QED  BY <2>1, <2>2
<1> QED  BY <1>3, <1>4 DEF Stacked

LEMMA StackedPush ==
  ASSUME NEW m, NEW s \in Seq(Frame), NEW fr \in Frame,
         Stacked(s, m), FrameOK(fr, m), ~On(s, fr.decl)
  PROVE  Stacked(Append(s, fr), m)
<1> DEFINE t == Append(s, fr)
<1>1. /\ Len(t) = Len(s) + 1 /\ Len(s) \in Nat /\ t[Len(t)] = fr
      /\ \A i \in 1 .. Len(s) : t[i] = s[i]
  BY Pushes
<1> HIDE DEF t
<1>2. \A i \in 1 .. Len(t) : i = Len(t) \/ i \in 1 .. Len(s)
  BY <1>1
<1>3. DistinctOn(t)
  <2> SUFFICES ASSUME NEW i \in 1 .. Len(t), NEW j \in 1 .. Len(t),
                      t[i].decl = t[j].decl
               PROVE  i = j
    BY DEF DistinctOn
  <2>1. CASE i \in 1 .. Len(s) /\ j \in 1 .. Len(s)
    BY <1>1, <2>1 DEF Stacked, DistinctOn
  <2>2. CASE i = Len(t) \/ j = Len(t)
    BY <1>1, <1>2, <2>2 DEF On
  <2> QED  BY <1>2, <2>1, <2>2
<1>4. \A i \in 1 .. Len(t) : FrameOK(t[i], m)
  BY <1>1, <1>2 DEF Stacked
<1> QED  BY <1>3, <1>4 DEF Stacked, t

LEMMA StackedPop ==
  ASSUME TypeOK, call_stack # <<>>,
         NEW m \in Mapping, NEW n \in Mapping, Grows(m, n),
         \A e \in Decl \ {Top.decl} : Leaves(m, n, e),
         Stacked(call_stack, m)
  PROVE  Stacked(SubSeq(call_stack, 1, Depth - 1), n)
<1> DEFINE t == SubSeq(call_stack, 1, Depth - 1)
<1>1. /\ Len(call_stack) \in Nat \ {0} /\ Len(t) = Len(call_stack) - 1
      /\ \A i \in 1 .. Len(t) : t[i] = call_stack[i]
  BY TopOfStack, FramePops
<1> HIDE DEF t
<1>2. \A i \in 1 .. Len(t) : i \in 1 .. Len(call_stack) /\ i # Len(call_stack)
  BY <1>1
<1>3. DistinctOn(t)
  BY <1>1, <1>2 DEF Stacked, DistinctOn
<1>4. ASSUME NEW i \in 1 .. Len(t)
      PROVE  FrameOK(t[i], n)
  <2>1. PICK fr \in Frame : fr = call_stack[i]
    BY <1>2, TopOfStack, ElementOfSeq
  <2>2. t[i] = fr /\ FrameOK(fr, m) /\ fr.decl # Top.decl /\ fr.decl \in Decl
    BY <1>1, <1>2, <2>1, TopOfStack DEF Stacked, DistinctOn, Frame
  <2>3. FrameOK(fr, n)
    BY <2>2, FrameGrows DEF FrameOK
  <2> QED  BY <2>2, <2>3
<1>5. Stacked(t, n)
  BY <1>3, <1>4 DEF Stacked
<1> QED  BY <1>5 DEF t

LEMMA OnReplace ==
  ASSUME TypeOK, call_stack # <<>>, NEW x \in Frame, x.decl = Top.decl,
         NEW s, Replaced(s, x), NEW d
  PROVE  /\ On(s, d) <=> On(call_stack, d)
         /\ OpenOn(call_stack, d) /\ (x.phase = Top.phase \/ d # Top.decl)
              => OpenOn(s, d)
BY TopOfStack DEF Replaced, On, OpenOn

LEMMA OnPush ==
  ASSUME NEW s \in Seq(Frame), NEW fr \in Frame, NEW d
  PROVE  /\ On(s, d) => On(Append(s, fr), d)
         /\ OpenOn(s, d) => OpenOn(Append(s, fr), d)
         /\ On(Append(s, fr), fr.decl)
         /\ fr.phase = "sig" => OpenOn(Append(s, fr), fr.decl)
<1> DEFINE t == Append(s, fr)
<1>1. /\ Len(t) = Len(s) + 1 /\ Len(s) \in Nat /\ t[Len(t)] = fr
      /\ \A i \in 1 .. Len(s) : t[i] = s[i]
  BY Pushes
<1> HIDE DEF t
<1>2. Len(t) \in 1 .. Len(t) /\ \A i \in 1 .. Len(s) : i \in 1 .. Len(t)
  BY <1>1
<1>3. /\ On(s, d) => On(t, d)
      /\ OpenOn(s, d) => OpenOn(t, d)
      /\ On(t, fr.decl)
      /\ fr.phase = "sig" => OpenOn(t, fr.decl)
  BY <1>1, <1>2 DEF On, OpenOn
<1> QED  BY <1>3 DEF t

LEMMA OnPop ==
  ASSUME TypeOK, call_stack # <<>>, NEW d,
         NEW t, t = SubSeq(call_stack, 1, Depth - 1)
  PROVE  /\ On(call_stack, d) /\ d # Top.decl => On(t, d)
         /\ OpenOn(call_stack, d) /\ (d # Top.decl \/ Top.phase = "body")
              => OpenOn(t, d)
<1>0. t = SubSeq(call_stack, 1, Len(call_stack) - 1) /\ call_stack \in Seq(Frame)
      /\ Top = call_stack[Len(call_stack)]
  BY TopOfStack
<1>1. /\ Len(call_stack) \in Nat \ {0} /\ Len(t) = Len(call_stack) - 1
      /\ \A i \in 1 .. Len(t) : t[i] = call_stack[i]
  BY <1>0, FramePops
<1>2. \A i \in 1 .. Len(call_stack) : i = Len(call_stack) \/ i \in 1 .. Len(t)
  <2>1. PICK n \in Nat \ {0} : n = Len(call_stack)
    BY <1>1
  <2>2. \A i \in 1 .. n : i = n \/ i \in 1 .. (n - 1)
    OBVIOUS
  <2>3. Len(t) = n - 1
    BY <1>1, <2>1
  <2> QED  BY <2>1, <2>2, <2>3
<1>3. On(call_stack, d) /\ d # Top.decl => On(t, d)
  BY <1>0, <1>1, <1>2 DEF On
<1>4. OpenOn(call_stack, d) /\ (d # Top.decl \/ Top.phase = "body") => OpenOn(t, d)
  BY <1>0, <1>1, <1>2 DEF OpenOn
<1> QED  BY <1>3, <1>4

-------------------------------------------------------------------------------
(* What a call of analyse answers: it opens an activation for d, marks a     *)
(* comptime function, reports a cycle, or finds d decided.                   *)
Opened(d, stack, s) ==
  \E fr \in Frame : /\ fr.decl = d /\ fr.phase = "sig" /\ fr.pc = 1 /\ Idle(fr)
                    /\ s = Append(stack, fr)

Answer(d, stack, m, n, s, errors, reported) ==
  \/ /\ m[d] = "none" /\ d \notin Interpreted /\ d \notin Scopes
     /\ n = [m EXCEPT ![d] = "pending"]
     /\ Opened(d, stack, s) /\ reported = errors
  \/ /\ m[d] = "none" /\ d \in Scopes
     /\ n = [m EXCEPT ![d] = "literal"]
     /\ Opened(d, stack, s) /\ reported = errors
  \/ /\ m[d] = "none" /\ d \in Interpreted
     /\ n = [m EXCEPT ![d] = "pending"]
     /\ s = stack /\ reported = errors
  \/ /\ m[d] = "pending"
     /\ n = [m EXCEPT ![d] = "poison"]
     /\ s = stack /\ reported = errors + 1
  \/ /\ m[d] \notin {"none", "pending"}
     /\ n = m /\ s = stack /\ reported = errors

LEMMA PushOpens ==
  ASSUME TypeOK, NEW d \in Decl, NEW stack \in Seq(Frame), NEW from \in Module,
         Push(d, stack, from)
  PROVE  Opened(d, stack, call_stack')
<1> DEFINE fr == [decl |-> d, phase |-> "sig", pc |-> 1, called |-> FALSE,
                  prev_module |-> from, prev_block |-> builder_block]
<1>1. fr \in Frame
  BY DEF Frame, TypeOK
<1>2. fr.decl = d /\ fr.phase = "sig" /\ fr.pc = 1 /\ Idle(fr)
  BY DEF Idle
<1>3. call_stack' = Append(stack, fr)
  BY DEF Push
<1> HIDE DEF fr
<1> QED  BY <1>1, <1>2, <1>3 DEF Opened

LEMMA AnalyseAnswers ==
  ASSUME TypeOK, NEW d \in Decl, NEW stack \in Seq(Frame), NEW from \in Module,
         Analyse(d, stack, from)
  PROVE  Answer(d, stack, resolved_mapping, resolved_mapping', call_stack',
                error_count, error_count')
<1>1. CASE Begin(d, stack, from)
  <2>1. resolved_mapping[d] = "none" /\ error_count' = error_count
    BY <1>1 DEF Begin
  <2>2. CASE BeginGlobal(d, stack, from) \/ BeginFunction(d, stack, from)
    <3>1. d \notin Interpreted /\ d \notin Scopes
      BY <2>2 DEF BeginGlobal, BeginFunction, Interpreted, Scopes, Variables, Functions
    <3>2. Opened(d, stack, call_stack')
      BY <2>2, PushOpens DEF BeginGlobal, BeginFunction
    <3>3. resolved_mapping' = [resolved_mapping EXCEPT ![d] = "pending"]
      BY <2>2 DEF BeginGlobal, BeginFunction
    <3> QED  BY <2>1, <3>1, <3>2, <3>3 DEF Answer
  <2>3. CASE BeginComptimeFunction(d, stack, from)
    BY <2>1, <2>3 DEF BeginComptimeFunction, Interpreted, Answer
  <2>4. CASE BeginScope(d, stack, from)
    <3>1. Opened(d, stack, call_stack')
      BY <2>4, PushOpens DEF BeginScope
    <3> QED  BY <2>1, <2>4, <3>1 DEF BeginScope, Scopes, Answer
  <2> QED  BY <1>1, <2>2, <2>3, <2>4 DEF Begin
<1>2. CASE ReportCycle(d, stack, from)
  BY <1>2 DEF ReportCycle, Answer
<1>3. CASE AlreadyAnalysed(d, stack, from)
  BY <1>3 DEF AlreadyAnalysed, Answer
<1> QED  BY <1>1, <1>2, <1>3 DEF Analyse

(* What an answer does to the mapping.                                       *)
KnownStep(m, n) ==
  \/ KnownIn(n) = KnownIn(m)
  \/ \E d \in Decl \ KnownIn(m) : /\ KnownIn(n) = KnownIn(m) \cup {d}
                                  /\ NeededFirst(d) \subseteq KnownIn(m)
                                  /\ n[d] # "none"
StartStep(m, n) ==
  \/ \A e \in Decl : n[e] # "none" <=> m[e] # "none"
  \/ \E d \in Decl : /\ m[d] = "none"
                     /\ \A e \in Decl : n[e] # "none" <=> m[e] # "none" \/ e = d

LEMMA AnswerMapping ==
  ASSUME TypeOK, NEW d \in Decl, NEW stack \in Seq(Frame), NEW s,
         NEW m \in Mapping, NEW n \in Mapping,
         NEW errors \in Nat, NEW reported \in Nat,
         Answer(d, stack, m, n, s, errors, reported)
  PROVE  /\ n[d] # "none"
         /\ Grows(m, n)
         /\ \A e \in Decl : Leaves(m, n, e)
         /\ (reported = 0 => errors = 0)
         /\ KnownStep(m, n) /\ StartStep(m, n)
<1> USE DEF Mapping
<1>1. n[d] # "none" /\ (reported = 0 => errors = 0)
  BY DEF Answer
<1>2. Grows(m, n) /\ \A e \in Decl : Leaves(m, n, e)
  BY DEF Answer, Grows, Leaves, Waiting
<1>3. KnownStep(m, n)
  <2>1. CASE n = [m EXCEPT ![d] = "literal"] /\ d \in Scopes /\ m[d] = "none"
    <3>1. KnownIn(n) = KnownIn(m) \cup {d} /\ d \notin KnownIn(m)
      BY <2>1 DEF KnownIn, KnownAs
    <3>2. NeededFirst(d) = {}
      BY <2>1 DEF NeededFirst
    <3> QED  BY <1>1, <3>1, <3>2 DEF KnownStep
  <2>2. CASE \/ n = [m EXCEPT ![d] = "pending"] /\ m[d] = "none"
             \/ n = [m EXCEPT ![d] = "poison"] /\ m[d] = "pending"
             \/ n = m
    <3>1. KnownIn(n) = KnownIn(m)
      BY <2>2 DEF KnownIn, KnownAs
    <3> QED  BY <3>1 DEF KnownStep
  <2> QED  BY <2>1, <2>2 DEF Answer
<1>4. StartStep(m, n)
  BY DEF Answer, StartStep
<1> QED  BY <1>1, <1>2, <1>3, <1>4

(* What an answer does to the invariants of the stack.                       *)
LEMMA AnswerStack ==
  ASSUME TypeOK, NEW d \in Decl, NEW stack \in Seq(Frame), NEW s,
         NEW m \in Mapping, NEW n \in Mapping,
         NEW errors \in Nat, NEW reported \in Nat, NEW laid,
         Answer(d, stack, m, n, s, errors, reported),
         Stacked(stack, n), m[d] = "none" => ~On(stack, d),
         PendingOpen(stack, m, errors), ScopesLaidOut(stack, m, laid),
         ScopesVisited(stack, m)
  PROVE  /\ Stacked(s, n)
         /\ PendingOpen(s, n, reported)
         /\ ScopesLaidOut(s, n, laid)
         /\ ScopesVisited(s, n)
<1>1. Grows(m, n) /\ (reported = 0 => errors = 0)
  <2>1. Grows(m, n)
    BY AnswerMapping
  <2>2. reported = 0 => errors = 0
    BY DEF Answer
  <2> QED  BY <2>1, <2>2
<1> USE DEF Mapping
<1>2. \A e \in Scopes : /\ e \in Decl
                        /\ \A k \in 1 .. Len(prog.body[e]) : prog.body[e][k].to \in Decl
  BY ScopeBodies
<1>3. \A e \in Scopes : (\A k \in 1 .. Len(prog.body[e]) : m[prog.body[e][k].to] # "none")
                          => \A k \in 1 .. Len(prog.body[e]) : n[prog.body[e][k].to] # "none"
  BY <1>1, <1>2 DEF Grows, Waiting
<1>4. CASE Opened(d, stack, s)
  <2>1. PICK fr \in Frame : /\ fr.decl = d /\ fr.phase = "sig" /\ fr.pc = 1
                            /\ Idle(fr) /\ s = Append(stack, fr)
    BY <1>4 DEF Opened
  <2>2. CASE m[d] = "none" /\ d \notin Interpreted
             /\ n = [m EXCEPT ![d] = IF d \in Scopes THEN "literal" ELSE "pending"]
    <3>1. Shape(fr, n)
      BY <2>1, <2>2 DEF Shape, Waiting
    <3>2. FrameOK(fr, n)
      BY <2>1, <3>1, AgendaFacts DEF FrameOK, Asked, Served, Idle
    <3>3. Stacked(s, n)
      BY <2>1, <2>2, <3>2, StackedPush
    <3>4. /\ \A e : On(stack, e) => On(s, e)
          /\ \A e : OpenOn(stack, e) => OpenOn(s, e)
          /\ On(s, d) /\ OpenOn(s, d)
      BY <2>1, OnPush
    <3>5. PendingOpen(s, n, reported)
      BY <1>1, <2>2, <3>4 DEF PendingOpen
    <3>6. ScopesLaidOut(s, n, laid)
      BY <1>2, <2>2, <3>4 DEF ScopesLaidOut
    <3>7. ScopesVisited(s, n)
      BY <1>2, <1>3, <2>2, <3>4 DEF ScopesVisited
    <3> QED  BY <3>3, <3>5, <3>6, <3>7
  <2>3. m[d] = "none" /\ d \notin Interpreted
        /\ n = [m EXCEPT ![d] = IF d \in Scopes THEN "literal" ELSE "pending"]
    <3>1. s # stack
      <4>1. Len(s) = Len(stack) + 1 /\ Len(stack) \in Nat
        BY <2>1, Pushes
      <4> QED  BY <4>1
    <3>2. d \in Scopes => d \notin Interpreted
      BY DEF Scopes, Interpreted
    <3> QED  BY <3>1, <3>2 DEF Answer
  <2> QED  BY <2>2, <2>3
<1>5. CASE s = stack
  <2>1. \/ m[d] = "none" /\ d \in Interpreted /\ n = [m EXCEPT ![d] = "pending"]
        \/ m[d] = "pending" /\ n = [m EXCEPT ![d] = "poison"] /\ reported = errors + 1
        \/ n = m /\ reported = errors
    <3>1. ASSUME Opened(d, stack, s)  PROVE FALSE
      <4>1. PICK fr \in Frame : s = Append(stack, fr)
        BY <3>1 DEF Opened
      <4>2. Len(s) = Len(stack) + 1 /\ Len(stack) \in Nat
        BY <4>1, Pushes
      <4> QED  BY <1>5, <4>2
    <3> QED  BY <3>1 DEF Answer
  <2>2. \A e \in Scopes : n[e] # "none" => m[e] # "none"
    BY <1>2, <2>1 DEF Scopes, Interpreted
  <2>3. PendingOpen(s, n, reported)
    BY <1>1, <1>5, <2>1 DEF PendingOpen
  <2>4. ScopesLaidOut(s, n, laid)
    BY <1>5, <2>2 DEF ScopesLaidOut
  <2>5. ScopesVisited(s, n)
    BY <1>3, <1>5, <2>2 DEF ScopesVisited
  <2> QED  BY <1>5, <2>3, <2>4, <2>5
<1> QED  BY <1>4, <1>5 DEF Answer

(* One more known declaration, whose needs were known before, keeps the      *)
(* order.                                                                    *)
LEMMA KnownOneMore ==
  ASSUME TypeOK, NEW m, NEW n, KnownStep(m, n), NeedsKnown(m), NoCycle(m)
  PROVE  NeedsKnown(n) /\ NoCycle(n)
<1>1. CASE KnownIn(n) = KnownIn(m)
  BY <1>1 DEF NeedsKnown, NoCycle
<1>2. ASSUME NEW d \in Decl \ KnownIn(m),
             KnownIn(n) = KnownIn(m) \cup {d}, NeededFirst(d) \subseteq KnownIn(m)
      PROVE  NeedsKnown(n) /\ NoCycle(n)
  <2>1. NeedsKnown(n)
    BY <1>2 DEF NeedsKnown
  <2>2. ASSUME NEW T \in SUBSET {e \in KnownIn(n) : KindOf(e) \in Variables}, T # {}
        PROVE  \E e \in T : Needs(e) \cap T = {}
    <3>1. \A e \in T : e \in Decl /\ KindOf(e) \in Variables
      BY DEF KnownIn
    <3>2. \A e \in T : Needs(e) \cap T \subseteq NeededFirst(e)
      BY <3>1 DEF NeededFirst, Evaluated, Scopes, Variables
    <3>3. CASE d \notin T
      <4>1. T \in SUBSET {e \in KnownIn(m) : KindOf(e) \in Variables}
        BY <1>2, <3>3
      <4> QED  BY <2>2, <4>1 DEF NoCycle
    <3>4. CASE T = {d}
      BY <1>2, <3>2, <3>4
    <3>5. CASE d \in T /\ T # {d}
      <4> DEFINE U == T \ {d}
      <4>1. U \in SUBSET {e \in KnownIn(m) : KindOf(e) \in Variables} /\ U # {}
        BY <1>2, <3>5
      <4>2. PICK e \in U : Needs(e) \cap U = {}
        BY <4>1 DEF NoCycle
      <4>3. d \notin Needs(e)
        BY <1>2, <3>2, <3>5, <4>1 DEF NeedsKnown
      <4> QED  BY <4>2, <4>3
    <3> QED  BY <3>3, <3>4, <3>5
  <2> QED  BY <2>1, <2>2 DEF NoCycle
<1> QED  BY <1>1, <1>2 DEF KnownStep

-------------------------------------------------------------------------------
(* The invariants of the stack, in one state and the next.                   *)
LEMMA PrimedStacking ==
  ASSUME prog' = prog, WellFormed(prog),
         Stacked(call_stack', resolved_mapping'),
         PendingOpen(call_stack', resolved_mapping', error_count'),
         ScopesLaidOut(call_stack', resolved_mapping', laid_out'),
         ScopesVisited(call_stack', resolved_mapping')
  PROVE  Stacking'
<1>1. WellFormed(prog)'
  OBVIOUS
<1> USE DEF KindOf, Scopes, Interpreted
<1>2. Stacked(call_stack, resolved_mapping)'
  BY ZenonT(60) DEF Stacked, DistinctOn, FrameOK, Shape, Asked, Served, AgendaOf, Starts, Evaluated
<1>3. PendingOpen(call_stack, resolved_mapping, error_count)'
  BY DEF PendingOpen, OpenOn
<1>4. ScopesLaidOut(call_stack, resolved_mapping, laid_out)'
  BY DEF ScopesLaidOut, OpenOn
<1>5. ScopesVisited(call_stack, resolved_mapping)'
  BY DEF ScopesVisited, On
<1> QED  BY <1>1, <1>2, <1>3, <1>4, <1>5 DEF Stacking

(* The activation on top, and what is on the stack.                          *)
LEMMA TopOK ==
  ASSUME TypeOK, Stacking, call_stack # <<>>
  PROVE  /\ FrameOK(Top, resolved_mapping)
         /\ On(call_stack, Top.decl)
         /\ \A d : On(call_stack, d) => resolved_mapping[d] # "none"
<1>1. FrameOK(Top, resolved_mapping) /\ On(call_stack, Top.decl)
  BY TopOfStack DEF Stacking, Stacked, On
<1>2. \A d : On(call_stack, d) => resolved_mapping[d] # "none"
  BY DEF Stacking, Stacked, On, FrameOK, Shape
<1> QED  BY <1>1, <1>2

LEMMA SameProgress ==
  ASSUME NEW x, NEW y, x.decl = y.decl, x.phase = y.phase, NEW m
  PROVE  /\ AgendaOf(x) = AgendaOf(y)
         /\ Shape(y, m) => Shape(x, m)
         /\ x.pc = y.pc => (Served(y, m) => Served(x, m))
<1>1. AgendaOf(x) = AgendaOf(y)
  BY DEF AgendaOf
<1>2. Shape(y, m) => Shape(x, m)
  BY DEF Shape
<1>3. ASSUME x.pc = y.pc, Served(y, m)  PROVE Served(x, m)
  BY <1>1, <1>3 DEF Served
<1> QED  BY <1>1, <1>2, <1>3

(* A request is made.                                                        *)
LEMMA MarkKeeps ==
  ASSUME TypeOK, Stacking, Busy,
         NEW n \in Mapping, Grows(resolved_mapping, n),
         \A e \in Decl : Leaves(resolved_mapping, n, e),
         Starts(Request) => n[Request.to] # "none"
  PROVE  /\ MarkCalled \in Seq(Frame)
         /\ Stacked(MarkCalled, n)
         /\ \A d : On(MarkCalled, d) => resolved_mapping[d] # "none"
         /\ PendingOpen(MarkCalled, resolved_mapping, error_count)
         /\ ScopesLaidOut(MarkCalled, resolved_mapping, laid_out)
         /\ ScopesVisited(MarkCalled, resolved_mapping)
<1> DEFINE m == resolved_mapping
<1>1. call_stack # <<>> /\ m \in Mapping /\ Top.pc <= Len(Agenda)
  BY DEF Busy, Running, TypeOK, Mapping
<1>2. PICK x \in Frame : Replaced(MarkCalled, x) /\ Becomes(x, Top, Top.phase, Top.pc)
  BY <1>1, MarkingCalled
<1>3. x.decl = Top.decl /\ x.phase = Top.phase /\ x.pc = Top.pc
  BY <1>2 DEF Becomes
<1>4. FrameOK(x, n)
  <2>1. Shape(Top, n) /\ Served(Top, n)
    BY <1>1, TopOfStack, TopOK, FrameGrows DEF FrameOK
  <2>2. AgendaOf(x) = Agenda /\ Shape(x, n) /\ Served(x, n)
    BY <1>1, <1>3, <2>1, SameProgress, TopOfStack
  <2>3. Asked(x, n)
    BY <1>1, <1>3, <2>2 DEF Asked, Request
  <2> QED  BY <2>2, <2>3 DEF FrameOK
<1>5. Stacked(MarkCalled, n)
  BY <1>1, <1>2, <1>3, <1>4, StackedReplace DEF Stacking
<1>6. \A d : /\ On(MarkCalled, d) <=> On(call_stack, d)
             /\ OpenOn(call_stack, d) => OpenOn(MarkCalled, d)
  BY <1>1, <1>2, <1>3, OnReplace
<1>7. \A d : On(MarkCalled, d) => m[d] # "none"
  BY <1>1, <1>6, TopOK
<1>8. PendingOpen(MarkCalled, m, error_count)
  BY <1>6 DEF Stacking, PendingOpen
<1>9. ScopesLaidOut(MarkCalled, m, laid_out)
  BY <1>6 DEF Stacking, ScopesLaidOut
<1>10. ScopesVisited(MarkCalled, m)
  BY <1>6 DEF Stacking, ScopesVisited
<1> QED  BY <1>2, <1>5, <1>7, <1>8, <1>9, <1>10 DEF Replaced

(* A request was served.                                                     *)
LEMMA MoveKeeps ==
  ASSUME TypeOK, Stacking, Busy, Top.called,
         Top.phase = "sig" /\ Evaluated(Request.to) =>
           resolved_mapping[Request.to] \in KnownAs
  PROVE  /\ Stacked(MoveOn, resolved_mapping)
         /\ PendingOpen(MoveOn, resolved_mapping, error_count)
         /\ ScopesLaidOut(MoveOn, resolved_mapping, laid_out)
         /\ ScopesVisited(MoveOn, resolved_mapping)
<1> DEFINE m == resolved_mapping
<1>1. call_stack # <<>> /\ m \in Mapping /\ Top.pc \in 1 .. Len(Agenda)
  BY TopFacts, TopOfStack DEF Busy, Running, TypeOK, Mapping
<1>2. PICK x \in Frame : /\ Replaced(MoveOn, x) /\ Idle(x)
                         /\ Becomes(x, Top, Top.phase, Top.pc + 1)
  BY <1>1, MovingOn
<1>3. x.decl = Top.decl /\ x.phase = Top.phase /\ x.pc = Top.pc + 1
  BY <1>2 DEF Becomes
<1>4. FrameOK(x, m)
  <2>1. Shape(Top, m) /\ Served(Top, m) /\ Asked(Top, m)
    BY <1>1, TopOK DEF FrameOK
  <2>2. AgendaOf(x) = Agenda /\ Shape(x, m) /\ AgendaOf(Top) = Agenda
    BY <1>1, <1>3, <2>1, SameProgress, TopOfStack
  <2>3. Asked(x, m)
    BY <1>2 DEF Asked, Idle
  <2>4. Top.phase = "body" /\ Top.decl \in Scopes => m[Request.to] # "none"
    <3> SUFFICES ASSUME Top.phase = "body", Top.decl \in Scopes
                 PROVE  m[Request.to] # "none"
      OBVIOUS
    <3>1. Agenda = prog.body[Top.decl] /\ Top.decl \in Decl
      BY <1>1, TopOfStack DEF Agenda
    <3>2. Request.how = "visit"
      BY <1>1, <3>1, RequestsOfScopes DEF Request, Stacking
    <3> QED  BY <2>1, <2>2, <3>2 DEF Asked, Starts, Request
  <2>5. ASSUME NEW k \in 1 .. Len(Agenda), k < x.pc
        PROVE  /\ x.phase = "sig" /\ Evaluated(Agenda[k].to) => m[Agenda[k].to] \in KnownAs
               /\ x.phase = "body" /\ x.decl \in Scopes => m[Agenda[k].to] # "none"
    <3>1. CASE k < Top.pc
      BY <1>3, <2>1, <2>2, <3>1 DEF Served
    <3>2. CASE k = Top.pc
      BY <1>3, <2>4, <3>2 DEF Request
    <3>3. k < Top.pc \/ k = Top.pc
      BY <1>1, <1>3, <2>5
    <3> QED  BY <3>1, <3>2, <3>3
  <2>6. Served(x, m)
    BY <2>2, <2>5 DEF Served
  <2> QED  BY <2>2, <2>3, <2>6 DEF FrameOK
<1>5. Stacked(MoveOn, m)
  <2>1. Grows(m, m) /\ \A e \in Decl : Leaves(m, m, e)
    BY DEF Grows, Leaves
  <2> QED  BY <1>1, <1>2, <1>3, <1>4, <2>1, StackedReplace DEF Stacking
<1>6. \A d : /\ On(MoveOn, d) <=> On(call_stack, d)
             /\ OpenOn(call_stack, d) => OpenOn(MoveOn, d)
  BY <1>1, <1>2, <1>3, OnReplace
<1>7. PendingOpen(MoveOn, m, error_count)
  BY <1>6 DEF Stacking, PendingOpen
<1>8. ScopesLaidOut(MoveOn, m, laid_out)
  BY <1>6 DEF Stacking, ScopesLaidOut
<1>9. ScopesVisited(MoveOn, m)
  BY <1>6 DEF Stacking, ScopesVisited
<1> QED  BY <1>5, <1>7, <1>8, <1>9

(* All requests of a signature, or of a scope's body, were served.           *)
LEMMA SignatureServed ==
  ASSUME TypeOK, Stacking, SigDone
  PROVE  NeededFirst(Top.decl) \subseteq KnownIn(resolved_mapping) /\ Idle(Top)
<1> DEFINE m == resolved_mapping
<1>1. /\ call_stack # <<>> /\ Top.phase = "sig" /\ Agenda = prog.sig[Top.decl]
      /\ Top.pc > Len(Agenda)
  BY DEF SigDone, Running, Agenda
<1>2. Served(Top, m) /\ Asked(Top, m) /\ AgendaOf(Top) = Agenda
      /\ Len(Agenda) \in Nat /\ Top.pc \in Nat
  BY <1>1, TopOK, TopOfStack, TopFacts DEF FrameOK
<1>3. Idle(Top)
  BY <1>1, <1>2 DEF Asked, Idle
<1>4. \A k \in 1 .. Len(Agenda) : k < Top.pc
  BY <1>1, <1>2
<1>5. \A k \in 1 .. Len(Agenda) : Evaluated(Agenda[k].to) =>
        Agenda[k].to \in KnownIn(m)
  BY <1>1, <1>2, <1>4, TopOfStack DEF Served, KnownIn
<1>6. \A item \in Range(Agenda) : \E k \in 1 .. Len(Agenda) : item = Agenda[k]
  <2>1. Agenda \in Seq(Item)
    BY <1>1, TopFacts
  <2>2. DOMAIN Agenda = 1 .. Len(Agenda)
    BY <2>1, LenProperties
  <2> QED  BY <2>2 DEF Range
<1>7. NeededFirst(Top.decl) \subseteq KnownIn(m)
  BY <1>1, <1>5, <1>6 DEF NeededFirst, Needs
<1> QED  BY <1>3, <1>7

LEMMA BodyServed ==
  ASSUME TypeOK, Stacking, BodyDone, Top.decl \in Scopes
  PROVE  \A k \in 1 .. Len(prog.body[Top.decl]) :
           resolved_mapping[prog.body[Top.decl][k].to] # "none"
<1> DEFINE m == resolved_mapping
<1>1. /\ call_stack # <<>> /\ Top.phase = "body" /\ Agenda = prog.body[Top.decl]
      /\ Top.pc > Len(Agenda)
  BY DEF BodyDone, Running, Agenda
<1>2. Served(Top, m) /\ AgendaOf(Top) = Agenda
      /\ Len(Agenda) \in Nat /\ Top.pc \in Nat
  BY <1>1, TopOK, TopOfStack, TopFacts DEF FrameOK
<1>3. \A k \in 1 .. Len(Agenda) : k < Top.pc
  BY <1>1, <1>2
<1> QED  BY <1>1, <1>2, <1>3 DEF Served

(* The activation enters its body.                                           *)
LEMMA EnterKeeps ==
  ASSUME TypeOK, Stacking, SigDone, Top.decl \notin Interpreted,
         KindOf(Top.decl) \notin Variables,
         NEW n \in Mapping, Grows(resolved_mapping, n),
         \A e \in Decl \ {Top.decl} : Leaves(resolved_mapping, n, e),
         n[Top.decl] # "none", Top.decl \in Scopes => n[Top.decl] = "literal"
  PROVE  /\ Stacked(EnterBody, n)
         /\ \A d : On(EnterBody, d) <=> On(call_stack, d)
         /\ \A d : OpenOn(call_stack, d) /\ d # Top.decl => OpenOn(EnterBody, d)
<1> DEFINE m == resolved_mapping
<1>1. call_stack # <<>> /\ m \in Mapping /\ Idle(Top)
  BY SignatureServed DEF SigDone, Running, TypeOK, Mapping
<1>2. PICK x \in Frame : Replaced(EnterBody, x) /\ Becomes(x, Top, "body", 1) /\ Idle(x)
  BY <1>1, EnteringBody
<1>3. x.decl = Top.decl /\ x.phase = "body" /\ x.pc = 1
  BY <1>2 DEF Becomes
<1>4. FrameOK(x, n)
  <2>1. Shape(x, n)
    BY <1>3 DEF Shape
  <2>2. Asked(x, n) /\ Served(x, n)
    BY <1>2, <1>3, AgendaFacts DEF Asked, Served, Idle
  <2> QED  BY <2>1, <2>2 DEF FrameOK
<1>5. Stacked(EnterBody, n)
  BY <1>1, <1>2, <1>3, <1>4, StackedReplace DEF Stacking
<1>6. \A d : /\ On(EnterBody, d) <=> On(call_stack, d)
             /\ OpenOn(call_stack, d) /\ d # Top.decl => OpenOn(EnterBody, d)
  BY <1>1, <1>2, <1>3, OnReplace
<1> QED  BY <1>5, <1>6

(* How the mapping moves where a declaration is decided.                     *)
LEMMA Decides ==
  ASSUME TypeOK, Stacking, SigDone, Top.decl \notin Scopes,
         NEW result \in {"poison", "inst", "literal"},
         NEW n, n = [resolved_mapping EXCEPT ![Top.decl] = result]
  PROVE  /\ resolved_mapping \in Mapping /\ n \in Mapping
         /\ resolved_mapping[Top.decl] \in Waiting
         /\ Grows(resolved_mapping, n) /\ n[Top.decl] # "none"
         /\ \A e \in Decl \ {Top.decl} : n[e] = resolved_mapping[e]
         /\ \A e \in Decl \ {Top.decl} : Leaves(resolved_mapping, n, e)
         /\ KnownStep(resolved_mapping, n) /\ StartStep(resolved_mapping, n)
<1> DEFINE m == resolved_mapping
<1> DEFINE d == Top.decl
<1>1. /\ call_stack # <<>> /\ d \in Decl /\ Top.phase = "sig"
      /\ m \in Mapping /\ m \in [Decl -> Resolutions]
  BY TopOfStack DEF SigDone, Running, TypeOK, Mapping
<1>2. m[d] \in Waiting
  BY <1>1, TopOK DEF FrameOK, Shape
<1>3. n \in Mapping /\ n[d] = result /\ \A e \in Decl \ {d} : n[e] = m[e]
  BY <1>1 DEF Mapping, Resolutions
<1>4. NeededFirst(d) \subseteq KnownIn(m)
  BY SignatureServed
<1> HIDE DEF m, d
<1>5. Grows(m, n) /\ \A e \in Decl \ {d} : Leaves(m, n, e)
  BY <1>2, <1>3 DEF Grows, Leaves, Waiting
<1>6. KnownStep(m, n)
  <2>1. CASE result = "poison"
    BY <1>1, <1>2, <1>3, <2>1 DEF KnownStep, KnownIn, KnownAs, Waiting
  <2>2. CASE result # "poison"
    <3>1. KnownIn(n) = KnownIn(m) \cup {d} /\ d \notin KnownIn(m)
      BY <1>1, <1>2, <1>3, <2>2 DEF KnownIn, KnownAs, Waiting
    <3> QED  BY <1>1, <1>3, <1>4, <3>1 DEF KnownStep
  <2> QED  BY <2>1, <2>2
<1>7. StartStep(m, n)
  BY <1>1, <1>2, <1>3 DEF StartStep, Waiting
<1> QED  BY <1>1, <1>2, <1>3, <1>5, <1>6, <1>7 DEF m, d

-------------------------------------------------------------------------------
(* Every step keeps the invariants of the stack, and moves the mapping       *)
(* forward by at most one declaration.                                       *)
Moves(m, n) == Grows(m, n) /\ KnownStep(m, n) /\ StartStep(m, n)

LEMMA MovesNot == ASSUME NEW m  PROVE Moves(m, m)
BY DEF Moves, Grows, KnownStep, StartStep

(* Errors are only ever added.                                               *)
LEMMA ErrorsStay ==
  ASSUME TypeOK, [Next]_vars
  PROVE  error_count' = 0 => error_count = 0
<1>1. error_count \in Nat
  BY DEF TypeOK
<1>3. CASE VisitRoot
  <2>1. Analyse(prog.roots[next_root], <<>>, prog.mod[prog.roots[next_root]])
    BY <1>3 DEF VisitRoot
  <2>2. error_count' = error_count \/ error_count' = error_count + 1
    BY <2>1 DEF Analyse, Begin, ReportCycle, AlreadyAnalysed
  <2> QED  BY <1>1, <2>2
<1>4. CASE DemandAnalysis \/ DemandValue
  <2>1. Analyse(Request.to, MarkCalled, builder_module)
    BY <1>4 DEF DemandAnalysis, DemandValue, Analyse
  <2>2. error_count' = error_count \/ error_count' = error_count + 1
    BY <2>1 DEF Analyse, Begin, ReportCycle, AlreadyAnalysed
  <2> QED  BY <1>1, <2>2
<1>5. CASE CheckResolved \/ ResolveFunction \/ LeaveFunction
  <2>1. error_count' = error_count \/ error_count' = error_count + 1
    BY <1>5 DEF CheckResolved, ResolveFunction, LeaveFunction
  <2> QED  BY <1>1, <2>1
<1>6. CASE ResolveGlobal
  <2>1. error_count' = error_count + 0 \/ error_count' = error_count + 1
    BY <1>6 DEF ResolveGlobal
  <2> QED  BY <1>1, <2>1
<1>7. CASE UNCHANGED error_count
  BY <1>7
<1> QED
  BY <1>3, <1>4, <1>5, <1>6, <1>7
  DEF Next, vars, DemandKnownValue, ReadValue, AbortOnValue, ResolveScope,
      LeaveScope, Finish

LEMMA CallStacking ==
  ASSUME TypeOK, Stacking, TypeOK', prog' = prog, laid_out' = laid_out,
         NEW d \in Decl, NEW stack \in Seq(Frame), NEW from \in Module,
         Analyse(d, stack, from),
         Stacked(stack, resolved_mapping'), resolved_mapping[d] = "none" => ~On(stack, d),
         PendingOpen(stack, resolved_mapping, error_count),
         ScopesLaidOut(stack, resolved_mapping, laid_out),
         ScopesVisited(stack, resolved_mapping)
  PROVE  Stacking'
<1>1. /\ resolved_mapping \in Mapping /\ resolved_mapping' \in Mapping
      /\ error_count \in Nat /\ error_count' \in Nat
  BY DEF TypeOK, Mapping
<1>2. Answer(d, stack, resolved_mapping, resolved_mapping', call_stack',
             error_count, error_count')
  BY AnalyseAnswers
<1>3. /\ Stacked(call_stack', resolved_mapping')
      /\ PendingOpen(call_stack', resolved_mapping', error_count')
      /\ ScopesLaidOut(call_stack', resolved_mapping', laid_out)
      /\ ScopesVisited(call_stack', resolved_mapping')
  BY <1>1, <1>2, AnswerStack
<1> QED  BY <1>3, PrimedStacking DEF Stacking

LEMMA CallMoves ==
  ASSUME TypeOK, TypeOK',
         NEW d \in Decl, NEW stack \in Seq(Frame), NEW from \in Module,
         Analyse(d, stack, from)
  PROVE  /\ Moves(resolved_mapping, resolved_mapping')
         /\ \A e \in Decl : Leaves(resolved_mapping, resolved_mapping', e)
         /\ resolved_mapping'[d] # "none"
<1>1. /\ resolved_mapping \in Mapping /\ resolved_mapping' \in Mapping
      /\ error_count \in Nat /\ error_count' \in Nat
  BY DEF TypeOK, Mapping
<1>2. Answer(d, stack, resolved_mapping, resolved_mapping', call_stack',
             error_count, error_count')
  BY AnalyseAnswers
<1> QED  BY <1>1, <1>2, AnswerMapping DEF Moves

LEMMA NextStacking ==
  ASSUME TypeOK, Nesting, Stacking, TypeOK', [Next]_vars
  PROVE  Stacking' /\ Moves(resolved_mapping, resolved_mapping')
<1> DEFINE m == resolved_mapping
<1>0. /\ m \in Mapping /\ m' \in Mapping /\ error_count \in Nat /\ error_count' \in Nat
      /\ (error_count' = 0 => error_count = 0)
      /\ WellFormed(prog)
  BY ErrorsStay DEF TypeOK, Mapping, Stacking
<1>1. CASE VisitRoot
  <2> DEFINE d == prog.roots[next_root]
  <2>1. next_root \in 1 .. Len(prog.roots)
    BY <1>1, ProgramFacts, LenProperties DEF VisitRoot, TypeOK
  <2>2. d \in Decl
    BY <2>1, ProgramFacts, ElementOfSeq
  <2>3. prog.mod[d] \in Module /\ <<>> \in Seq(Frame)
    BY <2>2, ProgramFacts, EmptySeq
  <2>4. /\ Analyse(d, <<>>, prog.mod[d]) /\ call_stack = <<>>
        /\ prog' = prog /\ laid_out' = laid_out
    BY <1>1 DEF VisitRoot
  <2> HIDE DEF d
  <2>5. Moves(m, m')
    BY <2>2, <2>3, <2>4, CallMoves
  <2>6. /\ PendingOpen(<<>>, m, error_count)
        /\ ScopesLaidOut(<<>>, m, laid_out) /\ ScopesVisited(<<>>, m)
    BY <2>4 DEF Stacking
  <2>7. Stacked(<<>>, m') /\ ~On(<<>>, d)
    BY DEF Stacked, DistinctOn, On
  <2>8. Stacking'
    BY <2>2, <2>3, <2>4, <2>6, <2>7, CallStacking
  <2> QED  BY <2>5, <2>8
<1>2. CASE DemandAnalysis \/ DemandValue
  <2>1. /\ Busy /\ call_stack # <<>> /\ Request.to \in Decl /\ builder_module \in Module
        /\ prog' = prog /\ laid_out' = laid_out
    BY <1>2, RequestFacts DEF DemandAnalysis, DemandValue, Busy, Running, TypeOK
  <2>2. MarkCalled \in Seq(Frame)
    BY <2>1, Rewrites
  <2>3. Analyse(Request.to, MarkCalled, builder_module)
    BY <1>2 DEF DemandAnalysis, DemandValue, Analyse
  <2>4. /\ Moves(m, m') /\ m'[Request.to] # "none"
        /\ \A e \in Decl : Leaves(m, m', e)
    BY <2>1, <2>2, <2>3, CallMoves
  <2>5. /\ Stacked(MarkCalled, m')
        /\ \A d : On(MarkCalled, d) => m[d] # "none"
        /\ PendingOpen(MarkCalled, m, error_count)
        /\ ScopesLaidOut(MarkCalled, m, laid_out)
        /\ ScopesVisited(MarkCalled, m)
    BY <1>0, <2>1, <2>4, MarkKeeps DEF Moves
  <2>6. Stacking'
    BY <2>1, <2>2, <2>3, <2>5, CallStacking
  <2> QED  BY <2>4, <2>6
<1>3. CASE DemandKnownValue
  <2>1. /\ Busy /\ prog' = prog /\ laid_out' = laid_out /\ m' = m
        /\ call_stack' = MarkCalled /\ error_count' = error_count
        /\ (Starts(Request) => m[Request.to] # "none")
    BY <1>3 DEF DemandKnownValue, Starts
  <2>2. Grows(m, m) /\ (\A e \in Decl : Leaves(m, m, e)) /\ Moves(m, m)
    BY MovesNot DEF Grows, Leaves
  <2>3. /\ Stacked(MarkCalled, m)
        /\ PendingOpen(MarkCalled, m, error_count)
        /\ ScopesLaidOut(MarkCalled, m, laid_out)
        /\ ScopesVisited(MarkCalled, m)
    BY <1>0, <2>1, <2>2, MarkKeeps
  <2> QED  BY <1>0, <2>1, <2>2, <2>3, PrimedStacking
<1>4. CASE CheckResolved \/ ReadValue
  <2>1. /\ Busy /\ Top.called /\ prog' = prog /\ laid_out' = laid_out /\ m' = m
        /\ call_stack' = MoveOn
    BY <1>4 DEF CheckResolved, ReadValue
  <2>2. call_stack # <<>> /\ Request.to \in Decl
    BY <2>1, RequestFacts DEF Busy, Running
  <2>3. ASSUME Top.phase = "sig", Evaluated(Request.to)  PROVE m[Request.to] \in KnownAs
    <3>1. /\ Agenda = prog.sig[Top.decl] /\ Top.decl \in Decl
          /\ Top.pc \in 1 .. Len(Agenda) /\ Asked(Top, m) /\ Agenda = AgendaOf(Top)
      BY <2>1, <2>2, <2>3, TopFacts, TopOfStack, TopOK DEF Busy, Agenda, FrameOK
    <3>2. Request.how \in {"value", "layout"}
      BY <1>0, <3>1, RequestsOfScopes DEF Request
    <3>3. m[Request.to] \notin {"pending", "poison"}
      BY <1>4, <2>3, <3>2 DEF CheckResolved, ReadValue, ValueMissing
    <3>4. m[Request.to] # "none"
      BY <2>1, <2>3, <3>1 DEF Asked, Starts, Request
    <3> QED  BY <2>2, <3>3, <3>4 DEF TypeOK, Resolutions, KnownAs
  <2>4. /\ Stacked(MoveOn, m)
        /\ PendingOpen(MoveOn, m, error_count)
        /\ ScopesLaidOut(MoveOn, m, laid_out)
        /\ ScopesVisited(MoveOn, m)
    BY <2>1, <2>3, MoveKeeps
  <2>5. PendingOpen(MoveOn, m, error_count')
    BY <1>0, <2>4 DEF PendingOpen
  <2> QED  BY <1>0, <2>1, <2>4, <2>5, MovesNot, PrimedStacking
<1>5. CASE AbortOnValue \/ Finish \/ UNCHANGED vars
  <2>1. /\ prog' = prog /\ laid_out' = laid_out /\ m' = m
        /\ call_stack' = call_stack /\ error_count' = error_count
    BY <1>5 DEF AbortOnValue, Finish, vars
  <2> QED  BY <2>1, MovesNot, PrimedStacking DEF Stacking
<1>6. CASE ResolveGlobal
  <2> DEFINE d == Top.decl
  <2>1. /\ SigDone /\ call_stack # <<>> /\ d \in Decl /\ KindOf(d) \in Variables
        /\ prog' = prog /\ laid_out' = laid_out
        /\ call_stack' = SubSeq(call_stack, 1, Depth - 1)
    BY <1>6, TopOfStack DEF ResolveGlobal, SigDone, Running, Return
  <2>2. PICK result \in {"poison", "inst", "literal"} :
          m' = [m EXCEPT ![d] = result]
    BY <1>6 DEF ResolveGlobal
  <2>3. d \notin Scopes
    BY <2>1 DEF Scopes, Variables
  <2>4. /\ Moves(m, m') /\ \A e \in Decl \ {d} : Leaves(m, m', e)
        /\ \A e \in Decl \ {d} : m'[e] = m[e]
        /\ m'[d] = result
    BY <1>0, <2>1, <2>2, <2>3, Decides DEF Moves, Mapping
  <2>5. Stacked(call_stack', m')
    BY <1>0, <2>1, <2>4, StackedPop DEF Moves, Stacking
  <2>6. \A e : e # d => /\ On(call_stack, e) => On(call_stack', e)
                        /\ OpenOn(call_stack, e) => OpenOn(call_stack', e)
    BY <2>1, OnPop
  <2>7. PendingOpen(call_stack', m', error_count')
    BY <1>0, <2>4, <2>6 DEF Stacking, PendingOpen
  <2>8. ScopesLaidOut(call_stack', m', laid_out')
    BY <2>1, <2>3, <2>4, <2>6 DEF Stacking, ScopesLaidOut, Scopes
  <2>9. ScopesVisited(call_stack', m')
    <3>1. \A e \in Scopes, k \in Nat : m[prog.body[e][k].to] # "none" /\ prog.body[e][k].to \in Decl
                             => m'[prog.body[e][k].to] # "none"
      BY <2>4 DEF Moves, Grows, Waiting
    <3>2. \A e \in Scopes : e \in Decl /\ \A k \in 1 .. Len(prog.body[e]) :
            k \in Nat /\ prog.body[e][k].to \in Decl
      BY ScopeBodies
    <3>3. \A e \in Scopes : e # d /\ (m'[e] # "none" => m[e] # "none")
      BY <2>3, <2>4, <3>2
    <3> QED  BY <2>6, <3>1, <3>2, <3>3 DEF Stacking, ScopesVisited
  <2> QED  BY <1>0, <2>1, <2>4, <2>5, <2>7, <2>8, <2>9, PrimedStacking
<1>7. CASE ResolveFunction
  <2> DEFINE d == Top.decl
  <2>1. /\ SigDone /\ call_stack # <<>> /\ d \in Decl /\ KindOf(d) \in Functions
        /\ prog' = prog /\ laid_out' = laid_out
        /\ call_stack' = EnterBody
    BY <1>7, TopOfStack DEF ResolveFunction, SigDone, Running
  <2>2. d \notin Scopes /\ d \notin Interpreted /\ KindOf(d) \notin Variables
    BY <2>1 DEF Scopes, Interpreted, Variables, Functions
  <2>3. /\ Moves(m, m') /\ \A e \in Decl \ {d} : Leaves(m, m', e)
        /\ m'[d] # "none"
        /\ \A e \in Decl \ {d} : m'[e] = m[e]
        /\ error_count' = 0 => m'[d] = "inst"
    <3>1. CASE Faulty("sig")
      <4>1. m' = m /\ error_count' # 0
        BY <1>0, <1>7, <3>1 DEF ResolveFunction
      <4>2. m[d] # "none"
        BY <2>1, TopOK
      <4> QED  BY <4>1, <4>2, MovesNot DEF Leaves
    <3>2. CASE ~Faulty("sig")
      <4>1. Last(function_stack) = d
        BY <2>1, NestingContext DEF BuildContext, SigDone
      <4>2. m' = [m EXCEPT ![d] = "inst"]
        BY <1>7, <3>2, <4>1 DEF ResolveFunction
      <4>3. "inst" \in {"poison", "inst", "literal"}
        OBVIOUS
      <4> QED  BY <1>0, <2>1, <2>2, <4>2, <4>3, Decides DEF Moves, Mapping
    <3> QED  BY <3>1, <3>2
  <2>4. /\ Stacked(EnterBody, m')
        /\ \A e : On(EnterBody, e) <=> On(call_stack, e)
        /\ \A e : OpenOn(call_stack, e) /\ e # d => OpenOn(EnterBody, e)
    BY <1>0, <2>1, <2>2, <2>3, EnterKeeps DEF Moves
  <2>5. PendingOpen(call_stack', m', error_count')
    BY <1>0, <2>1, <2>3, <2>4 DEF Stacking, PendingOpen
  <2>6. \A e \in Scopes : e \in Decl /\ e # d
    BY <2>2 DEF Scopes
  <2>7. ScopesLaidOut(call_stack', m', laid_out')
    BY <2>1, <2>3, <2>4, <2>6 DEF Stacking, ScopesLaidOut
  <2>8. ScopesVisited(call_stack', m')
    <3>1. \A e \in Scopes : \A k \in 1 .. Len(prog.body[e]) : prog.body[e][k].to \in Decl
      BY ScopeBodies
    <3>2. \A e \in Decl : m[e] # "none" => m'[e] # "none"
      BY <2>3
    <3> QED  BY <2>1, <2>3, <2>4, <2>6, <3>1, <3>2 DEF Stacking, ScopesVisited
  <2> QED  BY <1>0, <2>1, <2>3, <2>4, <2>5, <2>7, <2>8, PrimedStacking
<1>8. CASE ResolveScope
  <2> DEFINE d == Top.decl
  <2>1. /\ SigDone /\ call_stack # <<>> /\ d \in Decl /\ d \in Scopes
        /\ prog' = prog /\ m' = m /\ error_count' = error_count
    BY <1>8, TopOfStack DEF ResolveScope, SigDone, Running, Scopes
  <2>2. CASE Faulty("sig")
    <3>1. laid_out' = laid_out /\ call_stack' = call_stack
      BY <1>8, <2>2 DEF ResolveScope
    <3> QED  BY <2>1, <3>1, MovesNot, PrimedStacking DEF Stacking
  <2>3. CASE ~Faulty("sig")
    <3>1. laid_out' = laid_out \cup {d} /\ call_stack' = EnterBody
      BY <1>8, <2>3 DEF ResolveScope
    <3>2. d \notin Interpreted /\ KindOf(d) \notin Variables
      BY <2>1 DEF Scopes, Interpreted, Variables
    <3>3. m[d] = "literal"
      BY <2>1, TopOK DEF FrameOK, Shape
    <3>4. Grows(m, m) /\ (\A e \in Decl : Leaves(m, m, e)) /\ Moves(m, m)
      BY MovesNot DEF Grows, Leaves
    <3>5. /\ Stacked(EnterBody, m)
          /\ \A e : On(EnterBody, e) <=> On(call_stack, e)
          /\ \A e : OpenOn(call_stack, e) /\ e # d => OpenOn(EnterBody, e)
      BY <1>0, <2>1, <3>2, <3>3, <3>4, EnterKeeps
    <3>6. PendingOpen(call_stack', m', error_count')
      BY <2>1, <3>1, <3>3, <3>5 DEF Stacking, PendingOpen
    <3>7. ScopesLaidOut(call_stack', m', laid_out')
      BY <2>1, <3>1, <3>5 DEF Stacking, ScopesLaidOut
    <3>8. ScopesVisited(call_stack', m')
      BY <2>1, <3>1, <3>5 DEF Stacking, ScopesVisited
    <3> QED  BY <1>0, <2>1, <3>1, <3>4, <3>5, <3>6, <3>7, <3>8, PrimedStacking
  <2> QED  BY <2>2, <2>3
<1>9. CASE LeaveFunction \/ LeaveScope
  <2> DEFINE d == Top.decl
  <2>1. /\ BodyDone /\ call_stack # <<>> /\ d \in Decl /\ Top.phase = "body"
        /\ prog' = prog /\ laid_out' = laid_out /\ m' = m
        /\ call_stack' = SubSeq(call_stack, 1, Depth - 1)
    BY <1>9, TopOfStack DEF LeaveFunction, LeaveScope, BodyDone, Running, Return
  <2>2. Grows(m, m) /\ (\A e \in Decl \ {d} : Leaves(m, m, e)) /\ Moves(m, m)
    BY MovesNot DEF Grows, Leaves
  <2>3. Stacked(call_stack', m)
    BY <1>0, <2>1, <2>2, StackedPop DEF Stacking
  <2>4. \A e : /\ On(call_stack, e) /\ e # d => On(call_stack', e)
               /\ OpenOn(call_stack, e) => OpenOn(call_stack', e)
    BY <2>1, OnPop
  <2>5. PendingOpen(call_stack', m, error_count')
    BY <1>0, <2>4 DEF Stacking, PendingOpen
  <2>6. ScopesLaidOut(call_stack', m, laid_out)
    BY <2>4 DEF Stacking, ScopesLaidOut
  <2>7. ScopesVisited(call_stack', m)
    <3>1. d \in Scopes => \A k \in 1 .. Len(prog.body[d]) : m[prog.body[d][k].to] # "none"
      BY <2>1, BodyServed
    <3> HIDE DEF d
    <3> QED  BY <2>4, <3>1 DEF Stacking, ScopesVisited
  <2> QED  BY <1>0, <2>1, <2>2, <2>3, <2>5, <2>6, <2>7, PrimedStacking
<1> QED
  BY <1>1, <1>2, <1>3, <1>4, <1>5, <1>6, <1>7, <1>8, <1>9 DEF Next

-------------------------------------------------------------------------------
(* Emission.                                                                 *)
Values == Seq([decl : Decl, mod : Module])

LEMMA EmitsNot ==
  ASSUME NEW r, NEW m, NEW n, Emission(r, m),
         \A d \in Decl : /\ m[d] # "none" <=> n[d] # "none"
                         /\ n[d] = "inst" /\ KindOf(d) \notin Functions => m[d] = "inst"
                         /\ m[d] = "inst" /\ KindOf(d) \in Variables => n[d] = "inst"
  PROVE  Emission(r, n)
<1>1. \A d \in Decl : n[d] = "inst" => EmittedIn(r, d)
  BY DEF Emission
<1>2. \A d \in Decl : KindOf(d) \in Functions /\ n[d] # "none" => EmittedIn(r, d)
  BY DEF Emission
<1>3. \A d \in Decl : EmittedIn(r, d) =>
        n[d] # "none" /\ (KindOf(d) \in Variables => n[d] = "inst")
  BY DEF Emission
<1> QED  BY <1>1, <1>2, <1>3 DEF Emission

(* A scope or a variable begins, or a comptime function is marked: nothing   *)
(* is emitted yet.                                                           *)
LEMMA BeginsUnemitted ==
  ASSUME NEW r, NEW m \in Mapping, NEW n, NEW d \in Decl, NEW v, Emission(r, m),
         KindOf(d) \notin Functions, m[d] = "none",
         v \in {"pending", "literal"}, n = [m EXCEPT ![d] = v]
  PROVE  Emission(r, n)
<1>1. n[d] = v /\ \A e \in Decl \ {d} : n[e] = m[e]
  BY DEF Mapping
<1>2. ~EmittedIn(r, d)
  BY DEF Emission
<1>3. \A e \in Decl : n[e] = "inst" => EmittedIn(r, e)
  BY <1>1 DEF Emission
<1>4. \A e \in Decl : KindOf(e) \in Functions /\ n[e] # "none" => EmittedIn(r, e)
  BY <1>1 DEF Emission
<1>5. \A e \in Decl : EmittedIn(r, e) =>
        n[e] # "none" /\ (KindOf(e) \in Variables => n[e] = "inst")
  BY <1>1, <1>2 DEF Emission
<1> QED  BY <1>3, <1>4, <1>5 DEF Emission

LEMMA EmitsOne ==
  ASSUME NEW r \in Values, NEW m \in Mapping, NEW n, NEW d \in Decl, NEW v,
         Emission(r, m), ~EmittedIn(r, d), prog.mod[d] \in Module,
         v # "none", KindOf(d) \in Variables => v = "inst",
         n = [m EXCEPT ![d] = v],
         NEW t, t = Append(r, [decl |-> d, mod |-> prog.mod[d]])
  PROVE  Emission(t, n)
<1> DEFINE e0 == [decl |-> d, mod |-> prog.mod[d]]
<1>1. n[d] = v /\ \A e \in Decl \ {d} : n[e] = m[e]
  BY DEF Mapping
<1>2. e0 \in [decl : Decl, mod : Module] /\ e0.decl = d /\ e0.mod = prog.mod[d]
  OBVIOUS
<1>3. t = Append(r, e0)
  OBVIOUS
<1> HIDE DEF e0
<1>4. /\ t \in Values /\ Len(t) = Len(r) + 1 /\ Len(r) \in Nat /\ t[Len(r) + 1] = e0
      /\ \A i \in 1 .. Len(r) : t[i] = r[i]
  BY <1>2, <1>3, AppendProperties, LenProperties DEF Values
<1>5. DOMAIN r = 1 .. Len(r) /\ DOMAIN t = 1 .. Len(t)
  BY <1>4, LenProperties DEF Values
<1>6. \A i \in DOMAIN t : i \in DOMAIN r \/ i = Len(r) + 1
  BY <1>4, <1>5
<1>7. Len(r) + 1 \in DOMAIN t /\ \A i \in DOMAIN r : i \in DOMAIN t /\ t[i] = r[i]
  BY <1>4, <1>5
<1>8. \A e : EmittedIn(t, e) <=> EmittedIn(r, e) \/ e = d
  BY <1>2, <1>4, <1>6, <1>7 DEF EmittedIn
<1>9. \A i, j \in DOMAIN t : t[i].decl = t[j].decl => i = j
  <2> SUFFICES ASSUME NEW i \in DOMAIN t, NEW j \in DOMAIN t, t[i].decl = t[j].decl
               PROVE  i = j
    OBVIOUS
  <2>1. CASE i \in DOMAIN r /\ j \in DOMAIN r
    BY <1>7, <2>1 DEF Emission
  <2>2. CASE i \notin DOMAIN r /\ j \in DOMAIN r
    BY <1>2, <1>4, <1>6, <1>7, <2>2 DEF EmittedIn
  <2>3. CASE i \in DOMAIN r /\ j \notin DOMAIN r
    BY <1>2, <1>4, <1>6, <1>7, <2>3 DEF EmittedIn
  <2>4. CASE i \notin DOMAIN r /\ j \notin DOMAIN r
    BY <1>6, <2>4
  <2> QED  BY <2>1, <2>2, <2>3, <2>4
<1>10. \A i \in DOMAIN t : t[i].mod = prog.mod[t[i].decl]
  <2> SUFFICES ASSUME NEW i \in DOMAIN t  PROVE t[i].mod = prog.mod[t[i].decl]
    OBVIOUS
  <2>1. CASE i \in DOMAIN r
    BY <1>7, <2>1 DEF Emission
  <2>2. CASE i = Len(r) + 1
    BY <1>2, <1>4, <2>2
  <2> QED  BY <1>6, <2>1, <2>2
<1>11. \A e \in Decl : n[e] = "inst" => EmittedIn(t, e)
  BY <1>1, <1>8 DEF Emission
<1>12. \A e \in Decl : KindOf(e) \in Functions /\ n[e] # "none" => EmittedIn(t, e)
  BY <1>1, <1>8 DEF Emission
<1>13. \A e \in Decl : EmittedIn(t, e) =>
         n[e] # "none" /\ (KindOf(e) \in Variables => n[e] = "inst")
  BY <1>1, <1>8 DEF Emission
<1> QED  BY <1>9, <1>10, <1>11, <1>12, <1>13 DEF Emission

LEMMA AnalyseEmits ==
  ASSUME TypeOK, Emission(rir, resolved_mapping),
         NEW d \in Decl, NEW stack, NEW from, Analyse(d, stack, from)
  PROVE  Emission(rir', resolved_mapping')
<1> DEFINE m == resolved_mapping
<1>1. m \in Mapping /\ rir \in Values /\ prog.mod[d] \in Module
  BY ProgramFacts DEF TypeOK, Mapping, Values
<1>2. CASE Begin(d, stack, from)
  <2>1. m[d] = "none" /\ ~EmittedIn(rir, d)
    BY <1>2 DEF Begin, Emission
  <2>2. CASE BeginFunction(d, stack, from)
    <3>1. /\ m' = [m EXCEPT ![d] = "pending"] /\ KindOf(d) \notin Variables
          /\ rir' = Append(rir, [decl |-> d, mod |-> prog.mod[d]])
      BY <2>2 DEF BeginFunction, Variables, Functions
    <3> QED  BY <1>1, <2>1, <3>1, EmitsOne
  <2>3. CASE \/ BeginGlobal(d, stack, from)
             \/ BeginComptimeFunction(d, stack, from)
             \/ BeginScope(d, stack, from)
    <3>1. /\ m' = [m EXCEPT ![d] = "pending"] \/ m' = [m EXCEPT ![d] = "literal"]
          /\ KindOf(d) \notin Functions /\ rir' = rir
      BY <2>3 DEF BeginGlobal, BeginComptimeFunction, BeginScope, Variables, Functions
    <3>2. "pending" \in {"pending", "literal"} /\ "literal" \in {"pending", "literal"}
      OBVIOUS
    <3> QED  BY <1>1, <2>1, <3>1, <3>2, BeginsUnemitted
  <2> QED  BY <1>2, <2>2, <2>3 DEF Begin
<1>3. CASE ReportCycle(d, stack, from)
  <2>1. m[d] = "pending" /\ m' = [m EXCEPT ![d] = "poison"] /\ rir' = rir
    BY <1>3 DEF ReportCycle
  <2>2. \A e \in Decl : /\ m[e] # "none" <=> m'[e] # "none"
                        /\ m'[e] = "inst" /\ KindOf(e) \notin Functions => m[e] = "inst"
                        /\ m[e] = "inst" /\ KindOf(e) \in Variables => m'[e] = "inst"
    BY <1>1, <2>1 DEF Mapping
  <2>3. Emission(rir, m')
    BY <2>2, EmitsNot
  <2> QED  BY <2>1, <2>3
<1>4. CASE AlreadyAnalysed(d, stack, from)
  BY <1>4 DEF AlreadyAnalysed
<1> QED  BY <1>2, <1>3, <1>4 DEF Analyse

LEMMA NextEmission ==
  ASSUME TypeOK, Nesting, Stacking, Emission(rir, resolved_mapping), [Next]_vars
  PROVE  Emission(rir', resolved_mapping') /\ prog' = prog
<1> DEFINE m == resolved_mapping
<1>0. m \in Mapping /\ rir \in Values
  BY DEF TypeOK, Mapping, Values
<1>1. CASE VisitRoot
  <2> DEFINE d == prog.roots[next_root]
  <2>1. next_root \in 1 .. Len(prog.roots)
    BY <1>1, ProgramFacts, LenProperties DEF VisitRoot, TypeOK
  <2>2. d \in Decl
    BY <2>1, ProgramFacts, ElementOfSeq
  <2>3. Analyse(d, <<>>, prog.mod[d]) /\ prog' = prog
    BY <1>1 DEF VisitRoot
  <2> QED  BY <2>2, <2>3, AnalyseEmits
<1>2. CASE DemandAnalysis \/ DemandValue
  <2>1. Busy /\ prog' = prog /\ Analyse(Request.to, MarkCalled, builder_module)
    BY <1>2 DEF DemandAnalysis, DemandValue, Analyse
  <2>2. Request.to \in Decl
    BY <2>1, RequestFacts
  <2> QED  BY <2>1, <2>2, AnalyseEmits
<1>3. CASE ResolveGlobal
  <2> DEFINE d == Top.decl
  <2>1. /\ SigDone /\ call_stack # <<>> /\ d \in Decl /\ KindOf(d) \in Variables
        /\ prog' = prog /\ prog.mod[d] \in Module
    BY <1>3, TopOfStack, ProgramFacts DEF ResolveGlobal, SigDone, Running
  <2>2. KindOf(d) \notin Functions /\ d \notin Scopes
    BY <2>1 DEF Variables, Functions, Scopes
  <2>3. m[d] \in Waiting /\ ~EmittedIn(rir, d)
    BY <2>1, <2>2, TopOK DEF FrameOK, Shape, SigDone, Emission, Waiting
  <2>4. \/ m' = [m EXCEPT ![d] = "inst"]
           /\ rir' = Append(rir, [decl |-> d, mod |-> prog.mod[d]])
        \/ m' = [m EXCEPT ![d] = "poison"] /\ rir' = rir
        \/ m' = [m EXCEPT ![d] = "literal"] /\ rir' = rir
    <3>1. builder_module = prog.mod[d]
      BY <2>1, NestingContext DEF BuildContext, SigDone
    <3> QED  BY <1>3, <3>1 DEF ResolveGlobal
  <2>5. CASE m' = [m EXCEPT ![d] = "inst"]
             /\ rir' = Append(rir, [decl |-> d, mod |-> prog.mod[d]])
    <3>1. PICK v : v = "inst"
      OBVIOUS
    <3>2. v # "none" /\ m' = [m EXCEPT ![d] = v]
      BY <2>5, <3>1
    <3>3. Emission(rir', m')
      BY <1>0, <2>1, <2>3, <2>5, <3>1, <3>2, EmitsOne, ZenonT(60)
    <3> QED  BY <2>1, <3>3
  <2>6. CASE \E v \in {"poison", "literal"} : m' = [m EXCEPT ![d] = v] /\ rir' = rir
    <3>1. \A e \in Decl : /\ m[e] # "none" <=> m'[e] # "none"
                          /\ m'[e] = "inst" /\ KindOf(e) \notin Functions => m[e] = "inst"
                          /\ m[e] = "inst" /\ KindOf(e) \in Variables => m'[e] = "inst"
      BY <1>0, <2>1, <2>3, <2>6 DEF Mapping, Waiting
    <3>2. Emission(rir, m')
      BY <3>1, EmitsNot
    <3> QED  BY <2>1, <2>6, <3>2
  <2> QED  BY <2>1, <2>4, <2>5, <2>6
<1>4. CASE ResolveFunction
  <2> DEFINE d == Top.decl
  <2>1. /\ SigDone /\ call_stack # <<>> /\ d \in Decl /\ KindOf(d) \in Functions
        /\ prog' = prog /\ rir' = rir
    BY <1>4, TopOfStack DEF ResolveFunction, SigDone, Running
  <2>2. KindOf(d) \notin Variables /\ m[d] # "none"
    BY <2>1, TopOK DEF Variables, Functions
  <2>3. m' = m \/ m' = [m EXCEPT ![d] = "inst"]
    <3>1. Last(function_stack) = d
      BY <2>1, NestingContext DEF BuildContext, SigDone
    <3> QED  BY <1>4, <3>1 DEF ResolveFunction
  <2>4. \A e \in Decl : /\ m[e] # "none" <=> m'[e] # "none"
                        /\ m'[e] = "inst" /\ KindOf(e) \notin Functions => m[e] = "inst"
                        /\ m[e] = "inst" /\ KindOf(e) \in Variables => m'[e] = "inst"
    BY <1>0, <2>1, <2>2, <2>3 DEF Mapping
  <2> QED  BY <2>1, <2>4, EmitsNot
<1>5. CASE UNCHANGED <<prog, rir, resolved_mapping>>
  BY <1>5
<1> QED
  BY <1>1, <1>2, <1>3, <1>4, <1>5
  DEF Next, vars, DemandKnownValue, CheckResolved, ReadValue, AbortOnValue,
      ResolveScope, LeaveFunction, LeaveScope, Finish

-------------------------------------------------------------------------------
(* The whole invariant.                                                      *)
LEMMA InitCompleting == Init => Completing
<1> SUFFICES ASSUME Init  PROVE Completing
  OBVIOUS
<1>1. TypeOK /\ WellFormed(prog)
  BY InitTypeOK, ProgramsAssumption DEF Init
<1>2. /\ call_stack = <<>> /\ Len(call_stack) = 0 /\ rir = <<>> /\ next_root = 1
      /\ status = "run" /\ \A d \in Decl : resolved_mapping[d] = "none"
  BY DEF Init
<1>3. Stacked(call_stack, resolved_mapping)
  BY <1>2 DEF Stacked, DistinctOn
<1>4. PendingOpen(call_stack, resolved_mapping, error_count)
  BY <1>2 DEF PendingOpen
<1>5. /\ ScopesLaidOut(call_stack, resolved_mapping, laid_out)
      /\ ScopesVisited(call_stack, resolved_mapping)
  BY <1>2 DEF ScopesLaidOut, ScopesVisited, Scopes
<1>6. Emission(rir, resolved_mapping)
  <2>1. DOMAIN rir = {}
    BY <1>2
  <2> QED  BY <1>2, <2>1 DEF Emission, EmittedIn
<1>7. RootsVisited(resolved_mapping, next_root)
  BY <1>2 DEF RootsVisited
<1>8. KnownIn(resolved_mapping) = {}
  BY <1>2 DEF KnownIn, KnownAs
<1> QED
  BY <1>1, <1>2, <1>3, <1>4, <1>5, <1>6, <1>7, <1>8
  DEF Completing, Stacking, NeedsKnown, NoCycle, AtEnd

(* A step is taken while the analysis runs; it goes on, ends or aborts.      *)
LEMMA NextStatus ==
  ASSUME Next
  PROVE  /\ status = "run" /\ prog' = prog
         /\ \/ status' = "run"
            \/ Finish
            \/ status' = "aborted" /\ UNCHANGED <<resolved_mapping, error_count>>
<1>1. status = "run"
  BY DEF Next, VisitRoot, DemandAnalysis, DemandValue, DemandKnownValue,
         CheckResolved, ReadValue, AbortOnValue, ResolveGlobal, ResolveFunction,
         ResolveScope, LeaveFunction, LeaveScope, Finish, Busy, SigDone,
         BodyDone, Running
<1>2. prog' = prog
  BY DEF Next, VisitRoot, DemandAnalysis, DemandValue, DemandKnownValue,
         CheckResolved, ReadValue, AbortOnValue, ResolveGlobal, ResolveFunction,
         ResolveScope, LeaveFunction, LeaveScope, Finish
<1>3. \/ status' = status
      \/ Finish
      \/ status' = "aborted" /\ UNCHANGED <<resolved_mapping, error_count>>
  BY DEF Next, VisitRoot, DemandAnalysis, DemandValue, DemandKnownValue,
         CheckResolved, ReadValue, AbortOnValue, ResolveGlobal, ResolveFunction,
         ResolveScope, LeaveFunction, LeaveScope
<1> QED  BY <1>1, <1>2, <1>3

LEMMA NextRoots ==
  ASSUME TypeOK, TypeOK', RootsVisited(resolved_mapping, next_root),
         Grows(resolved_mapping, resolved_mapping'), [Next]_vars
  PROVE  RootsVisited(resolved_mapping', next_root')
<1> DEFINE m == resolved_mapping
<1>1. \A i \in 1 .. Len(prog.roots) : prog.roots[i] \in Decl
  BY ProgramFacts, ElementOfSeq
<1>2. RootsVisited(m', next_root)
  BY <1>1 DEF RootsVisited, Grows, Waiting
<1>3. CASE VisitRoot
  <2> DEFINE d == prog.roots[next_root]
  <2>1. next_root \in 1 .. Len(prog.roots)
    BY <1>3, ProgramFacts, LenProperties DEF VisitRoot, TypeOK
  <2>2. d \in Decl
    BY <1>1, <2>1
  <2>3. prog.mod[d] \in Module /\ <<>> \in Seq(Frame)
    BY <2>2, ProgramFacts, EmptySeq
  <2>4. Analyse(d, <<>>, prog.mod[d]) /\ next_root' = next_root + 1
    BY <1>3 DEF VisitRoot
  <2>5. m'[d] # "none"
    BY <2>2, <2>3, <2>4, CallMoves
  <2>6. ASSUME NEW i \in 1 .. Len(prog.roots), i < next_root'
        PROVE  m'[prog.roots[i]] # "none"
    <3>1. i < next_root \/ i = next_root
      BY <2>1, <2>4, <2>6
    <3> QED  BY <1>2, <2>5, <3>1 DEF RootsVisited
  <2> QED  BY <2>6 DEF RootsVisited
<1>4. CASE next_root' = next_root
  BY <1>2, <1>4
<1> QED
  BY <1>3, <1>4
  DEF Next, vars, DemandAnalysis, DemandValue, DemandKnownValue, CheckResolved,
      ReadValue, AbortOnValue, ResolveGlobal, ResolveFunction, ResolveScope,
      LeaveFunction, LeaveScope, Finish

LEMMA PrimedCompleting ==
  ASSUME prog' = prog, Stacking', Emission(rir', resolved_mapping'),
         RootsVisited(resolved_mapping', next_root'),
         NeedsKnown(resolved_mapping'), NoCycle(resolved_mapping'), AtEnd'
  PROVE  Completing'
<1>1. Emission(rir, resolved_mapping)'
  BY DEF Emission, EmittedIn, KindOf
<1>2. RootsVisited(resolved_mapping, next_root)'
  BY DEF RootsVisited
<1>3. NeedsKnown(resolved_mapping)' /\ NoCycle(resolved_mapping)'
  BY DEF NeedsKnown, NoCycle, KnownIn, KindOf, Needs, NeededFirst, Scopes, Evaluated
<1> QED  BY <1>1, <1>2, <1>3 DEF Completing

LEMMA NextCompleting ==
  ASSUME TypeOK, TypeOK', Nesting, Completing, [Next]_vars
  PROVE  Completing' /\ Moves(resolved_mapping, resolved_mapping')
<1>1. Stacking' /\ Moves(resolved_mapping, resolved_mapping')
  BY NextStacking DEF Completing
<1>2. Emission(rir', resolved_mapping') /\ prog' = prog
  BY NextEmission DEF Completing
<1>3. RootsVisited(resolved_mapping', next_root')
  BY <1>1, NextRoots DEF Completing, Moves
<1>4. NeedsKnown(resolved_mapping') /\ NoCycle(resolved_mapping')
  BY <1>1, KnownOneMore DEF Completing, Moves
<1>5. AtEnd'
  <2>1. CASE Next
    BY <2>1, NextStatus DEF AtEnd, Finish
  <2>2. CASE UNCHANGED vars
    BY <2>2 DEF vars, AtEnd, Completing
  <2> QED  BY <2>1, <2>2
<1> QED  BY <1>1, <1>2, <1>3, <1>4, <1>5, PrimedCompleting

Inv == TypeOK /\ Nesting /\ NothingLostSilently /\ Completing

LEMMA InitInv == Init => Inv
BY InitTypeOK, InitNesting, InitNothingLost, InitCompleting DEF Inv

LEMMA NextInv == Inv /\ [Next]_vars => Inv'
<1> SUFFICES ASSUME Inv, [Next]_vars  PROVE Inv'
  OBVIOUS
<1>1. TypeOK' /\ Nesting' /\ NothingLostSilently'
  BY NextTypeOK, NextNesting, NextNothingLost DEF Inv
<1>2. Completing'
  BY <1>1, NextCompleting DEF Inv
<1> QED  BY <1>1, <1>2 DEF Inv

LEMMA InvAlways == Spec => []Inv
BY InitInv, NextInv, PTL DEF Spec

-------------------------------------------------------------------------------
(* Each declaration is emitted at most once, into its own module, and what   *)
(* others refer to as an instruction was emitted: whatever the order of the  *)
(* requests, analyse is entered once for each declaration, and the builder   *)
(* stands in its module when it emits.                                       *)
THEOREM EachEmittedOnce == Spec => []EmittedOnce
<1>1. Inv => EmittedOnce
  BY DEF Inv, Completing, Emission, EmittedIn, EmittedOnce
<1> QED  BY <1>1, InvAlways, PTL

(* What an analysis that ends without an error leaves open: nothing.         *)
LEMMA AllDecided ==
  ASSUME Inv, call_stack = <<>>, error_count = 0
  PROVE  Started \ Interpreted \subseteq Known
<1> SUFFICES ASSUME NEW d \in Started, d \notin Interpreted
             PROVE  d \in Known
  OBVIOUS
<1>1. d \in Decl /\ resolved_mapping[d] \in Resolutions /\ resolved_mapping[d] # "none"
  BY DEF Started, Inv, TypeOK
<1>2. ~OpenOn(call_stack, d)
  BY DEF OpenOn
<1>3. resolved_mapping[d] # "pending"
  BY <1>1, <1>2 DEF Inv, Completing, Stacking, PendingOpen
<1>4. resolved_mapping[d] # "poison"
  <2>1. ~(error_count > 0)
    BY DEF Inv, TypeOK
  <2> QED  BY <1>1, <2>1 DEF Inv, NothingLostSilently
<1> QED  BY <1>1, <1>3, <1>4 DEF Known, Resolutions

(* A successful analysis has started every definition of every module and of *)
(* every scope that it started, knows all of them, has laid out the records, *)
(* and has left the builder where it found it: analyseScope and the loop of  *)
(* UIRAnalyser::analyse skip nothing, however the requests interleave.       *)
THEOREM SuccessLeavesNothingOut == Spec => []SuccessIsComplete
<1>1. ASSUME Inv, status = "done", error_count = 0
      PROVE  /\ \A d \in Range(prog.roots) : d \in Started
             /\ \A s \in Started \cap Scopes : \A item \in Range(prog.body[s]) :
                  item.to \in Started
             /\ Started \ Interpreted \subseteq Known
             /\ Started \cap Scopes \subseteq laid_out
             /\ call_stack = <<>> /\ function_stack = <<>> /\ builder_block = NoDecl
  <2>1. TypeOK /\ call_stack = <<>> /\ next_root > Len(prog.roots) /\ next_root \in Nat
    BY <1>1 DEF Inv, TypeOK, Completing, AtEnd
  <2>2. \A d : ~On(call_stack, d) /\ ~OpenOn(call_stack, d)
    BY <2>1 DEF On, OpenOn
  <2>3. \A d \in Range(prog.roots) : d \in Started
    <3>1. prog.roots \in Seq(Decl) /\ Len(prog.roots) \in Nat
          /\ DOMAIN prog.roots = 1 .. Len(prog.roots)
      BY <2>1, ProgramFacts, LenProperties
    <3>2. \A i \in 1 .. Len(prog.roots) :
            prog.roots[i] \in Decl /\ resolved_mapping[prog.roots[i]] # "none"
      BY <1>1, <2>1, <3>1, ElementOfSeq DEF Inv, Completing, RootsVisited
    <3> QED  BY <3>1, <3>2 DEF Range, Started
  <2>4. \A s \in Started \cap Scopes : \A item \in Range(prog.body[s]) :
          item.to \in Started
    <3> SUFFICES ASSUME NEW s \in Started \cap Scopes
                 PROVE  \A item \in Range(prog.body[s]) : item.to \in Started
      OBVIOUS
    <3>1. /\ s \in Decl
          /\ \A k \in 1 .. Len(prog.body[s]) : prog.body[s][k].to \in Decl
      BY <2>1, ScopeBodies
    <3>2. \A k \in 1 .. Len(prog.body[s]) :
            resolved_mapping[prog.body[s][k].to] # "none"
      BY <1>1, <2>2 DEF Inv, Completing, Stacking, ScopesVisited, Started
    <3>3. DOMAIN prog.body[s] = 1 .. Len(prog.body[s])
      BY <2>1, <3>1, ProgramFacts, LenProperties
    <3> QED  BY <3>1, <3>2, <3>3 DEF Range, Started
  <2>5. Started \ Interpreted \subseteq Known
    BY <1>1, <2>1, AllDecided
  <2>6. Started \cap Scopes \subseteq laid_out
    BY <1>1, <2>2 DEF Inv, Completing, Stacking, ScopesLaidOut, Started
  <2>7. builder_block = NoDecl
    BY <1>1, <2>1 DEF Inv, Nesting, BlocksNest
  <2>8. function_stack = <<>>
    <3>1. Len(call_stack) = 0
      BY <2>1
    <3> QED  BY <1>1, <3>1 DEF Inv, Nesting, FunctionsNest
  <2> QED  BY <2>1, <2>3, <2>4, <2>5, <2>6, <2>7, <2>8
<1>2. Inv => SuccessIsComplete
  BY <1>1 DEF SuccessIsComplete
<1> QED  BY <1>2, InvAlways, PTL

(* A program in which the constants of some globals depend on each other in  *)
(* a cycle is never accepted, whichever of them analyse meets first: a       *)
(* global is known only after the globals it needs, so that what is known    *)
(* has no cycle.                                                             *)
THEOREM GlobalCyclesRejected == Spec => []CyclesRejected
<1>1. ASSUME Inv, status = "done", error_count = 0  PROVE ~GlobalCycle
  <2>1. Started \ Interpreted \subseteq Known
    BY <1>1, AllDecided DEF Inv, Completing, AtEnd
  <2>2. \A d \in Decl : d \in Started /\ KindOf(d) \in Variables =>
          d \in KnownIn(resolved_mapping)
    BY <2>1 DEF Interpreted, Variables, Known, KnownIn, KnownAs
  <2>3. ASSUME NEW T \in SUBSET {d \in Started : KindOf(d) \in Variables}, T # {}
        PROVE  \E d \in T : Needs(d) \cap T = {}
    <3>1. T \in SUBSET {d \in KnownIn(resolved_mapping) : KindOf(d) \in Variables}
      BY <2>2 DEF Started
    <3> QED  BY <1>1, <2>3, <3>1 DEF Inv, Completing, NoCycle
  <2> QED  BY <2>3 DEF GlobalCycle
<1>2. Inv => CyclesRejected
  BY <1>1 DEF CyclesRejected
<1> QED  BY <1>2, InvAlways, PTL

-------------------------------------------------------------------------------
(* The refinement of Resolution.                                             *)
LEMMA KnownIsKnownIn ==
  /\ Known = KnownIn(resolved_mapping)
  /\ Known' = KnownIn(resolved_mapping')
BY DEF Known, KnownIn, KnownAs

LEMMA InitResolution == Init => R!Start
<1> SUFFICES ASSUME Init  PROVE R!Start
  OBVIOUS
<1>1. \A d \in Decl : resolved_mapping[d] = "none"
  BY DEF Init
<1>2. Started = {} /\ Known = {}
  BY <1>1 DEF Started, Known
<1>3. [d \in Decl |-> NeededFirst(d)] \in [Decl -> SUBSET Decl]
  <2>1. TypeOK
    BY InitTypeOK
  <2>2. ASSUME NEW d \in Decl  PROVE NeededFirst(d) \subseteq Decl
    <3>1. prog.sig[d] \in Seq(Item)
      BY <2>1, ProgramFacts
    <3>2. \A k \in DOMAIN prog.sig[d] : prog.sig[d][k] \in Item
      BY <3>1, ElementOfSeq, LenProperties
    <3> QED  BY <3>2 DEF NeededFirst, Needs, Range, Item
  <2> QED  BY <2>2
<1>4. Interpreted \subseteq Decl
  BY DEF Interpreted
<1>5. (error_count > 0) = FALSE /\ status = "run"
  BY DEF Init
<1> QED  BY <1>2, <1>3, <1>4, <1>5 DEF R!Start

(* What every step keeps fixed, and what it does to the sets.                *)
LEMMA StepProgress ==
  ASSUME Inv, Inv', prog' = prog, status = "run", status' = "run",
         Moves(resolved_mapping, resolved_mapping'),
         error_count' = 0 => error_count = 0
  PROVE  R!Progress
<1>1. /\ [d \in Decl |-> NeededFirst(d)]' = [d \in Decl |-> NeededFirst(d)]
      /\ Interpreted' = Interpreted
  BY DEF NeededFirst, Needs, Scopes, Evaluated, Interpreted, KindOf
<1>2. \/ Started' = Started
      \/ \E d \in Decl \ Started : Started' = Started \cup {d}
  BY DEF Moves, StartStep, Started
<1>3. \/ Known' = Known
      \/ \E d \in Started' \ Known :
           /\ Known' = Known \cup {d}
           /\ [e \in Decl |-> NeededFirst(e)][d] \subseteq Known'
  <2>1. CASE KnownIn(resolved_mapping') = KnownIn(resolved_mapping)
    BY <2>1, KnownIsKnownIn
  <2>2. ASSUME NEW d \in Decl \ KnownIn(resolved_mapping),
               KnownIn(resolved_mapping') = KnownIn(resolved_mapping) \cup {d},
               NeededFirst(d) \subseteq KnownIn(resolved_mapping),
               resolved_mapping'[d] # "none"
        PROVE  \E e \in Started' \ Known :
                 /\ Known' = Known \cup {e}
                 /\ [c \in Decl |-> NeededFirst(c)][e] \subseteq Known'
    <3>1. d \in Started' \ Known /\ Known' = Known \cup {d}
      BY <2>2, KnownIsKnownIn DEF Started
    <3>2. [c \in Decl |-> NeededFirst(c)][d] \subseteq Known'
      BY <2>2, KnownIsKnownIn
    <3> QED  BY <3>1, <3>2
  <2> QED  BY <2>1, <2>2 DEF Moves, KnownStep
<1>4. (error_count > 0)' \in {(error_count > 0), TRUE}
  <2>1. error_count \in Nat /\ error_count' \in Nat
    BY DEF Inv, TypeOK
  <2>2. CASE error_count' = 0
    <3>1. error_count = 0
      BY <2>2
    <3>2. (error_count > 0)' = (error_count > 0)
      BY <3>1, <2>2
    <3> QED  BY <3>2, Zenon
  <2>3. CASE error_count' # 0
    <3>1. error_count' > 0
      BY <2>1, <2>3
    <3>2. (error_count > 0)' = TRUE
      BY <3>1, Zenon
    <3> QED  BY <3>2, Zenon
  <2> QED  BY <2>2, <2>3
<1> QED  BY <1>1, <1>2, <1>3, <1>4 DEF R!Progress

LEMMA FixedData ==
  ASSUME prog' = prog
  PROVE  /\ [d \in Decl |-> NeededFirst(d)]' = [d \in Decl |-> NeededFirst(d)]
         /\ Interpreted' = Interpreted
BY DEF NeededFirst, Needs, Scopes, Evaluated, Interpreted, KindOf

LEMMA FixedMapping ==
  ASSUME prog' = prog, resolved_mapping' = resolved_mapping, error_count' = error_count
  PROVE  /\ UNCHANGED <<[d \in Decl |-> NeededFirst(d)], Interpreted, Started, Known>>
         /\ (error_count > 0)' = (error_count > 0)
<1>1. Started' = Started /\ Known' = Known
  BY DEF Started, Known
<1> QED  BY <1>1, FixedData

LEMMA FinishResolves ==
  ASSUME Inv, Finish
  PROVE  R!Succeed \/ R!Fail
<1>1. /\ status = "run" /\ status' = "done" /\ call_stack = <<>>
      /\ UNCHANGED <<prog, resolved_mapping, error_count>>
  BY DEF Finish
<1>2. /\ UNCHANGED <<[d \in Decl |-> NeededFirst(d)], Interpreted, Started, Known>>
      /\ (error_count > 0)' = (error_count > 0)
  BY <1>1, FixedMapping
<1>3. CASE error_count > 0
  BY <1>1, <1>2, <1>3 DEF R!Fail
<1>4. CASE ~(error_count > 0)
  <2>1. error_count = 0
    BY <1>4 DEF Inv, TypeOK
  <2>2. Started \ Interpreted \subseteq Known
    BY <1>1, <2>1, AllDecided
  <2> QED  BY <1>1, <1>2, <1>4, <2>2 DEF R!Succeed
<1> QED  BY <1>3, <1>4

LEMMA AbortResolves ==
  ASSUME status = "run", status' = "aborted", prog' = prog,
         UNCHANGED <<resolved_mapping, error_count>>
  PROVE  R!Abort
<1>1. /\ UNCHANGED <<[d \in Decl |-> NeededFirst(d)], Interpreted, Started, Known>>
      /\ (error_count > 0)' = (error_count > 0)
  BY FixedMapping
<1> QED  BY <1>1 DEF R!Abort

LEMMA StepResolves ==
  ASSUME Inv, Inv', [Next]_vars
  PROVE  [R!Progress \/ R!Succeed \/ R!Fail \/ R!Abort]_(R!pvars)
<1>1. CASE UNCHANGED vars
  <2>1. prog' = prog /\ UNCHANGED <<resolved_mapping, error_count, status>>
    BY <1>1 DEF vars
  <2>2. /\ UNCHANGED <<[d \in Decl |-> NeededFirst(d)], Interpreted, Started, Known>>
        /\ (error_count > 0)' = (error_count > 0)
    BY <2>1, FixedMapping
  <2> QED  BY <2>1, <2>2 DEF R!pvars
<1>2. CASE Next
  <2>1. status = "run" /\ prog' = prog
    BY <1>2, NextStatus
  <2>2. CASE status' = "run"
    <3>1. Moves(resolved_mapping, resolved_mapping')
      BY NextCompleting DEF Inv
    <3>2. error_count' = 0 => error_count = 0
      BY ErrorsStay DEF Inv
    <3> QED  BY <2>1, <2>2, <3>1, <3>2, StepProgress
  <2>3. CASE Finish
    BY <2>3, FinishResolves
  <2>4. CASE status' = "aborted" /\ UNCHANGED <<resolved_mapping, error_count>>
    BY <2>1, <2>4, AbortResolves
  <2> QED  BY <1>2, <2>2, <2>3, <2>4, NextStatus
<1> QED  BY <1>1, <1>2

(* The analysis implements Resolution, whatever the order in which it meets  *)
(* the declarations: one is started at most once; it becomes known, for      *)
(* good, only after what it needs is known; and the end is a success only if *)
(* no error was counted and all that was started, but for the functions that *)
(* comptime interprets, is known.                                            *)
THEOREM RefinesResolution == Spec => ImplementsResolution
<1>1. Init => R!Start
  BY InitResolution
<1>2. Inv /\ Inv' /\ [Next]_vars
        => [R!Progress \/ R!Succeed \/ R!Fail \/ R!Abort]_(R!pvars)
  BY StepResolves
<1>3. Spec => R!Start /\ [][R!Progress \/ R!Succeed \/ R!Fail \/ R!Abort]_(R!pvars)
  BY <1>1, <1>2, InvAlways, PTL DEF Spec
<1> QED  BY <1>3 DEF ImplementsResolution, R!Resolve
===============================================================================
