---------------------------- MODULE UIRGenProofs ----------------------------
(*****************************************************************************)
(* Theorems about the lowering of statements, for any program.               *)
(*                                                                           *)
(* What gen has still to do is a list of items, each of which takes the      *)
(* generator from one point to another: how many scopes are open, at how     *)
(* many the present function began, and which function it is.  todo is a     *)
(* chain of such steps that ends outside of all functions and scopes.        *)
(*****************************************************************************)
EXTENDS UIRGen, SequenceTheorems, TLAPS

Point == {p \in [level : Nat, base : Nat, owner : Nat] : p.base <= p.level}
End == [level |-> 0, base |-> 0, owner |-> 0]
Deeper(p) == [level |-> p.level + 1, base |-> p.base, owner |-> p.owner]

Owned(bs, b, owner) == b \in 1 .. Len(bs) /\ bs[b].owner = owner
AllOwned(bs, targets, owner) == \A t \in DOMAIN targets : Owned(bs, targets[t], owner)
Entries(bs, fs) == \A f \in 1 .. Len(fs) : Owned(bs, fs[f].entry, f)
OwnerOf(bs, b) == IF b = 0 THEN 0 ELSE bs[b].owner

(* The item x takes the generator from point p to point q, where bs are the  *)
(* blocks and n the length of what was deferred so far.                      *)
FunctionEnds(bs, prev, p, q) ==
  /\ p.owner # 0 /\ p.level = p.base /\ q.level = p.level
  /\ prev \in 0 .. Len(bs) /\ q.owner = OwnerOf(bs, prev)
Fits(bs, n, x, p, q) ==
  \/ x.op = "gen" /\ q = p /\ (p.owner # 0 \/ x.stmt.kind = "function")
  \/ x.op = "inject" /\ q = p /\ p.owner # 0 /\ x.i <= n
  \/ x.op = "emit" /\ q = p /\ p.owner # 0 /\ AllOwned(bs, x.instruction.targets, p.owner)
  \/ x.op = "move" /\ q = p /\ p.owner # 0 /\ Owned(bs, x.to, p.owner)
  \/ /\ x.op = "case" /\ q = p /\ p.owner # 0
     /\ Owned(bs, x.parent, p.owner) /\ Owned(bs, x.merge, p.owner)
     /\ AllOwned(bs, x.cases, p.owner)
  \/ x.op = "enter" /\ q = Deeper(p) /\ p.owner # 0 /\ Owned(bs, x.to, p.owner)
  \/ x.op = "leave" /\ p = Deeper(q) /\ p.owner # 0 /\ Owned(bs, x.to, p.owner)
  \/ x.op = "reset" /\ p = Deeper(q) /\ p.owner # 0
  \/ x.op \in {"endfunction", "leavefunction"} /\ FunctionEnds(bs, x.prev, p, q)

Chain(bs, n, s, p, q) ==
  \E t \in [0 .. Len(s) -> Point] :
    /\ t[0] = p /\ t[Len(s)] = q
    /\ \A i \in 1 .. Len(s) : Fits(bs, n, s[i], t[i - 1], t[i])
-------------------------------------------------------------------------------
(* Chains are put together and taken apart.                                  *)
LEMMA ChainEmpty ==
  ASSUME NEW bs, NEW n, NEW p \in Point
  PROVE  Chain(bs, n, <<>>, p, p)
<1> DEFINE t == [i \in 0 .. 0 |-> p]
<1>1. Len(<<>>) = 0
  OBVIOUS
<1>2. t \in [0 .. 0 -> Point] /\ t[0] = p
  OBVIOUS
<1>3. 1 .. 0 = {}
  OBVIOUS
<1> HIDE DEF t
<1> QED
  BY <1>1, <1>2, <1>3 DEF Chain

LEMMA ChainOne ==
  ASSUME NEW bs, NEW n, NEW x, NEW p \in Point, NEW q \in Point, Fits(bs, n, x, p, q)
  PROVE  Chain(bs, n, <<x>>, p, q)
<1> DEFINE t == [i \in 0 .. 1 |-> IF i = 0 THEN p ELSE q]
<1>1. Len(<<x>>) = 1 /\ <<x>>[1] = x
  OBVIOUS
<1>2. t \in [0 .. 1 -> Point] /\ t[0] = p /\ t[1] = q
  OBVIOUS
<1>3. \A i \in 1 .. 1 : Fits(bs, n, <<x>>[i], t[i - 1], t[i])
  <2> TAKE i \in 1 .. 1
  <2>1. i = 1 /\ i - 1 = 0
    OBVIOUS
  <2> QED
    BY <1>1, <1>2, <2>1
<1> QED
  BY <1>1, <1>2, <1>3 DEF Chain

LEMMA ChainJoined ==
  ASSUME NEW S, NEW bs, NEW n, NEW a \in Seq(S), NEW b \in Seq(S),
         NEW p, NEW q, NEW r, Chain(bs, n, a, p, q), Chain(bs, n, b, q, r)
  PROVE  Chain(bs, n, a \o b, p, r)
<1>1. PICK k \in Nat, m \in Nat : k = Len(a) /\ m = Len(b)
  OBVIOUS
<1>2. PICK t \in [0 .. k -> Point] : t[0] = p /\ t[k] = q
                  /\ \A i \in 1 .. k : Fits(bs, n, a[i], t[i - 1], t[i])
  BY <1>1 DEF Chain
<1>3. PICK u \in [0 .. m -> Point] : u[0] = q /\ u[m] = r
                  /\ \A i \in 1 .. m : Fits(bs, n, b[i], u[i - 1], u[i])
  BY <1>1 DEF Chain
<1> DEFINE v == [i \in 0 .. k + m |-> IF i <= k THEN t[i] ELSE u[i - k]]
<1>4. Len(a \o b) = k + m
  BY <1>1
<1>5. v \in [0 .. k + m -> Point]
  <2> SUFFICES ASSUME NEW i \in 0 .. k + m PROVE v[i] \in Point
    OBVIOUS
  <2> QED
    OBVIOUS
<1>6. v[0] = p /\ v[k + m] = r
  BY <1>2, <1>3
<1>7. ASSUME NEW i \in 1 .. k + m
      PROVE  Fits(bs, n, (a \o b)[i], v[i - 1], v[i])
  <2>1. CASE i <= k
    <3>1. (a \o b)[i] = a[i] /\ v[i] = t[i] /\ v[i - 1] = t[i - 1] /\ i \in 1 .. k
      BY <1>1, <2>1
    <3> QED
      BY <1>2, <3>1
  <2>2. CASE i > k
    <3>1. (a \o b)[i] = b[i - k] /\ i - k \in 1 .. m
      BY <1>1, <2>2
    <3>2. v[i] = u[i - k]
      BY <2>2
    <3>3. v[i - 1] = u[i - k - 1]
      <4>1. CASE i = k + 1
        <5>1. i - 1 = k /\ i - k - 1 = 0
          BY <4>1
        <5> QED
          BY <1>2, <1>3, <5>1
      <4>2. CASE i # k + 1
        BY <2>2, <4>2
      <4> QED
        BY <4>1, <4>2
    <3> QED
      BY <1>3, <3>1, <3>2, <3>3
  <2>3. i <= k \/ i > k
    OBVIOUS
  <2> HIDE DEF v
  <2> QED
    BY <2>1, <2>2, <2>3
<1> HIDE DEF v
<1> QED
  BY <1>4, <1>5, <1>6, <1>7 DEF Chain

LEMMA ChainHead ==
  ASSUME NEW S, NEW bs, NEW n, NEW s \in Seq(S), s # <<>>, NEW p, NEW r,
         Chain(bs, n, s, p, r)
  PROVE  \E q \in Point : Fits(bs, n, Head(s), p, q) /\ Chain(bs, n, Tail(s), q, r)
<1>1. PICK k \in Nat : k + 1 = Len(s)
  <2>1. Len(s) \in Nat \ {0}
    OBVIOUS
  <2>2. Len(s) - 1 \in Nat /\ Len(s) - 1 + 1 = Len(s)
    BY <2>1
  <2> QED
    BY <2>2
<1>2. PICK t \in [0 .. k + 1 -> Point] : t[0] = p /\ t[k + 1] = r
                  /\ \A i \in 1 .. k + 1 : Fits(bs, n, s[i], t[i - 1], t[i])
  BY <1>1 DEF Chain
<1> DEFINE u == [i \in 0 .. k |-> t[i + 1]]
<1>3. u \in [0 .. k -> Point] /\ u[0] = t[1] /\ u[k] = r
  <2>1. \A i \in 0 .. k : i + 1 \in 0 .. k + 1 /\ t[i + 1] \in Point
    BY <1>2
  <2>2. u \in [0 .. k -> Point] /\ u[0] = t[0 + 1] /\ u[k] = t[k + 1]
    BY <2>1
  <2> QED
    BY <1>2, <2>2
<1>4. Len(Tail(s)) = k /\ \A i \in 1 .. k : Tail(s)[i] = s[i + 1]
  BY <1>1
<1>5. ASSUME NEW i \in 1 .. k
      PROVE  Fits(bs, n, Tail(s)[i], u[i - 1], u[i])
  <2>1. u[i - 1] = t[i + 1 - 1] /\ u[i] = t[i + 1] /\ i + 1 \in 1 .. k + 1
    OBVIOUS
  <2> QED
    BY <1>2, <1>4, <2>1
<1> HIDE DEF u
<1>6. Chain(bs, n, Tail(s), t[1], r)
  BY <1>3, <1>4, <1>5 DEF Chain
<1>7. Fits(bs, n, Head(s), p, t[1]) /\ t[1] \in Point
  <2>1. 1 \in 1 .. k + 1 /\ 1 - 1 = 0 /\ Head(s) = s[1]
    BY <1>1
  <2> QED
    BY <1>2, <2>1
<1> QED
  BY <1>6, <1>7

LEMMA ChainOver ==
  ASSUME NEW bs, NEW n, NEW p, NEW q, Chain(bs, n, <<>>, p, q)
  PROVE  p = q
BY DEF Chain
-------------------------------------------------------------------------------
(* Blocks are only added, and keep their owners.                             *)
Grows(bs, n, cs, m) ==
  /\ Len(bs) \in Nat /\ Len(cs) \in Nat /\ Len(bs) <= Len(cs)
  /\ \A b \in 1 .. Len(bs) : cs[b].owner = bs[b].owner
  /\ n \in Nat /\ m \in Nat /\ n <= m

LEMMA FitsOn ==
  ASSUME NEW bs, NEW n, NEW cs, NEW m, Grows(bs, n, cs, m), NEW x \in Item,
         NEW p, NEW q, Fits(bs, n, x, p, q)
  PROVE  Fits(cs, m, x, p, q)
<1>1. ASSUME NEW b, NEW o, Owned(bs, b, o)  PROVE Owned(cs, b, o)
  BY <1>1 DEF Owned, Grows
<1>2. ASSUME NEW targets, NEW o, AllOwned(bs, targets, o)  PROVE AllOwned(cs, targets, o)
  BY <1>1, <1>2 DEF AllOwned
<1>3. ASSUME NEW prev, FunctionEnds(bs, prev, p, q)  PROVE FunctionEnds(cs, prev, p, q)
  BY <1>3 DEF FunctionEnds, OwnerOf, Grows
<1>4. x.op = "inject" /\ x.i <= n => x.i <= m
  <2>1. x.op = "inject" => x.i \in Nat
    BY DEF Item
  <2> QED
    BY <2>1 DEF Grows
<1> QED
  BY <1>1, <1>2, <1>3, <1>4 DEF Fits

LEMMA ChainOn ==
  ASSUME NEW bs, NEW n, NEW cs, NEW m, Grows(bs, n, cs, m), NEW s \in Seq(Item),
         NEW p, NEW q, Chain(bs, n, s, p, q)
  PROVE  Chain(cs, m, s, p, q)
<1>1. \A i \in 1 .. Len(s) : s[i] \in Item
  OBVIOUS
<1> QED
  BY <1>1, FitsOn DEF Chain
-------------------------------------------------------------------------------
(* The blocks: every branch in them stays in its function.                   *)
Block(count) == [owner : 1 .. count, code : Seq(Instruction)]
Stays(bs, code, owner) == \A i \in DOMAIN code : AllOwned(bs, code[i].targets, owner)
GoodBlocks(bs, count) ==
  /\ count \in Nat /\ bs \in Seq(Block(count))
  /\ \A b \in 1 .. Len(bs) : Stays(bs, bs[b].code, bs[b].owner)

LEMMA GrowsSelf ==
  ASSUME NEW bs, NEW count, GoodBlocks(bs, count), NEW n \in Nat, NEW m \in Nat, n <= m
  PROVE  Grows(bs, n, bs, m)
BY DEF Grows, GoodBlocks

LEMMA GrowsOn ==
  ASSUME NEW os, NEW bs, NEW cs, NEW n, Grows(os, n, bs, n), Grows(bs, n, cs, n)
  PROVE  Grows(os, n, cs, n)
<1>1. PICK i, j, k \in Nat : i = Len(os) /\ j = Len(bs) /\ k = Len(cs)
  BY DEF Grows
<1>2. i <= j /\ j <= k /\ n \in Nat
  BY <1>1 DEF Grows
<1>3. \A b \in 1 .. i : b \in 1 .. j
  BY <1>2
<1>4. \A b \in 1 .. i : cs[b].owner = os[b].owner
  BY <1>1, <1>3 DEF Grows
<1>5. i <= k
  BY <1>2
<1> QED
  BY <1>1, <1>2, <1>4, <1>5 DEF Grows

LEMMA StaysOn ==
  ASSUME NEW bs, NEW n, NEW cs, Grows(bs, n, cs, n), NEW code, NEW owner,
         Stays(bs, code, owner)
  PROVE  Stays(cs, code, owner)
BY DEF Grows, Stays, AllOwned, Owned

(* The code of a block is written, or added to.                              *)
Coded(bs, b, code) == [bs EXCEPT ![b].code = code]
LEMMA CodeWritten ==
  ASSUME NEW bs, NEW count, GoodBlocks(bs, count), NEW n \in Nat, NEW b \in 1 .. Len(bs),
         NEW code \in Seq(Instruction), Stays(bs, code, bs[b].owner)
  PROVE  /\ GoodBlocks(Coded(bs, b, code), count) /\ Grows(bs, n, Coded(bs, b, code), n)
         /\ Len(Coded(bs, b, code)) = Len(bs)
<1> DEFINE cs == Coded(bs, b, code)
<1>1. bs \in Seq(Block(count)) /\ Len(bs) \in Nat /\ DOMAIN bs = 1 .. Len(bs)
  BY DEF GoodBlocks
<1>2. bs[b] \in Block(count)
  BY <1>1
<1> DEFINE new == [bs[b] EXCEPT !.code = code]
<1>3. new \in Block(count) /\ new.owner = bs[b].owner /\ new.code = code
  BY <1>2 DEF Block
<1>4. cs = [bs EXCEPT ![b] = new]
  BY DEF Coded
<1> HIDE DEF new, cs
<1>5. /\ cs \in Seq(Block(count)) /\ Len(cs) = Len(bs) /\ cs[b] = new
      /\ \A c \in 1 .. Len(bs) : c # b => cs[c] = bs[c]
  BY <1>1, <1>3, <1>4
<1>6. Grows(bs, n, cs, n)
  BY <1>1, <1>3, <1>5 DEF Grows
<1>7. ASSUME NEW c \in 1 .. Len(cs)  PROVE Stays(cs, cs[c].code, cs[c].owner)
  <2>1. Stays(bs, cs[c].code, cs[c].owner)
    <3>1. CASE c = b
      BY <1>3, <1>5, <3>1
    <3>2. CASE c # b
      BY <1>5, <3>2 DEF GoodBlocks
    <3> QED
      BY <3>1, <3>2
  <2> QED
    BY <1>6, <2>1, StaysOn
<1> QED
  BY <1>5, <1>6, <1>7 DEF GoodBlocks, cs

LEMMA CodeAppended ==
  ASSUME NEW bs, NEW count, GoodBlocks(bs, count), NEW n \in Nat, NEW b \in 1 .. Len(bs),
         NEW x \in Instruction, AllOwned(bs, x.targets, bs[b].owner),
         NEW cs, cs = Coded(bs, b, Append(bs[b].code, x))
  PROVE  GoodBlocks(cs, count) /\ Grows(bs, n, cs, n) /\ Len(cs) = Len(bs)
<1> DEFINE old == bs[b].code
           code == Append(bs[b].code, x)
<1>1. old \in Seq(Instruction) /\ Stays(bs, old, bs[b].owner)
  <2>1. bs[b] \in Block(count)
    BY DEF GoodBlocks
  <2> QED
    BY <2>1 DEF Block, GoodBlocks
<1>2. code \in Seq(Instruction)
  BY <1>1
<1>3. Stays(bs, code, bs[b].owner)
  <2> SUFFICES ASSUME NEW i \in DOMAIN code
               PROVE  AllOwned(bs, code[i].targets, bs[b].owner)
    BY DEF Stays
  <2>1. i \in 1 .. Len(old) + 1
    BY <1>1
  <2>2. CASE i = Len(old) + 1
    <3>1. code[i] = x
      BY <1>1, <2>2
    <3> QED
      BY <3>1
  <2>3. CASE i # Len(old) + 1
    <3>1. i \in DOMAIN old /\ code[i] = old[i]
      BY <1>1, <2>1, <2>3
    <3> QED
      BY <1>1, <3>1 DEF Stays
  <2> QED
    BY <2>2, <2>3
<1> QED
  BY <1>2, <1>3, CodeWritten

(* Blocks are added without code, for a function that is there.              *)
Extended(bs, k, owner) == bs \o [i \in 1 .. k |-> Fresh(owner)]
LEMMA BlocksAdded ==
  ASSUME NEW bs, NEW count, GoodBlocks(bs, count), NEW n \in Nat,
         NEW k \in Nat, NEW more \in Nat, count <= more, NEW owner \in 1 .. more,
         NEW cs, cs = Extended(bs, k, owner)
  PROVE  /\ GoodBlocks(cs, more) /\ Grows(bs, n, cs, n) /\ Len(cs) = Len(bs) + k
         /\ \A b \in Len(bs) + 1 .. Len(bs) + k : Owned(cs, b, owner)
<1> DEFINE new == [i \in 1 .. k |-> Fresh(owner)]
<1>1. Fresh(owner) \in Block(more) /\ Fresh(owner).owner = owner /\ Fresh(owner).code = <<>>
  BY DEF Fresh, Block
<1>2. new \in Seq(Block(more)) /\ Len(new) = k /\ \A i \in 1 .. k : new[i] = Fresh(owner)
  BY <1>1
<1>3. bs \in Seq(Block(more)) /\ Len(bs) \in Nat
  <2>1. Block(count) \subseteq Block(more)
    BY DEF Block, GoodBlocks
  <2> QED
    BY <2>1 DEF GoodBlocks
<1> HIDE DEF new
<1>4. cs = bs \o new
  BY DEF new, Extended
<1>5. /\ cs \in Seq(Block(more)) /\ Len(cs) = Len(bs) + k
      /\ \A b \in 1 .. Len(bs) : cs[b] = bs[b]
      /\ \A b \in Len(bs) + 1 .. Len(bs) + k : cs[b] = new[b - Len(bs)] /\ b - Len(bs) \in 1 .. k
  <2>1. bs \o new \in Seq(Block(more)) /\ Len(bs \o new) = Len(bs) + k
    BY <1>2, <1>3
  <2>2. \A b \in 1 .. Len(bs) : (bs \o new)[b] = bs[b]
    BY <1>2, <1>3
  <2>3. ASSUME NEW b \in Len(bs) + 1 .. Len(bs) + k
        PROVE  (bs \o new)[b] = new[b - Len(bs)] /\ b - Len(bs) \in 1 .. k
    BY <1>2, <1>3
  <2> QED
    BY <1>4, <2>1, <2>2, <2>3
<1>6. \A b \in Len(bs) + 1 .. Len(bs) + k : cs[b] = Fresh(owner)
  BY <1>2, <1>5
<1>7. Grows(bs, n, cs, n)
  BY <1>3, <1>5 DEF Grows
<1>8. ASSUME NEW c \in 1 .. Len(cs)  PROVE Stays(cs, cs[c].code, cs[c].owner)
  <2>1. CASE c \in 1 .. Len(bs)
    <3>1. Stays(bs, cs[c].code, cs[c].owner)
      BY <1>5, <2>1 DEF GoodBlocks
    <3> QED
      BY <1>7, <3>1, StaysOn
  <2>2. CASE c \in Len(bs) + 1 .. Len(bs) + k
    BY <1>1, <1>6, <2>2 DEF Stays
  <2>3. c \in 1 .. Len(bs) \/ c \in Len(bs) + 1 .. Len(bs) + k
    BY <1>3, <1>5
  <2> QED
    BY <2>1, <2>2, <2>3
<1>9. \A b \in Len(bs) + 1 .. Len(bs) + k : Owned(cs, b, owner)
  BY <1>1, <1>3, <1>5, <1>6 DEF Owned
<1> QED
  BY <1>5, <1>7, <1>8, <1>9 DEF GoodBlocks
-------------------------------------------------------------------------------
(* The items, and the chains that the actions put before what is left.       *)
LEMMA GenItem ==
  ASSUME NEW s \in Stmt
  PROVE  Gen(s) \in Item
BY DEF Gen, Item

LEMMA ScopeItems ==
  ASSUME NEW to \in Nat
  PROVE  Enter(to) \in Item /\ MoveTo(to) \in Item /\ Reset \in Item
BY DEF Enter, MoveTo, Reset, Item

LEMMA LeaveItem ==
  ASSUME NEW to \in Nat, NEW always \in BOOLEAN
  PROVE  Leave(to, always) \in Item
<1>1. Leave(to, always) \in [op : {"leave"}, to : Nat, always : BOOLEAN]
  BY Zenon DEF Leave
<1> QED
  BY <1>1, Zenon DEF Item

LEMMA InjectItem ==
  ASSUME NEW i \in Nat, NEW min \in Nat
  PROVE  Inject(i, min) \in Item
BY DEF Inject, Item

LEMMA EmitItem ==
  ASSUME NEW x \in Instruction
  PROVE  Emit(x) \in Item
<1> HIDE DEF Instruction
<1> QED
  BY DEF Emit, Item

LEMMA FunctionItems ==
  ASSUME NEW prev \in Nat
  PROVE  EndFunction(prev) \in Item /\ LeaveFunction(prev) \in Item
BY DEF EndFunction, LeaveFunction, Item

LEMMA CaseItem ==
  ASSUME NEW s \in Stmt, NEW cases \in Seq(Nat), NEW parent \in Nat, NEW merge \in Nat
  PROVE  Case(s, cases, parent, merge) \in Item
BY DEF Case, Item

LEMMA ItemFields ==
  ASSUME NEW x \in Item
  PROVE  /\ x.op = "gen" => x.stmt \in Stmt
         /\ x.op \in {"enter", "move", "leave"} => x.to \in Nat
         /\ x.op = "inject" => x.i \in Nat /\ x.min \in Nat
         /\ x.op = "emit" => x.instruction \in Instruction
         /\ x.op = "case" => /\ x.stmt \in Stmt /\ x.cases \in Seq(Nat)
                             /\ x.parent \in Nat /\ x.merge \in Nat
                             /\ x = Case(x.stmt, x.cases, x.parent, x.merge)
         /\ x.op \in {"endfunction", "leavefunction"} => x.prev \in Nat
<1> HIDE DEF Instruction
<1> QED
  BY DEF Item, Case

LEMMA InstructionsTyped ==
  /\ \A name \in Name : Do(name) \in Instruction /\ Return(name) \in Instruction
  /\ \A to \in Nat : Br(to) \in Instruction
  /\ \A name \in Name : \A then, else \in Nat : CondBr(name, then, else) \in Instruction
  /\ \A name \in Name : \A cases \in Seq(Nat) : \A merge \in Nat :
       Switch(name, cases, merge) \in Instruction
BY NameAssumption DEF Do, Return, Br, CondBr, Switch, Instruction, Terminators

LEMMA StmtFields ==
  ASSUME NEW s \in Stmt
  PROVE  /\ s.name \in Name /\ s.parts \in Seq(Statements)
         /\ s.kind \in {"block", "for", "in", "function", "defer"} => s.parts[1] \in Statements
         /\ s.kind = "defer" => Len(s.parts[1]) = 1
         /\ s.kind = "if" => /\ Len(s.parts) \in {1, 2}
                             /\ s.parts[1] \in Statements
                             /\ Len(s.parts) = 2 => s.parts[2] \in Statements
<1>1. s.parts \in Seq(Statements)
  BY StmtAssumption
<1>2. \A i \in 1 .. Len(s.parts) : s.parts[i] \in Statements
  BY <1>1
<1>3. s.kind \in {"block", "for", "in", "function", "defer"} => Len(s.parts) = 1
  BY StmtAssumption
<1>4. s.kind = "if" => Len(s.parts) \in {1, 2}
  BY StmtAssumption
<1> QED
  BY <1>1, <1>2, <1>3, <1>4, StmtAssumption

LEMMA BodyChain ==
  ASSUME NEW bs, NEW n, NEW list \in Statements, NEW p \in Point, p.owner # 0
  PROVE  Body(list) \in Seq(Item) /\ Chain(bs, n, Body(list), p, p)
<1>1. PICK k \in Nat : k = Len(list)
  BY DEF Statements
<1>2. DOMAIN list = 1 .. k /\ \A i \in 1 .. k : list[i] \in Stmt
  BY <1>1 DEF Statements
<1>3. \A i \in 1 .. k : Gen(list[i]) \in Item
  BY <1>2, GenItem
<1>4. Body(list) = [i \in 1 .. k |-> Gen(list[i])]
  BY <1>2 DEF Body
<1>5. /\ Body(list) \in Seq(Item) /\ Len(Body(list)) = k
      /\ \A i \in 1 .. k : Body(list)[i] = Gen(list[i])
  BY <1>3, <1>4
<1> DEFINE t == [i \in 0 .. k |-> p]
<1>6. t \in [0 .. k -> Point] /\ t[0] = p /\ t[k] = p
      /\ \A i \in 1 .. k : t[i] = p /\ t[i - 1] = p
  OBVIOUS
<1>7. \A s \in Stmt : Fits(bs, n, Gen(s), p, p)
  BY DEF Fits, Gen
<1> HIDE DEF t
<1>8. \A i \in 1 .. k : Fits(bs, n, Body(list)[i], t[i - 1], t[i])
  BY <1>2, <1>5, <1>6, <1>7
<1> QED
  BY <1>5, <1>6, <1>8 DEF Chain

LEMMA SameSeq ==
  ASSUME NEW S, NEW s \in Seq(S), NEW t \in Seq(S), Len(s) = Len(t),
         \A i \in 1 .. Len(s) : s[i] = t[i]
  PROVE  s = t
<1>1. s = [i \in 1 .. Len(s) |-> s[i]]
  OBVIOUS
<1>2. t = [i \in 1 .. Len(t) |-> t[i]]
  OBVIOUS
<1> QED
  BY <1>1, <1>2

LEMMA Pairs ==
  ASSUME NEW S, NEW x \in S, NEW y \in S
  PROVE  <<x>> \in Seq(S) /\ <<x, y>> \in Seq(S) /\ <<x>> \o <<y>> = <<x, y>>
<1>1. <<x>> \in Seq(S) /\ <<y>> \in Seq(S)
  OBVIOUS
<1>2. <<x, y>> \in Seq(S)
  OBVIOUS
<1>3. <<x>> \o <<y>> = <<x, y>>
  <2> DEFINE s == <<x>> \o <<y>>
  <2>1. s \in Seq(S) /\ Len(s) = 2 /\ s[1] = x /\ s[2] = y
    BY <1>1
  <2>2. Len(<<x, y>>) = 2 /\ <<x, y>>[1] = x /\ <<x, y>>[2] = y
    OBVIOUS
  <2>3. \A i \in 1 .. 2 : i = 1 \/ i = 2
    OBVIOUS
  <2> HIDE DEF s
  <2>4. s = <<x, y>>
    BY <1>2, <2>1, <2>2, <2>3, SameSeq
  <2> QED
    BY <2>4 DEF s
<1> QED
  BY <1>1, <1>2, <1>3

LEMMA Triples ==
  ASSUME NEW S, NEW x \in S, NEW y \in S, NEW z \in S
  PROVE  <<x, y, z>> \in Seq(S) /\ <<x, y>> \o <<z>> = <<x, y, z>>
<1>1. <<x, y>> \in Seq(S) /\ <<z>> \in Seq(S)
  OBVIOUS
<1>2. <<x, y, z>> \in Seq(S)
  OBVIOUS
<1>3. <<x, y>> \o <<z>> = <<x, y, z>>
  <2> DEFINE s == <<x, y>> \o <<z>>
  <2>1. s \in Seq(S) /\ Len(s) = 3 /\ s[1] = x /\ s[2] = y /\ s[3] = z
    BY <1>1
  <2>2. Len(<<x, y, z>>) = 3 /\ <<x, y, z>>[1] = x /\ <<x, y, z>>[2] = y /\ <<x, y, z>>[3] = z
    OBVIOUS
  <2>3. \A i \in 1 .. 3 : i = 1 \/ i = 2 \/ i = 3
    OBVIOUS
  <2> HIDE DEF s
  <2>4. s = <<x, y, z>>
    BY <1>2, <2>1, <2>2, <2>3, SameSeq
  <2> QED
    BY <2>4 DEF s
<1> QED
  BY <1>2, <1>3

LEMMA ChainTwo ==
  ASSUME NEW bs, NEW n, NEW x \in Item, NEW y \in Item, NEW p \in Point, NEW q \in Point,
         NEW r \in Point, Fits(bs, n, x, p, q), Fits(bs, n, y, q, r)
  PROVE  <<x, y>> \in Seq(Item) /\ Chain(bs, n, <<x, y>>, p, r)
<1>1. Chain(bs, n, <<x>>, p, q) /\ Chain(bs, n, <<y>>, q, r)
  BY ChainOne
<1>2. /\ <<x>> \in Seq(Item) /\ <<y>> \in Seq(Item) /\ <<x, y>> \in Seq(Item)
      /\ <<x>> \o <<y>> = <<x, y>>
  BY Pairs
<1>3. Chain(bs, n, <<x>> \o <<y>>, p, r)
  BY <1>1, <1>2, ChainJoined
<1> QED
  BY <1>2, <1>3

LEMMA ChainThree ==
  ASSUME NEW bs, NEW n, NEW x \in Item, NEW y \in Item, NEW z \in Item,
         NEW p \in Point, NEW q \in Point, NEW r \in Point, NEW s \in Point,
         Fits(bs, n, x, p, q), Fits(bs, n, y, q, r), Fits(bs, n, z, r, s)
  PROVE  <<x, y, z>> \in Seq(Item) /\ Chain(bs, n, <<x, y, z>>, p, s)
<1>1. <<x, y>> \in Seq(Item) /\ Chain(bs, n, <<x, y>>, p, r)
  BY ChainTwo
<1>2. <<z>> \in Seq(Item) /\ Chain(bs, n, <<z>>, r, s)
  BY ChainOne
<1>3. <<x, y>> \o <<z>> = <<x, y, z>> /\ <<x, y, z>> \in Seq(Item)
  BY Triples
<1>4. Chain(bs, n, <<x, y>> \o <<z>>, p, s)
  BY <1>1, <1>2, ChainJoined
<1> QED
  BY <1>3, <1>4

(* A scope is entered, its statements are generated, and what leaves it may  *)
(* be followed by other items.                                               *)
LEMMA DeeperPoint ==
  ASSUME NEW p \in Point
  PROVE  Deeper(p) \in Point /\ Deeper(p).owner = p.owner /\ Deeper(p).base = p.base
         /\ Deeper(p).level = p.level + 1
BY DEF Point, Deeper

LEMMA ScopeChain ==
  ASSUME NEW bs, NEW n, NEW list \in Statements, NEW p \in Point, p.owner # 0,
         NEW to \in Nat, Owned(bs, to, p.owner),
         NEW last \in Seq(Item), NEW q \in Point, Chain(bs, n, last, Deeper(p), q)
  PROVE  /\ <<Enter(to)>> \o Body(list) \o last \in Seq(Item)
         /\ Chain(bs, n, <<Enter(to)>> \o Body(list) \o last, p, q)
<1>1. Deeper(p) \in Point /\ Deeper(p).owner # 0
  BY DeeperPoint
<1>2. Fits(bs, n, Enter(to), p, Deeper(p))
  BY DEF Fits, Enter
<1>3. <<Enter(to)>> \in Seq(Item) /\ Chain(bs, n, <<Enter(to)>>, p, Deeper(p))
  BY <1>1, <1>2, ChainOne, ScopeItems
<1>4. Body(list) \in Seq(Item) /\ Chain(bs, n, Body(list), Deeper(p), Deeper(p))
  BY <1>1, BodyChain
<1>5. <<Enter(to)>> \o Body(list) \in Seq(Item)
  BY <1>3, <1>4
<1>6. /\ <<Enter(to)>> \o Body(list) \in Seq(Item)
      /\ Chain(bs, n, <<Enter(to)>> \o Body(list), p, Deeper(p))
  BY <1>3, <1>4, <1>5, ChainJoined
<1>7. <<Enter(to)>> \o Body(list) \o last \in Seq(Item)
  BY <1>6
<1> QED
  BY <1>6, <1>7, ChainJoined

LEMMA LeaveFits ==
  ASSUME NEW bs, NEW n, NEW p \in Point, p.owner # 0, NEW to \in Nat,
         Owned(bs, to, p.owner), NEW always \in BOOLEAN
  PROVE  Fits(bs, n, Leave(to, always), Deeper(p), p)
<1>1. Deeper(p).owner = p.owner
  BY DeeperPoint
<1>2. Leave(to, always).op = "leave" /\ Leave(to, always).to = to
  BY Zenon DEF Leave
<1> QED
  BY <1>1, <1>2 DEF Fits

LEMMA MoveFits ==
  ASSUME NEW bs, NEW n, NEW p \in Point, p.owner # 0, NEW to \in Nat, Owned(bs, to, p.owner)
  PROVE  Fits(bs, n, MoveTo(to), p, p)
BY DEF Fits, MoveTo
-------------------------------------------------------------------------------
(* The invariant: the generator stands at p, and todo leads from there to    *)
(* the end; stale entries of the defer stack are still statements.           *)
Standing(p) ==
  /\ p \in Point /\ p.level = Len(saved) /\ p.owner = OwnerOf(blocks, block)
  /\ todo \in Seq(Item) /\ Chain(blocks, Len(defer_stack), todo, p, End)
Locals == [len : Nat, boundary : Nat]
Deferred ==
  /\ saved \in Seq(Locals)
  /\ defer_stack \in Statements
  /\ defer_stack_len \in Nat /\ defer_local_boundary \in Nat
  /\ defer_stack_len <= Len(defer_stack)
  /\ \A k \in 1 .. Len(saved) : saved[k].len <= Len(defer_stack)
Generation ==
  /\ functions \in Seq(GeneratedFunction) /\ Entries(blocks, functions)
  /\ GoodBlocks(blocks, Len(functions)) /\ block \in 0 .. Len(blocks)
Building(p) == Standing(p) /\ Deferred /\ Generation

LEMMA HeadStep ==
  ASSUME NEW p, Building(p), todo # <<>>
  PROVE  /\ Head(todo) \in Item /\ Tail(todo) \in Seq(Item)
         /\ \E q \in Point : /\ Fits(blocks, Len(defer_stack), Head(todo), p, q)
                             /\ Chain(blocks, Len(defer_stack), Tail(todo), q, End)
<1>1. todo \in Seq(Item) /\ Chain(blocks, Len(defer_stack), todo, p, End)
  BY DEF Building, Standing
<1>2. Head(todo) \in Item /\ Tail(todo) \in Seq(Item)
  BY <1>1
<1> QED
  BY <1>1, <1>2, ChainHead

(* The lengths that chains depend on.                                        *)
LEMMA Lengths ==
  ASSUME NEW p, Building(p)
  PROVE  /\ Len(defer_stack) \in Nat /\ Len(blocks) \in Nat /\ Len(functions) \in Nat
         /\ Len(saved) \in Nat /\ p \in Point
         /\ p.owner # 0 => block \in 1 .. Len(blocks) /\ blocks[block].owner = p.owner
BY DEF Building, Standing, Deferred, Generation, GoodBlocks, Statements, OwnerOf

(* What is done first is put before what is left.                            *)
LEMMA Continues ==
  ASSUME NEW p, Building(p), NEW q \in Point,
         Chain(blocks, Len(defer_stack), Tail(todo), q, End), todo # <<>>,
         NEW bs, NEW n, Grows(blocks, Len(defer_stack), bs, n),
         NEW items \in Seq(Item), NEW r, Chain(bs, n, items, r, q)
  PROVE  /\ items \o Tail(todo) \in Seq(Item)
         /\ Chain(bs, n, items \o Tail(todo), r, End)
<1>1. Tail(todo) \in Seq(Item)
  BY HeadStep
<1>2. Chain(bs, n, Tail(todo), q, End)
  BY <1>1, ChainOn
<1>3. items \o Tail(todo) \in Seq(Item)
  BY <1>1
<1> QED
  BY <1>1, <1>2, <1>3, ChainJoined

LEMMA EntriesOn ==
  ASSUME NEW bs, NEW n, NEW cs, NEW m, Grows(bs, n, cs, m), NEW fs, Entries(bs, fs)
  PROVE  Entries(cs, fs)
BY DEF Entries, Owned, Grows

(* An action that defers nothing and begins no function.                     *)
LEMMA Proceeds ==
  ASSUME NEW p, Building(p), NEW q \in Point,
         Chain(blocks, Len(defer_stack), Tail(todo), q, End), todo # <<>>,
         UNCHANGED <<deferring, functions>>,
         GoodBlocks(blocks', Len(functions)),
         Grows(blocks, Len(defer_stack), blocks', Len(defer_stack)),
         NEW items \in Seq(Item), NEW r \in Point,
         Chain(blocks', Len(defer_stack), items, r, q), Then(items),
         r.level = Len(saved), block' \in 0 .. Len(blocks'), r.owner = OwnerOf(blocks', block')
  PROVE  Building(r)'
<1>1. todo' \in Seq(Item) /\ Chain(blocks', Len(defer_stack), todo', r, End)
  BY Continues DEF Then
<1>2. Standing(r)'
  BY <1>1 DEF Standing, deferring
<1>3. Entries(blocks', functions)
  BY EntriesOn DEF Building, Generation
<1>4. Deferred' /\ Generation'
  BY <1>3 DEF Building, Deferred, Generation, deferring
<1> QED
  BY <1>2, <1>4 DEF Building

LEMMA SameOwner ==
  ASSUME NEW p, Building(p), NEW n, Grows(blocks, n, blocks', n)
  PROVE  block \in 0 .. Len(blocks') /\ p.owner = OwnerOf(blocks', block)
BY DEF Building, Standing, Generation, OwnerOf, Grows

(* The same, where the builder stays.                                        *)
LEMMA Remains ==
  ASSUME NEW p, Building(p), todo # <<>>, p.owner # 0,
         NEW q \in Point, Chain(blocks, Len(defer_stack), Tail(todo), q, End),
         UNCHANGED <<deferring, functions, block>>,
         GoodBlocks(blocks', Len(functions)),
         Grows(blocks, Len(defer_stack), blocks', Len(defer_stack)),
         NEW items \in Seq(Item), Chain(blocks', Len(defer_stack), items, p, q), Then(items)
  PROVE  \E r : Building(r)' /\ r.base = p.base /\ r.owner # 0
<1>1. p \in Point /\ p.level = Len(saved)
  BY DEF Building, Standing
<1>2. block \in 0 .. Len(blocks') /\ p.owner = OwnerOf(blocks', block)
  BY SameOwner
<1>3. Building(p)'
  BY <1>1, <1>2, Proceeds
<1> QED
  BY <1>3
-------------------------------------------------------------------------------
LEMMA OwnedOn ==
  ASSUME NEW bs, NEW n, NEW cs, NEW m, Grows(bs, n, cs, m), NEW b, NEW owner, Owned(bs, b, owner)
  PROVE  Owned(cs, b, owner)
BY DEF Owned, Grows

LEMMA AppendedBlocks ==
  ASSUME NEW bs, NEW count, GoodBlocks(bs, count), NEW n \in Nat, block \in 1 .. Len(bs),
         NEW x \in Instruction, AllOwned(bs, x.targets, bs[block].owner)
  PROVE  /\ GoodBlocks(Appended(bs, x), count) /\ Grows(bs, n, Appended(bs, x), n)
         /\ Len(Appended(bs, x)) = Len(bs)
<1>1. Appended(bs, x) = Coded(bs, block, Append(bs[block].code, x))
  BY DEF Appended, Coded
<1> QED
  BY <1>1, CodeAppended

(* Blocks that are added belong to the function that the builder is in.      *)
LEMMA AddedHere ==
  ASSUME NEW p, Building(p), p.owner # 0, NEW k \in Nat
  PROVE  /\ GoodBlocks(WithBlocks(k), Len(functions))
         /\ Grows(blocks, Len(defer_stack), WithBlocks(k), Len(defer_stack))
         /\ Len(WithBlocks(k)) = Len(blocks) + k
         /\ \A i \in 1 .. k : Owned(WithBlocks(k), Len(blocks) + i, p.owner)
         /\ block \in 1 .. Len(WithBlocks(k)) /\ WithBlocks(k)[block].owner = p.owner
<1>1. /\ Len(defer_stack) \in Nat /\ Len(blocks) \in Nat /\ Len(functions) \in Nat
      /\ block \in 1 .. Len(blocks) /\ blocks[block].owner = p.owner
  BY Lengths
<1>2. GoodBlocks(blocks, Len(functions))
  BY DEF Building, Generation
<1>3. p.owner \in 1 .. Len(functions)
  <2>1. blocks[block] \in Block(Len(functions))
    BY <1>1, <1>2 DEF GoodBlocks
  <2> QED
    BY <1>1, <2>1 DEF Block
<1>4. WithBlocks(k) = Extended(blocks, k, p.owner)
  BY <1>1 DEF WithBlocks, Extended
<1>5. /\ GoodBlocks(WithBlocks(k), Len(functions))
      /\ Grows(blocks, Len(defer_stack), WithBlocks(k), Len(defer_stack))
      /\ Len(WithBlocks(k)) = Len(blocks) + k
      /\ \A b \in Len(blocks) + 1 .. Len(blocks) + k : Owned(WithBlocks(k), b, p.owner)
  BY <1>1, <1>2, <1>3, <1>4, BlocksAdded, SMTT(30)
<1>6. block \in 1 .. Len(WithBlocks(k)) /\ WithBlocks(k)[block].owner = p.owner
  BY <1>1, <1>5 DEF Grows
<1>7. ASSUME NEW i \in 1 .. k  PROVE Owned(WithBlocks(k), Len(blocks) + i, p.owner)
  <2>1. Len(blocks) + i \in Len(blocks) + 1 .. Len(blocks) + k
    BY <1>1
  <2> QED
    BY <1>5, <2>1
<1> QED
  BY <1>5, <1>6, <1>7

(* The head of todo is a statement.                                          *)
LEMMA StatementStep ==
  ASSUME NEW p, Building(p), At("gen")
  PROVE  /\ todo # <<>> /\ Head(todo).stmt \in Stmt /\ p \in Point
         /\ p.owner # 0 \/ Head(todo).stmt.kind = "function"
         /\ Chain(blocks, Len(defer_stack), Tail(todo), p, End)
<1>1. todo # <<>> /\ Head(todo).op = "gen"
  BY DEF At
<1>2. PICK q \in Point : /\ Fits(blocks, Len(defer_stack), Head(todo), p, q)
                         /\ Chain(blocks, Len(defer_stack), Tail(todo), q, End)
  BY <1>1, HeadStep
<1>3. Head(todo).stmt \in Stmt
  BY <1>1, HeadStep, ItemFields
<1>4. q = p /\ (p.owner # 0 \/ Head(todo).stmt.kind = "function")
  BY <1>1, <1>2 DEF Fits
<1> QED
  BY <1>1, <1>2, <1>3, <1>4

LEMMA GenExpressionBuilds ==
  ASSUME NEW p, Building(p), GenExpression
  PROVE  \E r : Building(r)' /\ r.base = p.base /\ r.owner # 0
<1> DEFINE x == Do(Head(todo).stmt.name)
<1>1. At("gen") /\ Head(todo).stmt.kind = "do"
  BY DEF GenExpression, Generates
<1>2. /\ todo # <<>> /\ Head(todo).stmt \in Stmt /\ p \in Point /\ p.owner # 0
      /\ Chain(blocks, Len(defer_stack), Tail(todo), p, End)
  BY <1>1, StatementStep
<1>3. x \in Instruction /\ x.targets = <<>>
  BY <1>2, StmtFields, InstructionsTyped DEF Do
<1>4. /\ block \in 1 .. Len(blocks) /\ Len(defer_stack) \in Nat
      /\ GoodBlocks(blocks, Len(functions))
  BY <1>2, Lengths DEF Building, Generation
<1>5. AllOwned(blocks, x.targets, blocks[block].owner)
  BY <1>3 DEF AllOwned
<1> HIDE DEF x
<1>6. /\ GoodBlocks(Appended(blocks, x), Len(functions))
      /\ Grows(blocks, Len(defer_stack), Appended(blocks, x), Len(defer_stack))
  BY <1>3, <1>4, <1>5, AppendedBlocks
<1>7. blocks' = Appended(blocks, x)
  BY DEF GenExpression, x
<1>8. Chain(blocks', Len(defer_stack), <<>>, p, p) /\ <<>> \in Seq(Item)
  BY <1>2, ChainEmpty
<1>9. Then(<<>>) /\ UNCHANGED <<deferring, functions, block>>
  BY DEF GenExpression
<1> QED
  BY <1>2, <1>6, <1>7, <1>8, <1>9, Remains

(* The items of some actions do not depend on blocks: these stay.            *)
LEMMA BlocksRemain ==
  ASSUME NEW p, Building(p), todo # <<>>, p.owner # 0,
         NEW q \in Point, Chain(blocks, Len(defer_stack), Tail(todo), q, End),
         UNCHANGED <<deferring, blocks, block, functions>>,
         NEW items \in Seq(Item), Chain(blocks, Len(defer_stack), items, p, q), Then(items)
  PROVE  \E r : Building(r)' /\ r.base = p.base /\ r.owner # 0
<1>1. GoodBlocks(blocks, Len(functions)) /\ Len(defer_stack) \in Nat
  BY Lengths DEF Building, Generation
<1>2. Grows(blocks, Len(defer_stack), blocks, Len(defer_stack))
  BY <1>1, GrowsSelf
<1> QED
  BY <1>1, <1>2, Remains

LEMMA GenNothingBuilds ==
  ASSUME NEW p, Building(p), GenNothing
  PROVE  \E r : Building(r)' /\ r.base = p.base /\ r.owner # 0
<1>1. At("gen") /\ Head(todo).stmt.kind \in {"break", "continue"}
  BY DEF GenNothing, Generates
<1>2. /\ todo # <<>> /\ p \in Point /\ p.owner # 0
      /\ Chain(blocks, Len(defer_stack), Tail(todo), p, End)
  BY <1>1, StatementStep
<1>3. Chain(blocks, Len(defer_stack), <<>>, p, p) /\ <<>> \in Seq(Item)
  BY <1>2, ChainEmpty
<1>4. Then(<<>>) /\ UNCHANGED <<deferring, blocks, block, functions>>
  BY DEF GenNothing
<1> QED
  BY <1>2, <1>3, <1>4, BlocksRemain

LEMMA InjectFits ==
  ASSUME NEW p, Building(p), p.owner # 0, NEW min \in Nat
  PROVE  /\ Inject(defer_stack_len, min) \in Item
         /\ Fits(blocks, Len(defer_stack), Inject(defer_stack_len, min), p, p)
<1>1. defer_stack_len \in Nat /\ defer_stack_len <= Len(defer_stack)
  BY DEF Building, Deferred
<1>2. Inject(defer_stack_len, min) \in Item
  BY <1>1, InjectItem
<1>3. Fits(blocks, Len(defer_stack), Inject(defer_stack_len, min), p, p)
  BY <1>1 DEF Fits, Inject
<1> QED
  BY <1>2, <1>3

LEMMA EmitFits ==
  ASSUME NEW bs, NEW n, NEW p \in Point, p.owner # 0, NEW x \in Instruction,
         AllOwned(bs, x.targets, p.owner)
  PROVE  Emit(x) \in Item /\ Fits(bs, n, Emit(x), p, p)
BY EmitItem DEF Fits, Emit

LEMMA ReturnFits ==
  ASSUME NEW bs, NEW n, NEW p \in Point, p.owner # 0, NEW name \in Name
  PROVE  Emit(Return(name)) \in Item /\ Fits(bs, n, Emit(Return(name)), p, p)
<1>1. Return(name) \in Instruction
  BY InstructionsTyped
<1>2. AllOwned(bs, Return(name).targets, p.owner)
  BY DEF Return, AllOwned
<1> QED
  BY <1>1, <1>2, EmitFits

LEMMA BranchFits ==
  ASSUME NEW bs, NEW n, NEW p \in Point, p.owner # 0, NEW to \in Nat, Owned(bs, to, p.owner)
  PROVE  Emit(Br(to)) \in Item /\ Fits(bs, n, Emit(Br(to)), p, p)
<1>1. Br(to) \in Instruction
  BY InstructionsTyped
<1>2. AllOwned(bs, Br(to).targets, p.owner)
  BY DEF Br, AllOwned
<1> QED
  BY <1>1, <1>2, EmitFits

LEMMA GenReturnBuilds ==
  ASSUME NEW p, Building(p), GenReturn
  PROVE  \E r : Building(r)' /\ r.base = p.base /\ r.owner # 0
<1> DEFINE x == Inject(defer_stack_len, 0)
           y == Emit(Return(Head(todo).stmt.name))
<1>1. At("gen") /\ Head(todo).stmt.kind = "return"
  BY DEF GenReturn, Generates
<1>2. /\ todo # <<>> /\ Head(todo).stmt \in Stmt /\ p \in Point /\ p.owner # 0
      /\ Chain(blocks, Len(defer_stack), Tail(todo), p, End)
  BY <1>1, StatementStep
<1>3. x \in Item /\ Fits(blocks, Len(defer_stack), x, p, p)
  BY <1>2, InjectFits
<1>4. y \in Item /\ Fits(blocks, Len(defer_stack), y, p, p)
  BY <1>2, StmtFields, ReturnFits
<1>5. Then(<<x, y>>) /\ UNCHANGED <<deferring, blocks, block, functions>>
  BY DEF GenReturn
<1> HIDE DEF x, y
<1>6. <<x, y>> \in Seq(Item) /\ Chain(blocks, Len(defer_stack), <<x, y>>, p, p)
  BY <1>2, <1>3, <1>4, ChainTwo
<1> QED
  BY <1>2, <1>5, <1>6, BlocksRemain
-------------------------------------------------------------------------------
(* The statements that open scopes.                                          *)
LEMMA CodedBlocks ==
  ASSUME NEW bs, NEW count, GoodBlocks(bs, count), NEW n \in Nat, NEW owner, NEW b,
         Owned(bs, b, owner), NEW code \in Seq(Instruction), Stays(bs, code, owner)
  PROVE  /\ GoodBlocks(Coded(bs, b, code), count) /\ Grows(bs, n, Coded(bs, b, code), n)
         /\ Len(Coded(bs, b, code)) = Len(bs)
BY CodeWritten DEF Owned

LEMMA LastLeave ==
  ASSUME NEW bs, NEW n, NEW p \in Point, p.owner # 0, NEW out \in Nat,
         Owned(bs, out, p.owner), NEW to \in Nat, Owned(bs, to, p.owner),
         NEW always \in BOOLEAN
  PROVE  /\ <<Leave(out, always), MoveTo(to)>> \in Seq(Item)
         /\ Chain(bs, n, <<Leave(out, always), MoveTo(to)>>, Deeper(p), p)
<1>1. PICK x : x = Leave(out, always)
  BY Zenon
<1>2. x \in Item /\ Fits(bs, n, x, Deeper(p), p)
  BY <1>1, LeaveItem, LeaveFits, Zenon
<1>3. MoveTo(to) \in Item /\ Fits(bs, n, MoveTo(to), p, p)
  BY ScopeItems, MoveFits
<1>4. <<x, MoveTo(to)>> \in Seq(Item) /\ Chain(bs, n, <<x, MoveTo(to)>>, Deeper(p), p)
  BY <1>2, <1>3, ChainTwo, DeeperPoint
<1> QED
  BY <1>1, <1>4, Zenon

LEMMA GenBlockBuilds ==
  ASSUME NEW p, Building(p), GenBlock
  PROVE  \E r : Building(r)' /\ r.base = p.base /\ r.owner # 0
<1> DEFINE list == Head(todo).stmt.parts[1]
           body == Len(blocks) + 1
           merge == Len(blocks) + 2
           n == Len(defer_stack)
           new == WithBlocks(2)
           last == <<Leave(merge, TRUE), MoveTo(merge)>>
           items == <<Enter(body)>> \o Body(list) \o last
<1>1. At("gen") /\ Head(todo).stmt.kind = "block"
  BY DEF GenBlock, Generates
<1>2. /\ todo # <<>> /\ Head(todo).stmt \in Stmt /\ p \in Point /\ p.owner # 0
      /\ Chain(blocks, n, Tail(todo), p, End)
  BY <1>1, StatementStep
<1>3. list \in Statements
  BY <1>1, <1>2, StmtFields
<1>4. Len(blocks) \in Nat /\ n \in Nat
  BY Lengths
<1>5. /\ GoodBlocks(new, Len(functions)) /\ Grows(blocks, n, new, n)
      /\ Owned(new, body, p.owner) /\ Owned(new, merge, p.owner)
      /\ block \in 1 .. Len(new) /\ new[block].owner = p.owner
  <2>1. 1 \in 1 .. 2 /\ 2 \in 1 .. 2 /\ 2 \in Nat
    OBVIOUS
  <2> QED
    BY <1>2, <2>1, AddedHere
<1>6. body \in Nat /\ merge \in Nat
  BY <1>4
<1>7. blocks' = Appended(new, Br(body)) /\ UNCHANGED <<deferring, functions, block>>
  BY DEF GenBlock
<1>8. Then(items)
  BY Zenon DEF GenBlock
<1> HIDE DEF list, body, merge, n, new, last, items
<1>9. Br(body) \in Instruction /\ AllOwned(new, Br(body).targets, new[block].owner)
  BY <1>5, <1>6, InstructionsTyped DEF Br, AllOwned
<1>10. GoodBlocks(blocks', Len(functions)) /\ Grows(new, n, blocks', n)
  BY <1>4, <1>5, <1>7, <1>9, AppendedBlocks
<1>11. Grows(blocks, n, blocks', n)
  BY <1>5, <1>10, GrowsOn
<1>12. Owned(blocks', body, p.owner) /\ Owned(blocks', merge, p.owner)
  BY <1>5, <1>10, OwnedOn
<1>13. last \in Seq(Item) /\ Chain(blocks', n, last, Deeper(p), p)
  BY <1>2, <1>6, <1>12, LastLeave, Zenon DEF last
<1>14. items \in Seq(Item) /\ Chain(blocks', n, items, p, p)
  BY <1>2, <1>3, <1>6, <1>12, <1>13, ScopeChain DEF items
<1> QED
  BY <1>2, <1>7, <1>8, <1>10, <1>11, <1>14, Remains DEF n

LEMMA OnlyLeave ==
  ASSUME NEW bs, NEW n, NEW p \in Point, p.owner # 0, NEW out \in Nat,
         Owned(bs, out, p.owner), NEW always \in BOOLEAN
  PROVE  /\ <<Leave(out, always)>> \in Seq(Item)
         /\ Chain(bs, n, <<Leave(out, always)>>, Deeper(p), p)
<1>1. PICK x : x = Leave(out, always)
  BY Zenon
<1>2. x \in Item /\ Fits(bs, n, x, Deeper(p), p)
  BY <1>1, LeaveItem, LeaveFits, Zenon
<1>3. <<x>> \in Seq(Item) /\ Chain(bs, n, <<x>>, Deeper(p), p)
  BY <1>2, ChainOne, DeeperPoint
<1> QED
  BY <1>1, <1>3, Zenon

LEMMA GenIfBuilds ==
  ASSUME NEW p, Building(p), GenIf
  PROVE  \E r : Building(r)' /\ r.base = p.base /\ r.owner # 0
<1> DEFINE s == Head(todo).stmt
           arms == Len(s.parts)
           then == Len(blocks) + 1
           else == Len(blocks) + 2
           merge == Len(blocks) + arms + 1
           n == Len(defer_stack)
           new == WithBlocks(arms + 1)
           leave == <<Leave(merge, FALSE)>>
           first == <<Enter(then)>> \o Body(s.parts[1]) \o leave
           second == IF arms = 1 THEN <<>> ELSE <<Enter(else)>> \o Body(s.parts[2]) \o leave
           items == first \o second \o <<MoveTo(merge)>>
<1>1. At("gen") /\ s.kind = "if"
  BY DEF GenIf, Generates
<1>2. /\ todo # <<>> /\ s \in Stmt /\ p \in Point /\ p.owner # 0
      /\ Chain(blocks, n, Tail(todo), p, End)
  BY <1>1, StatementStep
<1>3. /\ s.name \in Name /\ arms \in {1, 2} /\ s.parts[1] \in Statements
      /\ arms = 2 => s.parts[2] \in Statements
  BY <1>1, <1>2, StmtFields
<1>4. Len(blocks) \in Nat /\ n \in Nat
  BY Lengths
<1>5. /\ GoodBlocks(new, Len(functions)) /\ Grows(blocks, n, new, n)
      /\ Owned(new, then, p.owner) /\ Owned(new, else, p.owner) /\ Owned(new, merge, p.owner)
      /\ block \in 1 .. Len(new) /\ new[block].owner = p.owner
  <2>1. /\ arms + 1 \in Nat /\ 1 \in 1 .. arms + 1 /\ 2 \in 1 .. arms + 1
        /\ arms + 1 \in 1 .. arms + 1
    BY <1>3
  <2>2. Len(blocks) + arms + 1 = Len(blocks) + (arms + 1)
    BY <1>3, <1>4
  <2> HIDE DEF arms, s
  <2> QED
    BY <1>2, <2>1, <2>2, AddedHere
<1>6. then \in Nat /\ else \in Nat /\ merge \in Nat
  BY <1>3, <1>4
<1>7. /\ blocks' = Appended(new, CondBr(s.name, then, else))
      /\ UNCHANGED <<deferring, functions, block>>
  BY DEF GenIf
<1>8. Then(items)
  BY Zenon DEF GenIf
<1> HIDE DEF s, arms, then, else, merge, n, new, leave, first, second, items
<1>9. /\ CondBr(s.name, then, else) \in Instruction
      /\ AllOwned(new, CondBr(s.name, then, else).targets, new[block].owner)
  BY <1>3, <1>5, <1>6, InstructionsTyped DEF CondBr, AllOwned
<1>10. GoodBlocks(blocks', Len(functions)) /\ Grows(new, n, blocks', n)
  BY <1>4, <1>5, <1>7, <1>9, AppendedBlocks
<1>11. Grows(blocks, n, blocks', n)
  BY <1>5, <1>10, GrowsOn
<1>12. /\ Owned(blocks', then, p.owner) /\ Owned(blocks', else, p.owner)
       /\ Owned(blocks', merge, p.owner)
  BY <1>5, <1>10, OwnedOn
<1>13. leave \in Seq(Item) /\ Chain(blocks', n, leave, Deeper(p), p)
  BY <1>2, <1>6, <1>12, OnlyLeave, Zenon DEF leave
<1>14. first \in Seq(Item) /\ Chain(blocks', n, first, p, p)
  BY <1>2, <1>3, <1>6, <1>12, <1>13, ScopeChain DEF first
<1>15. second \in Seq(Item) /\ Chain(blocks', n, second, p, p)
  <2>1. CASE arms = 1
    <3>1. second = <<>>
      BY <2>1 DEF second
    <3> QED
      BY <1>2, <3>1, ChainEmpty
  <2>2. CASE arms = 2
    <3>1. second = <<Enter(else)>> \o Body(s.parts[2]) \o leave
      BY <2>2 DEF second
    <3>2. s.parts[2] \in Statements
      BY <1>3, <2>2
    <3> QED
      BY <1>2, <1>6, <1>12, <1>13, <3>1, <3>2, ScopeChain
  <2> QED
    BY <1>3, <2>1, <2>2
<1>16. <<MoveTo(merge)>> \in Seq(Item) /\ Chain(blocks', n, <<MoveTo(merge)>>, p, p)
  BY <1>2, <1>6, <1>12, ScopeItems, MoveFits, ChainOne
<1>17. first \o second \in Seq(Item) /\ Chain(blocks', n, first \o second, p, p)
  BY <1>14, <1>15, ChainJoined
<1>18. items \in Seq(Item) /\ Chain(blocks', n, items, p, p)
  <2>1. items \in Seq(Item)
    BY <1>16, <1>17 DEF items
  <2>2. Chain(blocks', n, (first \o second) \o <<MoveTo(merge)>>, p, p)
    BY <1>16, <1>17, ChainJoined
  <2> QED
    BY <2>1, <2>2 DEF items
<1> QED
  BY <1>2, <1>7, <1>8, <1>10, <1>11, <1>18, Remains DEF n

LEMMA GenLoopBuilds ==
  ASSUME NEW p, Building(p), GenLoop
  PROVE  \E r : Building(r)' /\ r.base = p.base /\ r.owner # 0
<1> DEFINE s == Head(todo).stmt
           condition == Len(blocks) + 1
           do == Len(blocks) + 2
           merge == Len(blocks) + 3
           n == Len(defer_stack)
           new == WithBlocks(3)
           branched == Appended(new, Br(condition))
           code == <<CondBr(s.name, do, merge)>>
           last == <<Leave(condition, FALSE), MoveTo(merge)>>
           items == <<Enter(do)>> \o Body(s.parts[1]) \o last
<1>1. At("gen") /\ s.kind = "for"
  BY DEF GenLoop, Generates
<1>2. /\ todo # <<>> /\ s \in Stmt /\ p \in Point /\ p.owner # 0
      /\ Chain(blocks, n, Tail(todo), p, End)
  BY <1>1, StatementStep
<1>3. s.name \in Name /\ s.parts[1] \in Statements
  BY <1>1, <1>2, StmtFields
<1>4. Len(blocks) \in Nat /\ n \in Nat
  BY Lengths
<1>5. /\ GoodBlocks(new, Len(functions)) /\ Grows(blocks, n, new, n)
      /\ Owned(new, condition, p.owner) /\ Owned(new, do, p.owner) /\ Owned(new, merge, p.owner)
      /\ block \in 1 .. Len(new) /\ new[block].owner = p.owner
  <2>1. 1 \in 1 .. 3 /\ 2 \in 1 .. 3 /\ 3 \in 1 .. 3 /\ 3 \in Nat
    OBVIOUS
  <2> QED
    BY <1>2, <2>1, AddedHere
<1>6. condition \in Nat /\ do \in Nat /\ merge \in Nat
  BY <1>4
<1>7. /\ blocks' = Coded(branched, condition, code)
      /\ UNCHANGED <<deferring, functions, block>>
  BY Zenon DEF GenLoop, Coded
<1>8. Then(items)
  BY Zenon DEF GenLoop
<1> HIDE DEF s, condition, do, merge, n, new, branched, code, last, items
<1>9. Br(condition) \in Instruction /\ AllOwned(new, Br(condition).targets, new[block].owner)
  BY <1>5, <1>6, InstructionsTyped DEF Br, AllOwned
<1>10. GoodBlocks(branched, Len(functions)) /\ Grows(new, n, branched, n)
  BY <1>4, <1>5, <1>9, AppendedBlocks DEF branched
<1>11. /\ Owned(branched, condition, p.owner) /\ Owned(branched, do, p.owner)
       /\ Owned(branched, merge, p.owner)
  BY <1>5, <1>10, OwnedOn
<1>12. code \in Seq(Instruction) /\ Stays(branched, code, p.owner)
  <2>1. CondBr(s.name, do, merge) \in Instruction
    BY <1>3, <1>6, InstructionsTyped
  <2>2. AllOwned(branched, CondBr(s.name, do, merge).targets, p.owner)
    BY <1>11 DEF CondBr, AllOwned
  <2> QED
    BY <2>1, <2>2 DEF code, Stays
<1>13. GoodBlocks(blocks', Len(functions)) /\ Grows(branched, n, blocks', n)
  BY <1>4, <1>7, <1>10, <1>11, <1>12, CodedBlocks
<1>14. Grows(blocks, n, branched, n)
  BY <1>5, <1>10, GrowsOn
<1>15. Grows(blocks, n, blocks', n)
  BY <1>13, <1>14, GrowsOn
<1>16. /\ Owned(blocks', condition, p.owner) /\ Owned(blocks', do, p.owner)
       /\ Owned(blocks', merge, p.owner)
  BY <1>11, <1>13, OwnedOn
<1>17. last \in Seq(Item) /\ Chain(blocks', n, last, Deeper(p), p)
  BY <1>2, <1>6, <1>16, LastLeave, Zenon DEF last
<1>18. items \in Seq(Item) /\ Chain(blocks', n, items, p, p)
  BY <1>2, <1>3, <1>6, <1>16, <1>17, ScopeChain DEF items
<1> QED
  BY <1>2, <1>7, <1>8, <1>13, <1>15, <1>18, Remains DEF n

LEMMA GenRangeLoopBuilds ==
  ASSUME NEW p, Building(p), GenRangeLoop
  PROVE  \E r : Building(r)' /\ r.base = p.base /\ r.owner # 0
<1> DEFINE s == Head(todo).stmt
           init == Len(blocks) + 1
           condition == Len(blocks) + 2
           do == Len(blocks) + 3
           merge == Len(blocks) + 4
           increment == Len(blocks) + 5
           n == Len(defer_stack)
           new == WithBlocks(5)
           b0 == Appended(new, Br(init))
           b1 == Coded(b0, init, <<Do("from"), Br(condition)>>)
           b2 == Coded(b1, condition, <<CondBr(s.name, do, merge)>>)
           b3 == Coded(b2, increment, <<Do("next"), Br(condition)>>)
           last == <<Leave(increment, FALSE), MoveTo(merge)>>
           items == <<Enter(do)>> \o Body(s.parts[1]) \o last
<1>1. At("gen") /\ s.kind = "in"
  BY DEF GenRangeLoop, Generates
<1>2. /\ todo # <<>> /\ s \in Stmt /\ p \in Point /\ p.owner # 0
      /\ Chain(blocks, n, Tail(todo), p, End)
  BY <1>1, StatementStep
<1>3. s.name \in Name /\ s.parts[1] \in Statements
  BY <1>1, <1>2, StmtFields
<1>4. Len(blocks) \in Nat /\ n \in Nat
  BY Lengths
<1>5. /\ GoodBlocks(new, Len(functions)) /\ Grows(blocks, n, new, n)
      /\ Owned(new, init, p.owner) /\ Owned(new, condition, p.owner) /\ Owned(new, do, p.owner)
      /\ Owned(new, merge, p.owner) /\ Owned(new, increment, p.owner)
      /\ block \in 1 .. Len(new) /\ new[block].owner = p.owner
  <2>1. 1 \in 1 .. 5 /\ 2 \in 1 .. 5 /\ 3 \in 1 .. 5 /\ 4 \in 1 .. 5 /\ 5 \in 1 .. 5 /\ 5 \in Nat
    OBVIOUS
  <2> QED
    BY <1>2, <2>1, AddedHere
<1>6. init \in Nat /\ condition \in Nat /\ do \in Nat /\ merge \in Nat /\ increment \in Nat
  BY <1>4
<1>7. blocks' = b3 /\ UNCHANGED <<deferring, functions, block>>
  BY DEF GenRangeLoop, Coded
<1>8. Then(items)
  BY Zenon DEF GenRangeLoop
<1> HIDE DEF s, init, condition, do, merge, increment, n, new, b0, b1, b2, b3, last, items
<1>9. Br(init) \in Instruction /\ AllOwned(new, Br(init).targets, new[block].owner)
  BY <1>5, <1>6, InstructionsTyped DEF Br, AllOwned
<1>10. GoodBlocks(b0, Len(functions)) /\ Grows(new, n, b0, n)
  BY <1>4, <1>5, <1>9, AppendedBlocks DEF b0
<1>11. ASSUME NEW bs, Grows(new, n, bs, n)
       PROVE  /\ Owned(bs, init, p.owner) /\ Owned(bs, condition, p.owner)
              /\ Owned(bs, do, p.owner) /\ Owned(bs, merge, p.owner)
              /\ Owned(bs, increment, p.owner)
  BY <1>5, <1>11, OwnedOn
<1>12. ASSUME NEW bs, Grows(new, n, bs, n), NEW name \in {"from", "next"}
       PROVE  /\ <<Do(name), Br(condition)>> \in Seq(Instruction)
              /\ Stays(bs, <<Do(name), Br(condition)>>, p.owner)
  <2>1. Do(name) \in Instruction /\ Br(condition) \in Instruction
    BY <1>6, InstructionsTyped, NameAssumption
  <2>2. AllOwned(bs, Do(name).targets, p.owner) /\ AllOwned(bs, Br(condition).targets, p.owner)
    BY <1>11, <1>12 DEF Do, Br, AllOwned
  <2>3. \A i \in DOMAIN <<Do(name), Br(condition)>> : i = 1 \/ i = 2
    OBVIOUS
  <2>4. /\ <<Do(name), Br(condition)>>[1] = Do(name)
        /\ <<Do(name), Br(condition)>>[2] = Br(condition)
    OBVIOUS
  <2> QED
    BY <2>1, <2>2, <2>3, <2>4, Pairs DEF Stays
<1>13. ASSUME NEW bs, Grows(new, n, bs, n)
       PROVE  /\ <<CondBr(s.name, do, merge)>> \in Seq(Instruction)
              /\ Stays(bs, <<CondBr(s.name, do, merge)>>, p.owner)
  <2>1. CondBr(s.name, do, merge) \in Instruction
    BY <1>3, <1>6, InstructionsTyped
  <2>2. AllOwned(bs, CondBr(s.name, do, merge).targets, p.owner)
    BY <1>11, <1>13 DEF CondBr, AllOwned
  <2> QED
    BY <2>1, <2>2 DEF Stays
<1>14. GoodBlocks(b1, Len(functions)) /\ Grows(b0, n, b1, n)
  BY <1>4, <1>10, <1>11, <1>12, CodedBlocks DEF b1
<1>15. Grows(new, n, b1, n)
  BY <1>10, <1>14, GrowsOn
<1>16. GoodBlocks(b2, Len(functions)) /\ Grows(b1, n, b2, n)
  BY <1>4, <1>11, <1>13, <1>14, <1>15, CodedBlocks DEF b2
<1>17. Grows(new, n, b2, n)
  BY <1>15, <1>16, GrowsOn
<1>18. GoodBlocks(b3, Len(functions)) /\ Grows(b2, n, b3, n)
  BY <1>4, <1>11, <1>12, <1>16, <1>17, CodedBlocks DEF b3
<1>19. Grows(new, n, b3, n)
  BY <1>17, <1>18, GrowsOn
<1>20. GoodBlocks(blocks', Len(functions)) /\ Grows(blocks, n, blocks', n)
  BY <1>5, <1>7, <1>18, <1>19, GrowsOn
<1>21. /\ Owned(blocks', do, p.owner) /\ Owned(blocks', merge, p.owner)
       /\ Owned(blocks', increment, p.owner)
  BY <1>7, <1>11, <1>19
<1>22. last \in Seq(Item) /\ Chain(blocks', n, last, Deeper(p), p)
  BY <1>2, <1>6, <1>21, LastLeave, Zenon DEF last
<1>23. items \in Seq(Item) /\ Chain(blocks', n, items, p, p)
  BY <1>2, <1>3, <1>6, <1>21, <1>22, ScopeChain DEF items
<1> QED
  BY <1>2, <1>7, <1>8, <1>20, <1>23, Remains DEF n

(* A switch keeps the blocks of its cases until the last one is generated.   *)
LEMMA GenSwitchBuilds ==
  ASSUME NEW p, Building(p), GenSwitch
  PROVE  \E r : Building(r)' /\ r.base = p.base /\ r.owner # 0
<1> DEFINE s == Head(todo).stmt
           merge == Len(blocks) + 1
           n == Len(defer_stack)
           x == Case(s, <<>>, block, merge)
<1>1. At("gen") /\ s.kind = "switch"
  BY DEF GenSwitch, Generates
<1>2. /\ todo # <<>> /\ s \in Stmt /\ p \in Point /\ p.owner # 0
      /\ Chain(blocks, n, Tail(todo), p, End)
  BY <1>1, StatementStep
<1>3. Len(blocks) \in Nat /\ n \in Nat
  BY Lengths
<1>4. /\ GoodBlocks(WithBlocks(1), Len(functions)) /\ Grows(blocks, n, WithBlocks(1), n)
      /\ Owned(WithBlocks(1), merge, p.owner) /\ Owned(WithBlocks(1), block, p.owner)
  <2>1. 1 \in 1 .. 1 /\ 1 \in Nat
    OBVIOUS
  <2> QED
    BY <1>2, <2>1, AddedHere DEF Owned
<1>5. merge \in Nat /\ block \in Nat /\ <<>> \in Seq(Nat)
  BY <1>2, <1>3, Lengths
<1>6. blocks' = WithBlocks(1) /\ UNCHANGED <<deferring, functions, block>> /\ Then(<<x>>)
  BY DEF GenSwitch
<1>7. x \in Item
  BY <1>2, <1>5, CaseItem
<1>8. Fits(blocks', n, x, p, p)
  BY <1>2, <1>4, <1>6 DEF Fits, Case, AllOwned
<1> HIDE DEF x
<1>9. <<x>> \in Seq(Item) /\ Chain(blocks', n, <<x>>, p, p)
  BY <1>2, <1>7, <1>8, ChainOne
<1> QED
  BY <1>2, <1>4, <1>6, <1>9, Remains

LEMMA CaseStep ==
  ASSUME NEW p, Building(p), At("case")
  PROVE  LET c == Head(todo)
         IN /\ todo # <<>> /\ c \in Item /\ c.op = "case" /\ p \in Point /\ p.owner # 0
            /\ c.stmt \in Stmt /\ c.cases \in Seq(Nat) /\ c.parent \in Nat /\ c.merge \in Nat
            /\ Owned(blocks, c.parent, p.owner) /\ Owned(blocks, c.merge, p.owner)
            /\ AllOwned(blocks, c.cases, p.owner)
            /\ Chain(blocks, Len(defer_stack), Tail(todo), p, End)
<1>1. todo # <<>> /\ Head(todo).op = "case"
  BY DEF At
<1>2. PICK q \in Point : /\ Fits(blocks, Len(defer_stack), Head(todo), p, q)
                         /\ Chain(blocks, Len(defer_stack), Tail(todo), q, End)
  BY <1>1, HeadStep
<1>3. Head(todo) \in Item
  BY <1>1, HeadStep
<1>4. /\ q = p /\ p.owner # 0 /\ Owned(blocks, Head(todo).parent, p.owner)
      /\ Owned(blocks, Head(todo).merge, p.owner)
      /\ AllOwned(blocks, Head(todo).cases, p.owner)
  BY <1>1, <1>2 DEF Fits
<1>5. /\ Head(todo).stmt \in Stmt /\ Head(todo).cases \in Seq(Nat)
      /\ Head(todo).parent \in Nat /\ Head(todo).merge \in Nat
  BY <1>1, <1>3, ItemFields
<1> QED
  BY <1>1, <1>2, <1>3, <1>4, <1>5

LEMMA LastCase ==
  ASSUME NEW bs, NEW n, NEW p \in Point, p.owner # 0, NEW out \in Nat,
         Owned(bs, out, p.owner), NEW to \in Nat, Owned(bs, to, p.owner),
         NEW y \in Item, Fits(bs, n, y, p, p)
  PROVE  /\ <<Leave(out, FALSE), MoveTo(to), y>> \in Seq(Item)
         /\ Chain(bs, n, <<Leave(out, FALSE), MoveTo(to), y>>, Deeper(p), p)
<1>1. PICK x : x = Leave(out, FALSE)
  BY Zenon
<1>2. x \in Item /\ Fits(bs, n, x, Deeper(p), p)
  BY <1>1, LeaveItem, LeaveFits, Zenon
<1>3. MoveTo(to) \in Item /\ Fits(bs, n, MoveTo(to), p, p)
  BY ScopeItems, MoveFits
<1>4. Deeper(p) \in Point
  BY DeeperPoint
<1>5. <<x, MoveTo(to), y>> \in Seq(Item) /\ Chain(bs, n, <<x, MoveTo(to), y>>, Deeper(p), p)
  BY <1>2, <1>3, <1>4, ChainThree
<1> QED
  BY <1>1, <1>5, Zenon

LEMMA GenCaseBuilds ==
  ASSUME NEW p, Building(p), GenCase
  PROVE  \E r : Building(r)' /\ r.base = p.base /\ r.owner # 0
<1> DEFINE c == Head(todo)
           new == Len(blocks) + 1
           i == Len(c.cases) + 1
           n == Len(defer_stack)
           again == [c EXCEPT !.cases = Append(@, new)]
           list == c.stmt.parts[i]
           last == <<Leave(c.merge, FALSE), MoveTo(c.parent), again>>
           items == <<Enter(new)>> \o Body(list) \o last
<1>1. At("case") /\ i <= Len(c.stmt.parts)
  BY DEF GenCase
<1>2. /\ todo # <<>> /\ c \in Item /\ c.op = "case" /\ p \in Point /\ p.owner # 0
      /\ c.stmt \in Stmt /\ c.cases \in Seq(Nat) /\ c.parent \in Nat /\ c.merge \in Nat
      /\ Owned(blocks, c.parent, p.owner) /\ Owned(blocks, c.merge, p.owner)
      /\ AllOwned(blocks, c.cases, p.owner)
      /\ Chain(blocks, n, Tail(todo), p, End)
  BY <1>1, CaseStep
<1>3. list \in Statements
  <2>1. c.stmt.parts \in Seq(Statements)
    BY <1>2, StmtFields
  <2>2. i \in 1 .. Len(c.stmt.parts)
    BY <1>1, <1>2, <2>1
  <2> HIDE DEF i, c
  <2> QED
    BY <2>1, <2>2
<1>4. Len(blocks) \in Nat /\ n \in Nat
  BY Lengths
<1>5. /\ GoodBlocks(WithBlocks(1), Len(functions)) /\ Grows(blocks, n, WithBlocks(1), n)
      /\ Owned(WithBlocks(1), new, p.owner)
  <2>1. 1 \in 1 .. 1 /\ 1 \in Nat
    OBVIOUS
  <2> QED
    BY <1>2, <2>1, AddedHere
<1>6. new \in Nat
  BY <1>4
<1>7. blocks' = WithBlocks(1) /\ UNCHANGED <<deferring, functions, block>>
  BY DEF GenCase
<1>8. Then(items)
  BY Zenon DEF GenCase
<1>9. again = Case(c.stmt, Append(c.cases, new), c.parent, c.merge)
  <2>1. c = Case(c.stmt, c.cases, c.parent, c.merge)
    BY <1>2, ItemFields
  <2> HIDE DEF new
  <2> QED
    BY <2>1 DEF Case
<1> HIDE DEF c, new, i, n, again, list, last, items
<1>10. Append(c.cases, new) \in Seq(Nat)
  BY <1>2, <1>6
<1>11. again \in Item
  BY <1>2, <1>9, <1>10, CaseItem
<1>12. /\ Owned(blocks', c.parent, p.owner) /\ Owned(blocks', c.merge, p.owner)
       /\ Owned(blocks', new, p.owner)
  BY <1>2, <1>5, <1>7, OwnedOn
<1>13. AllOwned(blocks', Append(c.cases, new), p.owner)
  <2> SUFFICES ASSUME NEW t \in DOMAIN Append(c.cases, new)
               PROVE  Owned(blocks', Append(c.cases, new)[t], p.owner)
    BY DEF AllOwned
  <2>1. t \in 1 .. Len(c.cases) + 1
    BY <1>2
  <2>2. CASE t = Len(c.cases) + 1
    <3>1. Append(c.cases, new)[t] = new
      BY <1>2, <2>2
    <3> QED
      BY <1>12, <3>1
  <2>3. CASE t # Len(c.cases) + 1
    <3>1. t \in DOMAIN c.cases /\ Append(c.cases, new)[t] = c.cases[t]
      BY <1>2, <2>1, <2>3
    <3> QED
      BY <1>2, <1>5, <1>7, <3>1, OwnedOn DEF AllOwned
  <2> QED
    BY <2>2, <2>3
<1>14. Fits(blocks', n, again, p, p)
  BY <1>2, <1>9, <1>12, <1>13 DEF Fits, Case
<1>15. last \in Seq(Item) /\ Chain(blocks', n, last, Deeper(p), p)
  BY <1>2, <1>11, <1>12, <1>14, LastCase, Zenon DEF last
<1>16. items \in Seq(Item) /\ Chain(blocks', n, items, p, p)
  BY <1>2, <1>3, <1>6, <1>12, <1>15, ScopeChain DEF items
<1> QED
  BY <1>2, <1>5, <1>7, <1>8, <1>16, Remains DEF n

LEMMA GenSwitchEndBuilds ==
  ASSUME NEW p, Building(p), GenSwitchEnd
  PROVE  \E r : Building(r)' /\ r.base = p.base /\ r.owner # 0
<1> DEFINE c == Head(todo)
           n == Len(defer_stack)
           x == Switch(c.stmt.name, c.cases, c.merge)
<1>1. At("case")
  BY DEF GenSwitchEnd
<1>2. /\ todo # <<>> /\ c \in Item /\ c.op = "case" /\ p \in Point /\ p.owner # 0
      /\ c.stmt \in Stmt /\ c.cases \in Seq(Nat) /\ c.parent \in Nat /\ c.merge \in Nat
      /\ Owned(blocks, c.parent, p.owner) /\ Owned(blocks, c.merge, p.owner)
      /\ AllOwned(blocks, c.cases, p.owner)
      /\ Chain(blocks, n, Tail(todo), p, End)
  BY <1>1, CaseStep
<1>3. /\ n \in Nat /\ block \in 1 .. Len(blocks) /\ blocks[block].owner = p.owner
      /\ GoodBlocks(blocks, Len(functions))
  BY <1>2, Lengths DEF Building, Generation
<1>4. x \in Instruction
  BY <1>2, StmtFields, InstructionsTyped
<1>5. AllOwned(blocks, x.targets, blocks[block].owner)
  <2> SUFFICES ASSUME NEW t \in DOMAIN Append(c.cases, c.merge)
               PROVE  Owned(blocks, Append(c.cases, c.merge)[t], p.owner)
    BY <1>3 DEF AllOwned, Switch
  <2> HIDE DEF c
  <2>1. t \in 1 .. Len(c.cases) + 1
    BY <1>2
  <2>2. CASE t = Len(c.cases) + 1
    <3>1. Append(c.cases, c.merge)[t] = c.merge
      BY <1>2, <2>2
    <3> QED
      BY <1>2, <3>1
  <2>3. CASE t # Len(c.cases) + 1
    <3>1. t \in DOMAIN c.cases /\ Append(c.cases, c.merge)[t] = c.cases[t]
      BY <1>2, <2>1, <2>3
    <3> QED
      BY <1>2, <3>1 DEF AllOwned
  <2> QED
    BY <2>2, <2>3
<1>6. /\ blocks' = Appended(blocks, x) /\ block' = c.merge
      /\ UNCHANGED <<deferring, functions>> /\ Then(<<>>)
  BY DEF GenSwitchEnd
<1> HIDE DEF x, c
<1>7. GoodBlocks(blocks', Len(functions)) /\ Grows(blocks, n, blocks', n)
  BY <1>3, <1>4, <1>5, <1>6, AppendedBlocks
<1>8. block' \in 0 .. Len(blocks') /\ p.owner = OwnerOf(blocks', block')
  <2>1. Owned(blocks', c.merge, p.owner) /\ Len(blocks') \in Nat
    BY <1>2, <1>7, OwnedOn DEF Grows
  <2> QED
    BY <1>2, <1>6, <2>1 DEF Owned, OwnerOf
<1>9. Chain(blocks', n, <<>>, p, p) /\ <<>> \in Seq(Item)
  BY <1>2, ChainEmpty
<1>10. p.level = Len(saved)
  BY DEF Building, Standing
<1>11. Building(p)'
  BY <1>2, <1>6, <1>7, <1>8, <1>9, <1>10, Proceeds
<1> QED
  BY <1>2, <1>11
-------------------------------------------------------------------------------
(* What ends functions and scopes.                                           *)
LEMMA EndFunctionBodyBuilds ==
  ASSUME NEW p, Building(p), EndFunctionBody
  PROVE  \E r : Building(r)' /\ r.base = p.base /\ r.owner # 0
<1> DEFINE prev == Head(todo).prev
           n == Len(defer_stack)
           x == Inject(defer_stack_len, defer_local_boundary)
           y == Emit(Return("void"))
           z == LeaveFunction(prev)
<1>1. todo # <<>> /\ Head(todo).op = "endfunction"
  BY DEF EndFunctionBody, At
<1>2. PICK q \in Point : Fits(blocks, n, Head(todo), p, q) /\ Chain(blocks, n, Tail(todo), q, End)
  BY <1>1, HeadStep
<1>3. FunctionEnds(blocks, prev, p, q) /\ p.owner # 0
  BY <1>1, <1>2 DEF Fits, FunctionEnds
<1>4. prev \in Nat /\ p \in Point /\ defer_local_boundary \in Nat
  BY <1>1, HeadStep, ItemFields DEF Building, Standing, Deferred
<1>5. z \in Item /\ Fits(blocks, n, z, p, q)
  BY <1>3, <1>4, FunctionItems DEF Fits, LeaveFunction
<1>6. /\ x \in Item /\ Fits(blocks, n, x, p, p)
      /\ y \in Item /\ Fits(blocks, n, y, p, p)
  BY <1>3, <1>4, InjectFits, ReturnFits, NameAssumption
<1>7. UNCHANGED <<deferring, blocks, block, functions>>
  BY DEF EndFunctionBody
<1>8. PICK front : /\ front = <<>> \/ front = <<x, y>>
                   /\ Then(front \o <<z>>)
  <2>1. Then((IF HasTerminator(block) THEN <<>> ELSE <<x, y>>) \o <<z>>)
    BY Zenon DEF EndFunctionBody
  <2> HIDE DEF x, y, z
  <2>2. CASE HasTerminator(block)
    BY <2>1, <2>2, Zenon
  <2>3. CASE ~HasTerminator(block)
    BY <2>1, <2>3, Zenon
  <2> QED
    BY <2>2, <2>3
<1> HIDE DEF x, y, z
<1>9. front \in Seq(Item) /\ Chain(blocks, n, front, p, p)
  <2>1. CASE front = <<>>
    <3>1. <<>> \in Seq(Item) /\ Chain(blocks, n, <<>>, p, p)
      BY <1>4, ChainEmpty
    <3> QED
      BY <2>1, <3>1, Zenon
  <2>2. CASE front = <<x, y>>
    <3>1. <<x, y>> \in Seq(Item) /\ Chain(blocks, n, <<x, y>>, p, p)
      BY <1>4, <1>6, ChainTwo
    <3> QED
      BY <2>2, <3>1, Zenon
  <2> QED
    BY <1>8, <2>1, <2>2
<1>10. <<z>> \in Seq(Item) /\ Chain(blocks, n, <<z>>, p, q)
  BY <1>4, <1>5, ChainOne
<1>11. front \o <<z>> \in Seq(Item) /\ Chain(blocks, n, front \o <<z>>, p, q)
  <2>1. front \o <<z>> \in Seq(Item)
    BY <1>9, <1>10
  <2> QED
    BY <1>9, <1>10, <2>1, ChainJoined
<1> QED
  BY <1>1, <1>2, <1>3, <1>7, <1>8, <1>11, BlocksRemain

LEMMA EndScopeBuilds ==
  ASSUME NEW p, Building(p), EndScope
  PROVE  \E r : Building(r)' /\ r.base = p.base /\ r.owner # 0
<1> DEFINE end == Head(todo)
           n == Len(defer_stack)
           x == Inject(defer_stack_len, defer_local_boundary)
           y == Emit(Br(end.to))
<1>1. todo # <<>> /\ end.op = "leave"
  BY DEF EndScope, At
<1>2. PICK q \in Point : Fits(blocks, n, Head(todo), p, q) /\ Chain(blocks, n, Tail(todo), q, End)
  BY <1>1, HeadStep
<1>3. p = Deeper(q) /\ p.owner # 0 /\ Owned(blocks, end.to, p.owner)
  BY <1>1, <1>2 DEF Fits
<1>4. end.to \in Nat /\ p \in Point /\ defer_local_boundary \in Nat
  BY <1>1, HeadStep, ItemFields DEF Building, Standing, Deferred
<1>5. Reset \in Item /\ Fits(blocks, n, Reset, p, q)
  BY <1>3, <1>4, ScopeItems DEF Fits, Reset
<1>6. /\ x \in Item /\ Fits(blocks, n, x, p, p)
      /\ y \in Item /\ Fits(blocks, n, y, p, p)
  BY <1>3, <1>4, InjectFits, BranchFits
<1>7. UNCHANGED <<deferring, blocks, block, functions>>
  BY DEF EndScope
<1>8. PICK front : /\ front = <<>> \/ front = <<x, y>>
                   /\ Then(front \o <<Reset>>)
  <2>1. Then((IF HasTerminator(block) /\ ~end.always THEN <<>> ELSE <<x, y>>) \o <<Reset>>)
    BY Zenon DEF EndScope
  <2> HIDE DEF x, y
  <2>2. CASE HasTerminator(block) /\ ~end.always
    BY <2>1, <2>2, Zenon
  <2>3. CASE ~(HasTerminator(block) /\ ~end.always)
    BY <2>1, <2>3, Zenon
  <2> QED
    BY <2>2, <2>3
<1> HIDE DEF x, y
<1>9. front \in Seq(Item) /\ Chain(blocks, n, front, p, p)
  <2>1. CASE front = <<>>
    <3>1. <<>> \in Seq(Item) /\ Chain(blocks, n, <<>>, p, p)
      BY <1>4, ChainEmpty
    <3> QED
      BY <2>1, <3>1, Zenon
  <2>2. CASE front = <<x, y>>
    <3>1. <<x, y>> \in Seq(Item) /\ Chain(blocks, n, <<x, y>>, p, p)
      BY <1>4, <1>6, ChainTwo
    <3> QED
      BY <2>2, <3>1, Zenon
  <2> QED
    BY <1>8, <2>1, <2>2
<1>10. <<Reset>> \in Seq(Item) /\ Chain(blocks, n, <<Reset>>, p, q)
  BY <1>4, <1>5, ChainOne
<1>11. front \o <<Reset>> \in Seq(Item) /\ Chain(blocks, n, front \o <<Reset>>, p, q)
  <2>1. front \o <<Reset>> \in Seq(Item)
    BY <1>9, <1>10
  <2> QED
    BY <1>9, <1>10, <2>1, ChainJoined
<1> QED
  BY <1>1, <1>2, <1>3, <1>7, <1>8, <1>11, BlocksRemain

LEMMA InjectDeferBuilds ==
  ASSUME NEW p, Building(p), InjectDefer
  PROVE  \E r : Building(r)' /\ r.base = p.base /\ r.owner # 0
<1> DEFINE i == Head(todo).i
           min == Head(todo).min
           n == Len(defer_stack)
           items == IF i > min THEN <<Gen(defer_stack[i]), Inject(i - 1, min)>> ELSE <<>>
<1>1. todo # <<>> /\ Head(todo).op = "inject"
  BY DEF InjectDefer, At
<1>2. PICK q \in Point : Fits(blocks, n, Head(todo), p, q) /\ Chain(blocks, n, Tail(todo), q, End)
  BY <1>1, HeadStep
<1>3. q = p /\ p.owner # 0 /\ i <= n
  BY <1>1, <1>2 DEF Fits
<1>4. i \in Nat /\ min \in Nat /\ n \in Nat /\ p \in Point
  BY <1>1, HeadStep, ItemFields, Lengths
<1>5. UNCHANGED <<deferring, blocks, block, functions>> /\ Then(items)
  BY DEF InjectDefer
<1> HIDE DEF i, min
<1>6. items \in Seq(Item) /\ Chain(blocks, n, items, p, p)
  <2>1. CASE i > min
    <3>1. i \in 1 .. n /\ i - 1 \in Nat /\ i - 1 <= n
      BY <1>3, <1>4, <2>1
    <3>2. defer_stack[i] \in Stmt
      BY <3>1 DEF Building, Deferred, Statements
    <3>3. Gen(defer_stack[i]) \in Item /\ Fits(blocks, n, Gen(defer_stack[i]), p, p)
      BY <1>3, <3>2, GenItem DEF Fits, Gen
    <3>4. Inject(i - 1, min) \in Item /\ Fits(blocks, n, Inject(i - 1, min), p, p)
      BY <1>3, <1>4, <3>1, InjectItem DEF Fits, Inject
    <3>5. items = <<Gen(defer_stack[i]), Inject(i - 1, min)>>
      BY <2>1
    <3> QED
      BY <1>4, <3>3, <3>4, <3>5, ChainTwo
  <2>2. CASE ~(i > min)
    <3>1. items = <<>>
      BY <2>2
    <3> QED
      BY <1>4, <3>1, ChainEmpty
  <2> QED
    BY <2>1, <2>2
<1> HIDE DEF items
<1> QED
  BY <1>1, <1>2, <1>3, <1>5, <1>6, BlocksRemain

LEMMA EmitInstructionBuilds ==
  ASSUME NEW p, Building(p), EmitInstruction
  PROVE  \E r : Building(r)' /\ r.base = p.base /\ r.owner # 0
<1> DEFINE x == Head(todo).instruction
           n == Len(defer_stack)
<1>1. todo # <<>> /\ Head(todo).op = "emit"
  BY DEF EmitInstruction, At
<1>2. PICK q \in Point : Fits(blocks, n, Head(todo), p, q) /\ Chain(blocks, n, Tail(todo), q, End)
  BY <1>1, HeadStep
<1>3. q = p /\ p.owner # 0 /\ AllOwned(blocks, x.targets, p.owner)
  BY <1>1, <1>2 DEF Fits
<1>4. x \in Instruction
  BY <1>1, HeadStep, ItemFields
<1>5. /\ n \in Nat /\ block \in 1 .. Len(blocks) /\ blocks[block].owner = p.owner
      /\ GoodBlocks(blocks, Len(functions)) /\ p \in Point
  BY <1>3, Lengths DEF Building, Generation
<1>6. /\ blocks' = Appended(blocks, x) /\ Then(<<>>)
      /\ UNCHANGED <<deferring, functions, block>>
  BY DEF EmitInstruction
<1> HIDE DEF x
<1>7. GoodBlocks(blocks', Len(functions)) /\ Grows(blocks, n, blocks', n)
  BY <1>3, <1>4, <1>5, <1>6, AppendedBlocks
<1>8. Chain(blocks', n, <<>>, p, p) /\ <<>> \in Seq(Item)
  BY <1>5, ChainEmpty
<1> QED
  BY <1>1, <1>2, <1>3, <1>5, <1>6, <1>7, <1>8, Remains

LEMMA MoveBuilderBuilds ==
  ASSUME NEW p, Building(p), MoveBuilder
  PROVE  \E r : Building(r)' /\ r.base = p.base /\ r.owner # 0
<1> DEFINE to == Head(todo).to
           n == Len(defer_stack)
<1>1. todo # <<>> /\ Head(todo).op = "move"
  BY DEF MoveBuilder, At
<1>2. PICK q \in Point : Fits(blocks, n, Head(todo), p, q) /\ Chain(blocks, n, Tail(todo), q, End)
  BY <1>1, HeadStep
<1>3. q = p /\ p.owner # 0 /\ Owned(blocks, to, p.owner)
  BY <1>1, <1>2 DEF Fits
<1>4. n \in Nat /\ Len(blocks) \in Nat /\ GoodBlocks(blocks, Len(functions)) /\ p \in Point
  BY Lengths DEF Building, Generation
<1>5. block' = to /\ Then(<<>>) /\ UNCHANGED <<deferring, functions>> /\ blocks' = blocks
  BY DEF MoveBuilder
<1>6. Grows(blocks, n, blocks', n)
  BY <1>4, <1>5, GrowsSelf
<1>7. block' \in 0 .. Len(blocks') /\ p.owner = OwnerOf(blocks', block')
  BY <1>3, <1>4, <1>5 DEF Owned, OwnerOf
<1>8. Chain(blocks', n, <<>>, p, p) /\ <<>> \in Seq(Item)
  BY <1>4, ChainEmpty
<1>9. p.level = Len(saved)
  BY DEF Building, Standing
<1>10. Building(p)'
  BY <1>1, <1>2, <1>3, <1>4, <1>5, <1>6, <1>7, <1>8, <1>9, Proceeds
<1> QED
  BY <1>3, <1>10
-------------------------------------------------------------------------------
(* What enters and leaves scopes and functions, and what defers.             *)
LEMMA Arrives ==
  ASSUME NEW p, Building(p), NEW q \in Point, todo # <<>>,
         Chain(blocks, Len(defer_stack), Tail(todo), q, End),
         Grows(blocks, Len(defer_stack), blocks', Len(defer_stack')),
         Then(<<>>), q.level = Len(saved'), q.owner = OwnerOf(blocks', block')
  PROVE  Standing(q)'
<1>1. <<>> \in Seq(Item) /\ Chain(blocks', Len(defer_stack'), <<>>, q, q)
  BY ChainEmpty
<1>2. todo' \in Seq(Item) /\ Chain(blocks', Len(defer_stack'), todo', q, End)
  BY <1>1, Continues DEF Then
<1> QED
  BY <1>2 DEF Standing

LEMMA EnterScopeBuilds ==
  ASSUME NEW p, Building(p), EnterScope
  PROVE  \E r : Building(r)' /\ r.base = p.base /\ r.owner # 0
<1> DEFINE to == Head(todo).to
           n == Len(defer_stack)
           q == Deeper(p)
           new == [len |-> defer_stack_len, boundary |-> defer_local_boundary]
<1>1. todo # <<>> /\ Head(todo).op = "enter"
  BY DEF EnterScope, At
<1>2. /\ p \in Point /\ p.owner # 0 /\ Owned(blocks, to, p.owner)
      /\ Chain(blocks, n, Tail(todo), q, End)
  <2>1. PICK s \in Point : /\ Fits(blocks, n, Head(todo), p, s)
                           /\ Chain(blocks, n, Tail(todo), s, End)
    BY <1>1, HeadStep
  <2> QED
    BY <1>1, <2>1, Lengths DEF Fits
<1>3. q \in Point /\ q.owner = p.owner /\ q.base = p.base /\ q.level = p.level + 1
  BY <1>2, DeeperPoint
<1>4. n \in Nat /\ Len(blocks) \in Nat /\ GoodBlocks(blocks, Len(functions))
  BY Lengths DEF Building, Generation
<1>5. /\ saved' = Append(saved, new) /\ defer_local_boundary' = defer_stack_len
      /\ block' = to /\ Then(<<>>)
      /\ UNCHANGED <<defer_stack, defer_stack_len, blocks, functions>>
  BY DEF EnterScope
<1>6. Grows(blocks, n, blocks', Len(defer_stack'))
  BY <1>4, <1>5, GrowsSelf
<1>7. block' \in 0 .. Len(blocks') /\ q.owner = OwnerOf(blocks', block')
  BY <1>2, <1>3, <1>4, <1>5 DEF Owned, OwnerOf
<1>8. /\ saved \in Seq(Locals) /\ p.level = Len(saved)
      /\ new \in Locals /\ new.len <= n
      /\ \A k \in 1 .. Len(saved) : saved[k].len <= n
  BY DEF Building, Standing, Deferred, Locals
<1> HIDE DEF new, to, q
<1>9. /\ saved' \in Seq(Locals) /\ Len(saved') = q.level
      /\ \A k \in 1 .. Len(saved') : saved'[k].len <= n
  <2>1. /\ Append(saved, new) \in Seq(Locals)
        /\ Len(Append(saved, new)) = Len(saved) + 1
    BY <1>8
  <2>2. ASSUME NEW k \in 1 .. Len(saved) + 1  PROVE Append(saved, new)[k].len <= n
    <3>1. CASE k = Len(saved) + 1
      <4>1. Append(saved, new)[k] = new
        BY <1>8, <3>1
      <4> QED
        BY <1>8, <4>1
    <3>2. CASE k # Len(saved) + 1
      <4>1. k \in 1 .. Len(saved) /\ Append(saved, new)[k] = saved[k]
        BY <1>8, <3>2
      <4> QED
        BY <1>8, <4>1
    <3> QED
      BY <3>1, <3>2
  <2> QED
    BY <1>3, <1>5, <1>8, <2>1, <2>2
<1>10. Standing(q)'
  BY <1>1, <1>2, <1>3, <1>5, <1>6, <1>7, <1>9, Arrives
<1>11. Deferred'
  BY <1>5, <1>9 DEF Building, Deferred
<1>12. Generation'
  BY <1>5, <1>7 DEF Building, Generation
<1> QED
  BY <1>2, <1>3, <1>10, <1>11, <1>12 DEF Building

LEMMA FrontOf ==
  ASSUME NEW S, NEW s \in Seq(S), NEW l \in Nat, \A k \in 1 .. l : k \in 1 .. Len(s)
  PROVE  /\ SubSeq(s, 1, l) \in Seq(S) /\ Len(SubSeq(s, 1, l)) = l
         /\ \A k \in 1 .. l : SubSeq(s, 1, l)[k] = s[k]
<1>1. \A k \in 1 .. l : s[k] \in S
  OBVIOUS
<1>2. 1 \in Int /\ l \in Int
  OBVIOUS
<1> DEFINE t == SubSeq(s, 1, l)
<1>3. /\ t \in Seq(S) /\ Len(t) = IF 1 <= l THEN l - 1 + 1 ELSE 0
      /\ \A k \in 1 .. l - 1 + 1 : t[k] = s[1 + k - 1]
  BY <1>1, <1>2, SubSeqProperties
<1> HIDE DEF t
<1>4. t \in Seq(S) /\ Len(t) = l /\ \A k \in 1 .. l : t[k] = s[k]
  BY <1>3
<1> QED
  BY <1>4 DEF t

LEMMA ResetScopeBuilds ==
  ASSUME NEW p, Building(p), ResetScope
  PROVE  \E r : Building(r)' /\ r.base = p.base /\ r.owner # 0
<1> DEFINE old == saved[Len(saved)]
           n == Len(defer_stack)
<1>1. todo # <<>> /\ Head(todo).op = "reset"
  BY DEF ResetScope, At
<1>2. PICK q \in Point : Fits(blocks, n, Head(todo), p, q) /\ Chain(blocks, n, Tail(todo), q, End)
  BY <1>1, HeadStep
<1>3. p = Deeper(q) /\ p.owner # 0
  BY <1>1, <1>2 DEF Fits
<1>4. p.owner = q.owner /\ p.base = q.base /\ p.level = q.level + 1 /\ q.level \in Nat
  BY <1>3, DeeperPoint DEF Point
<1>5. n \in Nat /\ Len(blocks) \in Nat /\ GoodBlocks(blocks, Len(functions))
  BY Lengths DEF Building, Generation
<1>6. /\ defer_stack_len' = old.len /\ defer_local_boundary' = old.boundary
      /\ saved' = SubSeq(saved, 1, Len(saved) - 1) /\ Then(<<>>)
      /\ UNCHANGED <<defer_stack, blocks, block, functions>>
  BY DEF ResetScope
<1>7. Grows(blocks, n, blocks', Len(defer_stack'))
  BY <1>5, <1>6, GrowsSelf
<1>8. block' \in 0 .. Len(blocks') /\ q.owner = OwnerOf(blocks', block')
  BY <1>4, <1>6 DEF Building, Standing, Generation
<1>9. /\ saved \in Seq(Locals) /\ Len(saved) = q.level + 1
      /\ \A k \in 1 .. Len(saved) : saved[k].len <= n
  BY <1>4 DEF Building, Standing, Deferred
<1>10. old \in Locals /\ old.len <= n
  <2>1. Len(saved) \in 1 .. Len(saved)
    BY <1>4, <1>9
  <2>2. old \in Locals
    BY <1>9, <2>1
  <2>3. old.len <= n
    BY <1>9, <2>1
  <2> QED
    BY <2>2, <2>3
<1>11. /\ saved' \in Seq(Locals) /\ Len(saved') = q.level
       /\ \A k \in 1 .. Len(saved') : saved'[k].len <= n
  <2>1. saved' = SubSeq(saved, 1, q.level)
    BY <1>4, <1>6, <1>9
  <2>2. \A k \in 1 .. q.level : k \in 1 .. Len(saved)
    BY <1>4, <1>9
  <2>3. /\ SubSeq(saved, 1, q.level) \in Seq(Locals)
        /\ Len(SubSeq(saved, 1, q.level)) = q.level
        /\ \A k \in 1 .. q.level : SubSeq(saved, 1, q.level)[k] = saved[k]
    BY <1>4, <1>9, <2>2, FrontOf
  <2> QED
    BY <1>9, <2>1, <2>2, <2>3
<1> HIDE DEF old
<1>12. Standing(q)'
  BY <1>1, <1>2, <1>6, <1>7, <1>8, <1>11, Arrives
<1>13. Deferred'
  BY <1>6, <1>10, <1>11 DEF Building, Deferred, Locals
<1>14. Generation'
  BY <1>6 DEF Building, Generation
<1> QED
  BY <1>3, <1>4, <1>12, <1>13, <1>14 DEF Building

(* An entry of the defer stack is overwritten, or the first one added.       *)
LEMMA ThreeJoined ==
  ASSUME NEW S, NEW u \in Seq(S), NEW v \in Seq(S), NEW w \in Seq(S)
  PROVE  u \o v \o w \in Seq(S) /\ Len(u \o v \o w) = Len(u) + Len(v) + Len(w)
<1>1. u \o v \in Seq(S) /\ Len(u \o v) = Len(u) + Len(v)
  BY ConcatProperties
<1> QED
  BY <1>1, ConcatProperties

LEMMA StackWritten ==
  ASSUME NEW S, NEW s \in Seq(S), NEW l \in Nat, NEW x \in Seq(S)
  PROVE  l <= Len(s) /\ Len(x) = 1 =>
           LET t == SubSeq(s, 1, l) \o x \o SubSeq(s, l + 2, Len(s))
           IN t \in Seq(S) /\ Len(s) <= Len(t) /\ l + 1 <= Len(t)
<1>1. PICK k \in Nat : k = Len(s)
  OBVIOUS
<1>2. PICK u : u = SubSeq(s, 1, l)
  OBVIOUS
<1>3. PICK w : w = SubSeq(s, l + 2, k)
  OBVIOUS
<1>4. l <= k => u \in Seq(S) /\ Len(u) = l
  <2> HAVE l <= k
  <2>1. \A i \in 1 .. l : i \in 1 .. Len(s)
    BY <1>1
  <2> QED
    BY <1>2, <2>1, FrontOf
<1>5. w \in Seq(S) /\ Len(w) = IF l + 2 <= k THEN k - (l + 2) + 1 ELSE 0
  <2>1. \A i \in l + 2 .. k : s[i] \in S
    <3> TAKE i \in l + 2 .. k
    <3>1. i \in 1 .. Len(s)
      BY <1>1
    <3> QED
      BY <3>1
  <2>2. l + 2 \in Int /\ k \in Int
    OBVIOUS
  <2> QED
    BY <1>3, <2>1, <2>2, SubSeqProperties
<1>6. PICK m \in Nat : m = Len(w)
  <2>1. Len(w) \in Nat
    BY <1>5, LenProperties
  <2> QED
    BY <2>1
<1>7. u \in Seq(S) /\ w \in Seq(S) => /\ u \o x \o w \in Seq(S)
                                    /\ Len(u \o x \o w) = Len(u) + Len(x) + Len(w)
  BY ThreeJoined
<1>8. l <= k => k <= l + 1 + m /\ l + 1 <= l + 1 + m
  <2>1. m = IF l + 2 <= k THEN k - (l + 2) + 1 ELSE 0
    BY <1>5, <1>6
  <2> QED
    BY <2>1
<1> HAVE l <= Len(s) /\ Len(x) = 1
<1>9. u \o x \o w \in Seq(S) /\ Len(u \o x \o w) = l + 1 + m
  <2>1. u \o x \o w \in Seq(S) /\ Len(u \o x \o w) = Len(u) + Len(x) + Len(w)
    BY <1>1, <1>4, <1>5, <1>7
  <2> QED
    BY <1>1, <1>4, <1>6, <2>1
<1> QED
  BY <1>1, <1>2, <1>3, <1>8, <1>9

LEMMA GenDeferBuilds ==
  ASSUME NEW p, Building(p), GenDefer
  PROVE  \E r : Building(r)' /\ r.base = p.base /\ r.owner # 0
<1> DEFINE n == Len(defer_stack)
           m == Len(defer_stack')
           x == Head(todo).stmt.parts[1]
<1>1. At("gen") /\ Head(todo).stmt.kind = "defer"
  BY DEF GenDefer, Generates
<1>2. /\ todo # <<>> /\ Head(todo).stmt \in Stmt /\ p \in Point /\ p.owner # 0
      /\ Chain(blocks, n, Tail(todo), p, End)
  BY <1>1, StatementStep
<1>3. x \in Statements /\ Len(x) = 1
  BY <1>1, <1>2, StmtFields
<1>4. /\ defer_stack' = SubSeq(defer_stack, 1, defer_stack_len) \o x
                        \o SubSeq(defer_stack, defer_stack_len + 2, Len(defer_stack))
      /\ defer_stack_len' = defer_stack_len + 1 /\ Then(<<>>)
      /\ UNCHANGED <<saved, defer_local_boundary, blocks, block, functions>>
  BY DEF GenDefer
<1>5. /\ defer_stack \in Statements /\ defer_stack_len \in Nat /\ defer_stack_len <= n
      /\ saved \in Seq(Locals) /\ defer_local_boundary \in Nat
      /\ \A k \in 1 .. Len(saved) : saved[k].len <= n
      /\ n \in Nat /\ GoodBlocks(blocks, Len(functions)) /\ p.level = Len(saved)
      /\ p.owner = OwnerOf(blocks, block)
  BY Lengths DEF Building, Standing, Deferred, Generation
<1> HIDE DEF x
<1>6. defer_stack' \in Statements /\ n <= m /\ defer_stack_len + 1 <= m
  BY <1>3, <1>4, <1>5, StackWritten DEF Statements
<1>7. m \in Nat
  BY <1>6 DEF Statements
<1>8. Grows(blocks, n, blocks', m)
  BY <1>4, <1>5, <1>6, <1>7, GrowsSelf
<1>9. Standing(p)'
  BY <1>2, <1>4, <1>5, <1>8, Arrives
<1>10. Deferred'
  <2>1. \A k \in 1 .. Len(saved) : saved[k].len <= m
    <3> SUFFICES ASSUME NEW k \in 1 .. Len(saved) PROVE saved[k].len <= m
      OBVIOUS
    <3>1. saved[k] \in Locals /\ saved[k].len <= n
      BY <1>5
    <3>2. saved[k].len \in Nat
      BY <3>1 DEF Locals
    <3> QED
      BY <1>5, <1>6, <1>7, <3>1, <3>2
  <2>2. defer_stack_len' = defer_stack_len + 1 /\ defer_stack_len \in Nat
    BY <1>4, <1>5
  <2>3. defer_stack_len' \in Nat /\ defer_stack_len' <= Len(defer_stack')
    BY <1>6, <2>2
  <2> QED
    BY <1>4, <1>5, <1>6, <2>1, <2>3 DEF Deferred
<1>11. Generation'
  BY <1>4 DEF Building, Generation
<1> QED
  BY <1>2, <1>9, <1>10, <1>11 DEF Building

(* A function is generated in the middle of another, or outside of all.      *)
LEMMA OneAdded ==
  ASSUME NEW bs, NEW count, GoodBlocks(bs, count), NEW owner
  PROVE  Append(bs, Fresh(owner)) = Extended(bs, 1, owner)
<1> DEFINE x == Fresh(owner)
           T == Block(count) \cup {x}
           one == [i \in 1 .. 1 |-> x]
<1>1. bs \in Seq(T) /\ x \in T
  <2>1. bs \in Seq(Block(count)) /\ Block(count) \subseteq T /\ x \in T
    BY DEF GoodBlocks
  <2> HIDE DEF T, x
  <2> QED
    BY <2>1
<1> HIDE DEF T, x
<1>2. <<x>> \in Seq(T) /\ one \in Seq(T) /\ Len(<<x>>) = 1 /\ Len(one) = 1
      /\ \A i \in 1 .. 1 : <<x>>[i] = one[i]
  BY <1>1
<1> HIDE DEF one
<1>3. <<x>> = one
  BY <1>2, SameSeq
<1>4. Append(bs, x) = bs \o <<x>>
  BY <1>1, AppendIsConcat
<1> QED
  BY <1>3, <1>4 DEF Extended, one, x

LEMMA GenFunctionBuilds ==
  ASSUME NEW p, Building(p), GenFunction
  PROVE  \E r : Building(r)' /\ r.base = p.level /\ r.owner # 0
<1> DEFINE s == Head(todo).stmt
           list == s.parts[1]
           entry == Len(blocks) + 1
           n == Len(defer_stack)
           last == <<EndFunction(block)>>
           items == Body(list) \o last
           new == [entry |-> entry, body |-> list]
<1>1. At("gen") /\ s.kind = "function"
  BY DEF GenFunction, Generates
<1>2. todo # <<>> /\ s \in Stmt /\ p \in Point /\ Chain(blocks, n, Tail(todo), p, End)
  BY <1>1, StatementStep
<1>3. list \in Statements
  BY <1>1, <1>2, StmtFields
<1>4. /\ n \in Nat /\ Len(blocks) \in Nat /\ Len(functions) \in Nat
      /\ GoodBlocks(blocks, Len(functions)) /\ functions \in Seq(GeneratedFunction)
      /\ block \in 0 .. Len(blocks) /\ p.level = Len(saved) /\ p.owner = OwnerOf(blocks, block)
  BY Lengths DEF Building, Standing, Generation
<1>5. PICK f \in Nat : f = Len(functions) + 1
  BY <1>4
<1>6. PICK q : q = [level |-> p.level, base |-> p.level, owner |-> f]
  OBVIOUS
<1>7. /\ blocks' = Append(blocks, Fresh(f)) /\ functions' = Append(functions, new)
      /\ block' = entry /\ Then(items) /\ UNCHANGED deferring
  BY <1>5 DEF GenFunction
<1>8. q \in Point /\ q.owner = f /\ q.level = p.level /\ q.base = p.level /\ q.owner # 0
  BY <1>2, <1>4, <1>5, <1>6 DEF Point
<1>9. new \in GeneratedFunction
  BY <1>3, <1>4 DEF GeneratedFunction
<1> HIDE DEF s, list, entry, n, last, items, new
<1>10. functions' \in Seq(GeneratedFunction) /\ Len(functions') = f
  BY <1>4, <1>7, <1>9, <1>5
<1>11. /\ GoodBlocks(blocks', f) /\ Grows(blocks, n, blocks', n)
      /\ Len(blocks') = entry /\ Owned(blocks', entry, f)
  <2>1. blocks' = Extended(blocks, 1, f)
    BY <1>4, <1>7, OneAdded
  <2>2. 1 \in Nat /\ f \in Nat /\ Len(functions) <= f /\ f \in 1 .. f
    BY <1>4, <1>5
  <2>3. PICK k \in Nat : k = 1
    BY <2>2
  <2>4. blocks' = Extended(blocks, k, f)
    BY <2>1, <2>3
  <2>5. /\ GoodBlocks(blocks', f) /\ Grows(blocks, n, blocks', n) /\ Len(blocks') = Len(blocks) + k
        /\ \A b \in Len(blocks) + 1 .. Len(blocks) + k : Owned(blocks', b, f)
    <3> DEFINE bs == Extended(blocks, k, f)
    <3>1. k \in Nat /\ f \in 1 .. f /\ n \in Nat
      BY <1>4, <2>2, <2>3
    <3>2. /\ GoodBlocks(bs, f) /\ Grows(blocks, n, bs, n) /\ Len(bs) = Len(blocks) + k
          /\ \A b \in Len(blocks) + 1 .. Len(blocks) + k : Owned(bs, b, f)
      BY <1>4, <2>2, <3>1, BlocksAdded
    <3> HIDE DEF bs
    <3>3. blocks' = bs
      BY <2>4 DEF bs
    <3> QED
      BY <3>2, <3>3
  <2>6. Len(blocks) + 1 \in Len(blocks) + 1 .. Len(blocks) + k
    BY <1>4, <2>3
  <2> QED
    BY <1>4, <2>3, <2>5, <2>6 DEF entry
<1>12. block' \in 0 .. Len(blocks') /\ q.owner = OwnerOf(blocks', block')
  BY <1>4, <1>7, <1>8, <1>11 DEF Owned, OwnerOf, entry
<1>13. FunctionEnds(blocks', block, q, p)
  <2>1. block \in 0 .. Len(blocks') /\ p.owner = OwnerOf(blocks', block)
    BY <1>11, SameOwner
  <2> QED
    BY <1>8, <2>1 DEF FunctionEnds
<1>14. last \in Seq(Item) /\ Chain(blocks', n, last, q, p)
  <2>1. EndFunction(block) \in Item
    BY <1>4, FunctionItems
  <2>2. Fits(blocks', n, EndFunction(block), q, p)
    BY <1>13 DEF Fits, EndFunction
  <2> QED
    BY <1>2, <1>8, <2>1, <2>2, ChainOne DEF last
<1>15. Body(list) \in Seq(Item) /\ Chain(blocks', n, Body(list), q, q)
  BY <1>3, <1>8, BodyChain
<1>16. items \in Seq(Item) /\ Chain(blocks', n, items, q, p)
  <2>1. items \in Seq(Item)
    BY <1>14, <1>15 DEF items
  <2> QED
    BY <1>14, <1>15, <2>1, ChainJoined DEF items
<1>17. todo' \in Seq(Item) /\ Chain(blocks', n, todo', q, End)
  BY <1>2, <1>7, <1>11, <1>16, Continues DEF Then, n
<1>18. Standing(q)'
  BY <1>4, <1>7, <1>8, <1>12, <1>17 DEF Standing, deferring, n
<1>19. Deferred'
  BY <1>7 DEF Building, Deferred, deferring
<1>20. Generation'
  <2>1. Entries(blocks', functions)
    BY <1>11, EntriesOn DEF Building, Generation
  <2>2. /\ \A i \in 1 .. Len(functions) : functions'[i] = functions[i]
        /\ functions'[f] = new /\ new.entry = entry
    BY <1>4, <1>5, <1>7 DEF new
  <2>3. ASSUME NEW i \in 1 .. f
        PROVE  Owned(blocks', functions'[i].entry, i)
    <3>1. CASE i = f
      BY <1>11, <2>2, <3>1
    <3>2. CASE i # f
      <4>1. i \in 1 .. Len(functions)
        BY <1>4, <1>5, <3>2
      <4> QED
        BY <2>1, <2>2, <4>1 DEF Entries
    <3> QED
      BY <3>1, <3>2
  <2>4. Entries(blocks', functions')
    BY <1>10, <2>3 DEF Entries
  <2> QED
    BY <1>10, <1>11, <1>12, <2>4 DEF Generation
<1> QED
  BY <1>8, <1>18, <1>19, <1>20 DEF Building

LEMMA FunctionDoneBuilds ==
  ASSUME NEW p, Building(p), FunctionDone
  PROVE  \E r : Building(r)' /\ r.level = p.base /\ p.level = p.base
<1> DEFINE prev == Head(todo).prev
           n == Len(defer_stack)
<1>1. todo # <<>> /\ Head(todo).op = "leavefunction"
  BY DEF FunctionDone, At
<1>2. PICK q \in Point : Fits(blocks, n, Head(todo), p, q) /\ Chain(blocks, n, Tail(todo), q, End)
  BY <1>1, HeadStep
<1>3. FunctionEnds(blocks, prev, p, q)
  BY <1>1, <1>2 DEF Fits, FunctionEnds
<1>4. /\ block' = prev /\ defer_stack_len' = 0 /\ Then(<<>>)
      /\ UNCHANGED <<saved, defer_stack, defer_local_boundary, blocks, functions>>
  BY DEF FunctionDone
<1>5. n \in Nat /\ GoodBlocks(blocks, Len(functions)) /\ p.level = Len(saved)
  BY Lengths DEF Building, Standing, Generation
<1>6. Grows(blocks, n, blocks', Len(defer_stack'))
  BY <1>4, <1>5, GrowsSelf
<1>7. block' \in 0 .. Len(blocks') /\ q.owner = OwnerOf(blocks', block') /\ q.level = Len(saved')
  BY <1>3, <1>4, <1>5 DEF FunctionEnds
<1>8. Standing(q)'
  BY <1>1, <1>2, <1>4, <1>6, <1>7, Arrives
<1>9. Deferred'
  BY <1>4, <1>5 DEF Building, Deferred
<1>10. Generation'
  BY <1>4, <1>7 DEF Building, Generation
<1> QED
  BY <1>3, <1>8, <1>9, <1>10 DEF Building, FunctionEnds
-------------------------------------------------------------------------------
Built == \E p : Building(p)

LEMMA InitBuilds ==
  ASSUME Init
  PROVE  Building(End)
<1>1. PICK s \in Program : todo = <<Gen(s)>>
  BY DEF Init
<1>2. s \in Stmt /\ s.kind = "function"
  BY ProgramAssumption
<1>3. /\ saved = <<>> /\ defer_stack = <<>> /\ defer_stack_len = 0
      /\ defer_local_boundary = 0 /\ blocks = <<>> /\ block = 0 /\ functions = <<>>
  BY DEF Init
<1>4. End \in Point /\ End.level = 0 /\ End.owner = 0
  BY DEF End, Point
<1>5. Gen(s) \in Item /\ Fits(blocks, Len(defer_stack), Gen(s), End, End)
  BY <1>2, GenItem DEF Fits, Gen
<1>6. todo \in Seq(Item) /\ Chain(blocks, Len(defer_stack), todo, End, End)
  BY <1>1, <1>4, <1>5, ChainOne
<1>7. Standing(End)
  BY <1>3, <1>4, <1>6 DEF Standing, OwnerOf
<1>8. Deferred
  BY <1>3 DEF Deferred, Statements
<1>9. Generation
  BY <1>3 DEF Generation, GoodBlocks, Entries
<1> QED
  BY <1>7, <1>8, <1>9 DEF Building

LEMMA StandsStill ==
  ASSUME NEW p, Building(p), UNCHANGED vars
  PROVE  Building(p)'
<1>1. UNCHANGED <<todo, saved, defer_stack, defer_stack_len, defer_local_boundary,
                  blocks, block, functions>>
  BY DEF vars
<1> QED
  BY <1>1 DEF Building, Standing, Deferred, Generation

LEMMA NextBuilds ==
  ASSUME Built, [Next]_vars
  PROVE  Built'
<1>1. PICK p : Building(p)
  BY DEF Built
<1>2. \/ Next
      \/ UNCHANGED vars
  OBVIOUS
<1> SUFFICES \E r : Building(r)'
  BY DEF Built
<1>3. CASE GenExpression
  BY <1>1, <1>3, GenExpressionBuilds
<1>4. CASE GenNothing
  BY <1>1, <1>4, GenNothingBuilds
<1>5. CASE GenDefer
  BY <1>1, <1>5, GenDeferBuilds
<1>6. CASE GenReturn
  BY <1>1, <1>6, GenReturnBuilds
<1>7. CASE GenBlock
  BY <1>1, <1>7, GenBlockBuilds
<1>8. CASE GenIf
  BY <1>1, <1>8, GenIfBuilds
<1>9. CASE GenLoop
  BY <1>1, <1>9, GenLoopBuilds
<1>10. CASE GenRangeLoop
  BY <1>1, <1>10, GenRangeLoopBuilds
<1>11. CASE GenSwitch
  BY <1>1, <1>11, GenSwitchBuilds
<1>12. CASE GenCase
  BY <1>1, <1>12, GenCaseBuilds
<1>13. CASE GenSwitchEnd
  BY <1>1, <1>13, GenSwitchEndBuilds
<1>14. CASE GenFunction
  BY <1>1, <1>14, GenFunctionBuilds
<1>15. CASE EndFunctionBody
  BY <1>1, <1>15, EndFunctionBodyBuilds
<1>16. CASE FunctionDone
  BY <1>1, <1>16, FunctionDoneBuilds
<1>17. CASE EnterScope
  BY <1>1, <1>17, EnterScopeBuilds
<1>18. CASE EndScope
  BY <1>1, <1>18, EndScopeBuilds
<1>19. CASE ResetScope
  BY <1>1, <1>19, ResetScopeBuilds
<1>20. CASE InjectDefer
  BY <1>1, <1>20, InjectDeferBuilds
<1>21. CASE EmitInstruction
  BY <1>1, <1>21, EmitInstructionBuilds
<1>22. CASE MoveBuilder
  BY <1>1, <1>22, MoveBuilderBuilds
<1>23. CASE UNCHANGED vars
  BY <1>1, <1>23, StandsStill
<1> QED
  BY <1>2, <1>3, <1>4, <1>5, <1>6, <1>7, <1>8, <1>9, <1>10, <1>11, <1>12, <1>13, <1>14,
     <1>15, <1>16, <1>17, <1>18, <1>19, <1>20, <1>21, <1>22, <1>23 DEF Next

THEOREM AlwaysBuilt == Spec => []Built
<1>1. Init => Built
  BY InitBuilds DEF Built
<1>2. Built /\ [Next]_vars => Built'
  BY NextBuilds
<1> QED
  BY <1>1, <1>2, PTL DEF Spec

(* The state of the generator is well formed: what it has still to do, the   *)
(* defer stack with its stale entries, and the blocks, each of a function    *)
(* that there is.                                                            *)
THEOREM StateWellFormed == Spec => []TypeOK
<1>1. Built => TypeOK
  <2> SUFFICES ASSUME NEW p, Building(p)
               PROVE  TypeOK
    BY DEF Built
  <2>1. blocks \in Seq([owner : DOMAIN functions, code : Seq(Instruction)])
    <3>1. DOMAIN functions = 1 .. Len(functions)
      BY DEF Building, Generation
    <3> QED
      BY <3>1 DEF Building, Generation, GoodBlocks, Block
  <2> QED
    BY <2>1 DEF TypeOK, Building, Standing, Deferred, Generation, Locals
<1> QED
  BY <1>1, AlwaysBuilt, PTL

(* Whatever functions are generated in the middle of others, every branch    *)
(* leads to a block of the function it is in, and when all is generated the  *)
(* builder has left all functions.                                           *)
THEOREM BranchesStayInFunctions == Spec => []BranchesStay
<1>1. Built => BranchesStay
  <2> SUFFICES ASSUME NEW p, Building(p)
               PROVE  BranchesStay
    BY DEF Built
  <2>1. GoodBlocks(blocks, Len(functions)) /\ block \in 0 .. Len(blocks)
    BY DEF Building, Generation
  <2>2. DOMAIN blocks = 1 .. Len(blocks)
    BY <2>1 DEF GoodBlocks
  <2>3. ASSUME NEW b \in DOMAIN blocks, NEW i \in DOMAIN blocks[b].code,
               NEW t \in DOMAIN blocks[b].code[i].targets
        PROVE  LET targets == blocks[b].code[i].targets
               IN targets[t] \in DOMAIN blocks /\ blocks[targets[t]].owner = blocks[b].owner
    BY <2>1, <2>2 DEF GoodBlocks, Stays, AllOwned, Owned
  <2>4. ASSUME todo = <<>>
        PROVE  block = 0
    <3>1. Chain(blocks, Len(defer_stack), <<>>, p, End)
      BY <2>4 DEF Building, Standing
    <3>2. OwnerOf(blocks, block) = 0
      BY <3>1, ChainOver DEF Building, Standing, End
    <3>3. block # 0 => blocks[block].owner # 0
      <4> HAVE block # 0
      <4>1. blocks[block] \in Block(Len(functions))
        BY <2>1 DEF GoodBlocks
      <4> QED
        BY <4>1 DEF Block
    <3> QED
      BY <3>2, <3>3 DEF OwnerOf
  <2> QED
    BY <2>3, <2>4 DEF BranchesStay, Generated
<1> QED
  BY <1>1, AlwaysBuilt, PTL
-------------------------------------------------------------------------------
(* Scopes on the defer stack.  The mark of a level is where its scope begins *)
(* there; marks do not fall from one level to the next, and up to the level  *)
(* at which the present function began they are 0.  This fails if a function *)
(* is generated while statements are deferred, since the end of a function   *)
(* empties the whole stack.                                                  *)
Mark(s, boundary, k) == IF k = Len(s) THEN boundary ELSE s[k + 1].boundary

Rising(s, boundary) ==
  /\ \A k \in 1 .. Len(s) : s[k].len = Mark(s, boundary, k)
  /\ \A k \in 0 .. Len(s) : Mark(s, boundary, k) \in Nat
  /\ \A i, k \in 0 .. Len(s) : i <= k => Mark(s, boundary, i) <= Mark(s, boundary, k)

Nested(p) ==
  /\ defer_local_boundary <= defer_stack_len
  /\ Rising(saved, defer_local_boundary)
  /\ Mark(saved, defer_local_boundary, p.base) = 0

Emptied == todo = <<>> => defer_stack_len = 0

LEMMA NotEmptied ==
  ASSUME NEW r, Building(r)', r.owner # 0
  PROVE  Emptied'
<1>1. todo' # <<>>
  <2> SUFFICES ASSUME todo' = <<>> PROVE FALSE
    OBVIOUS
  <2>1. Chain(blocks', Len(defer_stack'), <<>>, r, End)
    BY DEF Building, Standing
  <2> QED
    BY <2>1, ChainOver DEF End
<1> QED
  BY <1>1 DEF Emptied

LEMMA NestingStays ==
  ASSUME NEW p, Nested(p), NEW r, r.base = p.base, UNCHANGED deferring
  PROVE  Nested(r)'
BY DEF Nested, Rising, Mark, deferring

Entered(s, n, b) == Append(s, [len |-> n, boundary |-> b])
LEMMA RisingEntered ==
  ASSUME NEW s \in Seq(Locals), NEW b \in Nat, NEW n \in Nat, b <= n, Rising(s, b)
  PROVE  /\ Rising(Entered(s, n, b), n)
         /\ \A k \in 0 .. Len(s) : Mark(Entered(s, n, b), n, k) = Mark(s, b, k)
<1> DEFINE new == [len |-> n, boundary |-> b]
           t == Entered(s, n, b)
<1>1. PICK l \in Nat : l = Len(s)
  OBVIOUS
<1>2. new \in Locals
  BY DEF Locals
<1>3. new.len = n /\ new.boundary = b
  OBVIOUS
<1>4. t = Append(s, new)
  BY DEF Entered
<1> HIDE DEF new, t
<1>5. /\ Len(t) = l + 1 /\ t[l + 1] = new
      /\ \A k \in 1 .. l : t[k] = s[k]
  BY <1>1, <1>2, <1>4, AppendProperties
<1>6. ASSUME NEW k \in 0 .. l  PROVE Mark(t, n, k) = Mark(s, b, k)
  <2>1. k # Len(t)
    BY <1>5
  <2>2. CASE k = l
    BY <1>1, <1>3, <1>5, <2>1, <2>2 DEF Mark
  <2>3. CASE k # l
    <3>1. k + 1 \in 1 .. l
      BY <2>3
    <3> QED
      BY <1>1, <1>5, <2>1, <2>3, <3>1 DEF Mark
  <2> QED
    BY <2>2, <2>3
<1>7. Mark(t, n, l + 1) = n
  BY <1>5 DEF Mark
<1>8. /\ \A k \in 1 .. l : s[k].len = Mark(s, b, k)
      /\ \A k \in 0 .. l : Mark(s, b, k) \in Nat
      /\ \A i, k \in 0 .. l : i <= k => Mark(s, b, i) <= Mark(s, b, k)
      /\ Mark(s, b, l) = b
  BY <1>1 DEF Rising, Mark
<1>9. \A k \in 0 .. l + 1 : k \in 0 .. l \/ k = l + 1
  OBVIOUS
<1>10. ASSUME NEW k \in 1 .. l + 1  PROVE t[k].len = Mark(t, n, k)
  <2>1. CASE k \in 1 .. l
    BY <1>5, <1>6, <1>8, <2>1
  <2>2. CASE k = l + 1
    BY <1>3, <1>5, <1>7, <2>2
  <2>3. k \in 1 .. l \/ k = l + 1
    OBVIOUS
  <2> QED
    BY <2>1, <2>2, <2>3
<1>11. ASSUME NEW k \in 0 .. l + 1  PROVE Mark(t, n, k) \in Nat
  BY <1>6, <1>7, <1>8, <1>9
<1>12. ASSUME NEW i \in 0 .. l + 1, NEW k \in 0 .. l + 1, i <= k
       PROVE  Mark(t, n, i) <= Mark(t, n, k)
  <2>1. CASE k \in 0 .. l
    <3>1. i \in 0 .. l
      BY <1>12, <2>1
    <3> QED
      BY <1>6, <1>8, <1>12, <2>1, <3>1
  <2>2. CASE k = l + 1 /\ i \in 0 .. l
    <3>1. Mark(s, b, i) <= b /\ Mark(s, b, i) \in Nat
      BY <1>8, <2>2
    <3> QED
      BY <1>6, <1>7, <2>2, <3>1
  <2>3. CASE k = l + 1 /\ i = l + 1
    BY <1>7, <2>3
  <2> QED
    BY <1>9, <2>1, <2>2, <2>3
<1> QED
  BY <1>1, <1>5, <1>6, <1>10, <1>11, <1>12 DEF Rising, t

LEMMA RisingReset ==
  ASSUME NEW s \in Seq(Locals), NEW l \in Nat, Len(s) = l + 1, NEW b \in Nat, Rising(s, b)
  PROVE  /\ Rising(SubSeq(s, 1, l), s[l + 1].boundary)
         /\ s[l + 1].boundary <= s[l + 1].len
         /\ \A k \in 0 .. l : Mark(SubSeq(s, 1, l), s[l + 1].boundary, k) = Mark(s, b, k)
<1>1. PICK t : t = SubSeq(s, 1, l)
  OBVIOUS
<1>2. PICK c : c = s[l + 1].boundary
  OBVIOUS
<1>3. /\ Len(t) = l
      /\ \A k \in 1 .. l : t[k] = s[k]
  <2>1. \A k \in 1 .. l : k \in 1 .. Len(s)
    OBVIOUS
  <2> QED
    BY <1>1, <2>1, FrontOf
<1>4. ASSUME NEW k \in 0 .. l  PROVE Mark(t, c, k) = Mark(s, b, k)
  <2>1. k # Len(s)
    OBVIOUS
  <2>2. CASE k = l
    BY <1>2, <1>3, <2>1, <2>2 DEF Mark
  <2>3. CASE k # l
    <3>1. k + 1 \in 1 .. l
      BY <2>3
    <3> QED
      BY <1>3, <2>1, <2>3, <3>1 DEF Mark
  <2> QED
    BY <2>2, <2>3
<1>5. /\ \A k \in 1 .. l + 1 : s[k].len = Mark(s, b, k)
      /\ \A k \in 0 .. l + 1 : Mark(s, b, k) \in Nat
      /\ \A i, k \in 0 .. l + 1 : i <= k => Mark(s, b, i) <= Mark(s, b, k)
  BY DEF Rising
<1>6. \A k \in 0 .. l : k \in 0 .. l + 1
  OBVIOUS
<1>7. Rising(t, c)
  BY <1>3, <1>4, <1>5, <1>6 DEF Rising
<1>8. c <= s[l + 1].len
  <2>1. Mark(s, b, l) = c
    BY <1>2 DEF Mark
  <2>2. l \in 0 .. l + 1 /\ l + 1 \in 0 .. l + 1 /\ l <= l + 1 /\ l + 1 \in 1 .. l + 1
    OBVIOUS
  <2> QED
    BY <1>5, <2>1, <2>2
<1> QED
  BY <1>1, <1>2, <1>4, <1>7, <1>8

LEMMA EnterScopeNests ==
  ASSUME NEW p, Building(p), Nested(p), EnterScope, NEW r, r.base = p.base
  PROVE  Nested(r)'
<1>1. /\ saved \in Seq(Locals) /\ defer_local_boundary \in Nat /\ defer_stack_len \in Nat
      /\ p.base \in 0 .. Len(saved)
  BY DEF Building, Standing, Deferred, Point
<1>2. /\ saved' = Append(saved, [len |-> defer_stack_len, boundary |-> defer_local_boundary])
      /\ defer_local_boundary' = defer_stack_len /\ defer_stack_len' = defer_stack_len
  BY DEF EnterScope
<1>3. /\ Rising(saved, defer_local_boundary) /\ defer_local_boundary <= defer_stack_len
      /\ Mark(saved, defer_local_boundary, p.base) = 0
  BY DEF Nested
<1>4. /\ Rising(Entered(saved, defer_stack_len, defer_local_boundary), defer_stack_len)
      /\ Mark(Entered(saved, defer_stack_len, defer_local_boundary), defer_stack_len, p.base) = 0
  BY <1>1, <1>3, RisingEntered
<1>5. saved' = Entered(saved, defer_stack_len, defer_local_boundary)
  BY <1>2 DEF Entered
<1>6. Rising(saved', defer_local_boundary') /\ Mark(saved', defer_local_boundary', r.base) = 0
  BY <1>2, <1>4, <1>5
<1>7. defer_local_boundary' <= defer_stack_len'
  BY <1>1, <1>2
<1> QED
  BY <1>6, <1>7 DEF Nested

LEMMA ResetScopeNests ==
  ASSUME NEW p, Building(p), Nested(p), ResetScope, NEW r, Building(r)', r.base = p.base
  PROVE  Nested(r)'
<1>1. saved \in Seq(Locals) /\ defer_local_boundary \in Nat
  BY DEF Building, Standing, Deferred
<1>2. /\ defer_stack_len' = saved[Len(saved)].len
      /\ defer_local_boundary' = saved[Len(saved)].boundary
      /\ saved' = SubSeq(saved, 1, Len(saved) - 1)
  BY DEF ResetScope
<1>3. PICK q \in Point : Fits(blocks, Len(defer_stack), Head(todo), p, q)
  BY HeadStep DEF ResetScope, At
<1>4. p = Deeper(q) /\ p.level = Len(saved)
  BY <1>3 DEF Fits, ResetScope, At, Building, Standing
<1>5. PICK l : l = q.level
  OBVIOUS
<1>6. l \in Nat /\ Len(saved) = l + 1 /\ p.base \in 0 .. l
  BY <1>3, <1>4, <1>5, DeeperPoint DEF Point
<1>7. /\ Rising(saved, defer_local_boundary)
      /\ Mark(saved, defer_local_boundary, p.base) = 0
  BY DEF Nested
<1>8. PICK t, c : t = SubSeq(saved, 1, l) /\ c = saved[l + 1].boundary
  OBVIOUS
<1>9. Rising(t, c) /\ c <= saved[l + 1].len /\ Mark(t, c, p.base) = 0
  BY <1>1, <1>6, <1>7, <1>8, RisingReset
<1>10. saved' = t /\ defer_local_boundary' = c /\ defer_stack_len' = saved[l + 1].len
  <2>1. Len(saved) - 1 = l
    BY <1>6
  <2> QED
    BY <1>2, <1>6, <1>8, <2>1
<1> QED
  BY <1>9, <1>10 DEF Nested

LEMMA GenDeferNests ==
  ASSUME NEW p, Building(p), Nested(p), GenDefer, NEW r, r.base = p.base
  PROVE  Nested(r)'
<1>1. defer_local_boundary \in Nat /\ defer_stack_len \in Nat
  BY DEF Building, Deferred
<1>2. /\ defer_stack_len' = defer_stack_len + 1
      /\ UNCHANGED <<saved, defer_local_boundary>>
  BY DEF GenDefer
<1> QED
  BY <1>1, <1>2 DEF Nested, Rising, Mark

(* Functions are generated only while nothing is deferred.                   *)
FunctionsApart == GenFunction => defer_stack_len = 0

LEMMA GenFunctionNests ==
  ASSUME NEW p, Building(p), Nested(p), GenFunction, FunctionsApart,
         NEW r, r.base = p.level
  PROVE  Nested(r)'
<1>1. defer_local_boundary \in Nat /\ defer_stack_len = 0 /\ p.level = Len(saved)
  BY DEF Building, Standing, Deferred, FunctionsApart
<1>2. UNCHANGED deferring
  BY DEF GenFunction
<1>3. defer_local_boundary = 0
  BY <1>1 DEF Nested
<1>4. Mark(saved, defer_local_boundary, r.base) = 0
  BY <1>1, <1>3 DEF Mark
<1> QED
  BY <1>2, <1>4 DEF Nested, Rising, Mark, deferring

LEMMA FunctionDoneNests ==
  ASSUME NEW p, Building(p), Nested(p), FunctionDone, p.level = p.base,
         NEW r, Building(r)', r.level = p.base
  PROVE  Nested(r)' /\ Emptied'
<1>1. p.level = Len(saved) /\ Len(saved) \in Nat /\ r.base \in 0 .. Len(saved)
  BY Lengths DEF Building, Standing, Point
<1>2. defer_stack_len' = 0 /\ UNCHANGED <<saved, defer_local_boundary>>
  BY DEF FunctionDone
<1>3. Mark(saved, defer_local_boundary, Len(saved)) = 0
  BY <1>1 DEF Nested
<1>4. defer_local_boundary = 0
  BY <1>3 DEF Mark
<1>5. Mark(saved, defer_local_boundary, r.base) = 0
  <2>1. \A i, k \in 0 .. Len(saved) :
          i <= k => Mark(saved, defer_local_boundary, i) <= Mark(saved, defer_local_boundary, k)
    BY DEF Nested, Rising
  <2>2. Mark(saved, defer_local_boundary, r.base) \in Nat
    BY <1>1 DEF Nested, Rising
  <2>3. Len(saved) \in 0 .. Len(saved) /\ r.base <= Len(saved)
    BY <1>1
  <2>4. Mark(saved, defer_local_boundary, r.base) <= 0
    BY <1>1, <1>3, <2>1, <2>3
  <2> QED
    BY <2>2, <2>4
<1> QED
  BY <1>2, <1>4, <1>5 DEF Nested, Rising, Mark, Emptied

Nesting == \E p : Building(p) /\ Nested(p) /\ Emptied

LEMMA InitNests ==
  ASSUME Init
  PROVE  Nesting
<1>1. Building(End)
  BY InitBuilds
<1>2. saved = <<>> /\ defer_stack_len = 0 /\ defer_local_boundary = 0 /\ End.base = 0
  BY DEF Init, End
<1>3. Rising(<<>>, 0)
  BY DEF Rising, Mark
<1>4. Mark(<<>>, 0, 0) = 0
  BY DEF Mark
<1>5. Nested(End) /\ Emptied
  BY <1>2, <1>3, <1>4 DEF Nested, Emptied
<1> QED
  BY <1>1, <1>5 DEF Nesting

LEMMA NextNests ==
  ASSUME Nesting, [Next]_vars, [FunctionsApart]_vars
  PROVE  Nesting'
<1>1. PICK p : Building(p) /\ Nested(p) /\ Emptied
  BY DEF Nesting
<1>2. CASE UNCHANGED vars
  <2>1. Building(p)'
    BY <1>1, <1>2, StandsStill
  <2>2. UNCHANGED deferring /\ todo' = todo
    BY <1>2 DEF vars, deferring
  <2>3. Nested(p)' /\ Emptied'
    BY <1>1, <2>2, NestingStays DEF Emptied, deferring
  <2> QED
    BY <2>1, <2>3 DEF Nesting
<1>3. CASE Next /\ FunctionsApart
  <2>1. ASSUME \/ GenExpression \/ GenNothing \/ GenReturn \/ GenBlock \/ GenIf \/ GenLoop
               \/ GenRangeLoop \/ GenSwitch \/ GenCase \/ GenSwitchEnd \/ EndFunctionBody
               \/ EndScope \/ InjectDefer \/ EmitInstruction \/ MoveBuilder
        PROVE  Nesting'
    <3>1. UNCHANGED deferring
      BY <2>1 DEF GenExpression, GenNothing, GenReturn, GenBlock, GenIf, GenLoop,
         GenRangeLoop, GenSwitch, GenCase, GenSwitchEnd, EndFunctionBody, EndScope,
         InjectDefer, EmitInstruction, MoveBuilder
    <3>2. PICK r : Building(r)' /\ r.base = p.base /\ r.owner # 0
      BY <1>1, <2>1, GenExpressionBuilds, GenNothingBuilds, GenReturnBuilds, GenBlockBuilds,
         GenIfBuilds, GenLoopBuilds, GenRangeLoopBuilds, GenSwitchBuilds, GenCaseBuilds,
         GenSwitchEndBuilds, EndFunctionBodyBuilds, EndScopeBuilds, InjectDeferBuilds,
         EmitInstructionBuilds, MoveBuilderBuilds
    <3> QED
      BY <1>1, <3>1, <3>2, NestingStays, NotEmptied DEF Nesting
  <2>2. CASE GenDefer
    <3>1. PICK r : Building(r)' /\ r.base = p.base /\ r.owner # 0
      BY <1>1, <2>2, GenDeferBuilds
    <3> QED
      BY <1>1, <2>2, <3>1, GenDeferNests, NotEmptied DEF Nesting
  <2>3. CASE GenFunction
    <3>1. PICK r : Building(r)' /\ r.base = p.level /\ r.owner # 0
      BY <1>1, <2>3, GenFunctionBuilds
    <3> QED
      BY <1>1, <1>3, <2>3, <3>1, GenFunctionNests, NotEmptied DEF Nesting
  <2>4. CASE FunctionDone
    <3>1. PICK r : Building(r)' /\ r.level = p.base /\ p.level = p.base
      BY <1>1, <2>4, FunctionDoneBuilds
    <3> QED
      BY <1>1, <2>4, <3>1, FunctionDoneNests DEF Nesting
  <2>5. CASE EnterScope
    <3>1. PICK r : Building(r)' /\ r.base = p.base /\ r.owner # 0
      BY <1>1, <2>5, EnterScopeBuilds
    <3> QED
      BY <1>1, <2>5, <3>1, EnterScopeNests, NotEmptied DEF Nesting
  <2>6. CASE ResetScope
    <3>1. PICK r : Building(r)' /\ r.base = p.base /\ r.owner # 0
      BY <1>1, <2>6, ResetScopeBuilds
    <3> QED
      BY <1>1, <2>6, <3>1, ResetScopeNests, NotEmptied DEF Nesting
  <2> QED
    BY <1>3, <2>1, <2>2, <2>3, <2>4, <2>5, <2>6 DEF Next
<1> QED
  BY <1>2, <1>3

(* Scopes nest on the defer stack, and nothing is left deferred in the end,  *)
(* as long as no function is generated while statements are deferred.  The   *)
(* condition is needed: the end of a function empties the defer stack of     *)
(* the functions around it, so that a scope of theirs that the function      *)
(* stands in would begin beyond the end of the stack.                        *)
THEOREM ScopesNestIfFunctionsApart == Spec /\ [][FunctionsApart]_vars => []ScopesNest
<1>1. Init => Nesting
  BY InitNests
<1>2. Nesting /\ [Next]_vars /\ [FunctionsApart]_vars => Nesting'
  BY NextNests
<1>3. Nesting => ScopesNest
  <2> SUFFICES ASSUME NEW p, Building(p), Nested(p), Emptied
               PROVE  ScopesNest
    BY DEF Nesting
  <2>1. /\ saved \in Seq(Locals) /\ p.level = Len(saved) /\ p \in Point
        /\ defer_stack_len <= Len(defer_stack)
    BY DEF Building, Standing, Deferred
  <2>2. defer_local_boundary <= defer_stack_len
    BY DEF Nested
  <2>3. ASSUME NEW k \in DOMAIN saved
        PROVE  saved[k].len = IF k = Len(saved) THEN defer_local_boundary
                              ELSE saved[k + 1].boundary
    <3>1. k \in 1 .. Len(saved)
      BY <2>1
    <3> QED
      BY <3>1 DEF Nested, Rising, Mark
  <2>4. ASSUME todo = <<>>
        PROVE  saved = <<>> /\ defer_stack_len = 0 /\ defer_local_boundary = 0
    <3>1. Chain(blocks, Len(defer_stack), <<>>, p, End)
      BY <2>4 DEF Building, Standing
    <3>2. p.level = 0 /\ p.base = 0
      BY <3>1, ChainOver DEF End
    <3>3. saved = <<>>
      BY <2>1, <3>2, EmptySeq
    <3>4. defer_local_boundary = 0
      BY <2>1, <3>2 DEF Nested, Mark
    <3> QED
      BY <2>4, <3>3, <3>4 DEF Emptied
  <2> QED
    BY <2>1, <2>2, <2>3, <2>4 DEF ScopesNest, Generated
<1> QED
  BY <1>1, <1>2, <1>3, PTL DEF Spec
===============================================================================
