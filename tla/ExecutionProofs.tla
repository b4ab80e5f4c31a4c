--------------------------- MODULE ExecutionProofs ---------------------------
(*****************************************************************************)
(* That the blocks of a tidy program have one terminator each, at their end, *)
(* and that a function which runs them does not leave them, for any program. *)
(*                                                                           *)
(* A block without its terminator is the one the builder is in, or there is  *)
(* just one item of todo that will take the builder to it.                   *)
(*****************************************************************************)
EXTENDS Execution, UIRGenProofs

(* The builder is in an open block, in one that has returned, or away: in a  *)
(* block that nothing is added to until the builder is moved to it.          *)
States == {"open", "returned", "away"}

(* How an item leaves the builder, and in which states it may be met.        *)
After(x) ==
  CASE x.op = "gen" -> IF x.stmt.kind = "return" THEN "returned" ELSE "open"
    [] x.op = "emit" -> IF x.instruction.op = "return" THEN "returned" ELSE "away"
    [] x.op \in {"leave", "reset"} -> "away"
    [] x.op \in {"endfunction", "leavefunction"} -> IF x.prev = 0 THEN "away" ELSE "open"
    [] OTHER -> "open"
Before(x) ==
  CASE x.op \in {"gen", "inject", "emit", "case"} -> {"open"}
    [] x.op = "leave" -> IF x.always THEN {"open"} ELSE {"open", "returned"}
    [] x.op = "endfunction" -> {"open", "returned"}
    [] OTHER -> {"away", "returned"}
Follows(x, y) ==
  After(x) \in Before(y) /\ (y.op = "case" => x.op = "move" /\ x.to = y.parent)
Linked(s) == \A i \in 1 .. Len(s) - 1 : Follows(s[i], s[i + 1])

(* The block that the item opens; 0 is none.                                 *)
Opens(x) ==
  CASE x.op \in {"enter", "move"} -> x.to
    [] x.op = "case" -> x.merge
    [] x.op \in {"endfunction", "leavefunction"} -> x.prev
    [] OTHER -> 0
Apart(s) ==
  \A i, j \in 1 .. Len(s) : Opens(s[i]) = Opens(s[j]) /\ Opens(s[i]) # 0 => i = j
Awaited(s) == {Opens(s[i]) : i \in 1 .. Len(s)} \ {0}

(* Tidy statements are generated, and terminators emitted.                   *)
Neat(stmt) == stmt.kind = "function" \/ Tidy[stmt]
Proper(x) ==
  /\ x.op = "gen" => Neat(x.stmt)
  /\ x.op = "case" => Tidy[x.stmt] /\ x.merge # 0
  /\ x.op \in {"enter", "move"} => x.to # 0
  /\ x.op = "emit" => x.instruction.op \in Terminators
NeatStack(stack) ==
  \A i \in 1 .. Len(stack) : Neat(stack[i]) /\ stack[i].kind # "return"

Open(code) == \A i \in DOMAIN code : code[i].op \notin Terminators

Chained(s) ==
  /\ s \in Seq(Item) /\ Linked(s) /\ Apart(s)
  /\ \A i \in 1 .. Len(s) : Proper(s[i])
Ends(s) == s # <<>> => After(s[Len(s)]) = "away"

(* The builder in state st, in block b of bs, with the items s to come: the  *)
(* blocks that will be added to are open, and all others have terminators.   *)
Meets(st, b, s) ==
  /\ st \in States
  /\ st = "open" => b \notin Awaited(s)
  /\ IF s = <<>> THEN st = "away"
     ELSE st \in Before(s[1]) /\ (s[1].op = "case" => b = s[1].parent)
Live(st, b, s) == Awaited(s) \cup (IF st = "open" THEN {b} ELSE {})
Sorted(bs, live) ==
  /\ live \subseteq 1 .. Len(bs)
  /\ \A c \in 1 .. Len(bs) : IF c \in live THEN Open(bs[c].code) ELSE Terminated(bs[c].code)

Coding(st) ==
  /\ Chained(todo) /\ Ends(todo) /\ NeatStack(defer_stack)
  /\ Meets(st, block, todo) /\ Sorted(blocks, Live(st, block, todo))
  /\ st = "returned" => block # 0 /\ HasTerminator(block)

Begins ==
  /\ \E s \in Stmt : s.kind = "function" /\ todo = <<Gen(s)>>
  /\ blocks = <<>> /\ functions = <<>> /\ block = 0 /\ defer_stack = <<>>

Completed == Begins \/ (AllTidy => \E st \in States : Coding(st))
-------------------------------------------------------------------------------
(* The recursion in Tidy has a solution: the greatest set of statements that *)
(* are as they should be and have only statements of the set.                *)
TidyPart(s, i, k) ==
  s.parts[k][i].kind = "return" =>
    i = Len(s.parts[k]) /\ s.kind \notin {"block", "defer"}
LEMMA PartsOf ==
  ASSUME NEW s \in Stmt, NEW k \in DOMAIN s.parts, NEW i \in DOMAIN s.parts[k]
  PROVE  s.parts[k][i] \in Stmt
<1>1. s.parts \in Seq(Statements)
  BY StmtAssumption
<1>2. s.parts[k] \in Seq(Stmt)
  BY <1>1 DEF Statements
<1> QED
  BY <1>2

LEMMA TidyUnfolds ==
  ASSUME NEW s \in Stmt
  PROVE  Tidy[s] <=> \A k \in DOMAIN s.parts : \A i \in DOMAIN s.parts[k] :
                       TidyPart(s, i, k) /\ Tidy[s.parts[k][i]]
<1> DEFINE Right(f, t) ==
             \A k \in DOMAIN t.parts : \A i \in DOMAIN t.parts[k] :
               /\ t.parts[k][i].kind = "return" =>
                    i = Len(t.parts[k]) /\ t.kind \notin {"block", "defer"}
               /\ f[t.parts[k][i]]
           Solves(f) == f = [t \in Stmt |-> Right(f, t)]
           Good(T) == \A t \in T : \A k \in DOMAIN t.parts : \A i \in DOMAIN t.parts[k] :
                        TidyPart(t, i, k) /\ t.parts[k][i] \in T
           G == UNION {T \in SUBSET Stmt : Good(T)}
           g == [t \in Stmt |-> t \in G]
<1>1. \A t \in G : t \in Stmt
  OBVIOUS
<1>2. Good(G)
  <2> SUFFICES ASSUME NEW t \in G, NEW k \in DOMAIN t.parts, NEW i \in DOMAIN t.parts[k]
               PROVE  TidyPart(t, i, k) /\ t.parts[k][i] \in G
    OBVIOUS
  <2>1. PICK T \in SUBSET Stmt : Good(T) /\ t \in T
    OBVIOUS
  <2> QED
    BY <2>1
<1>3. ASSUME NEW t \in Stmt,
             \A k \in DOMAIN t.parts : \A i \in DOMAIN t.parts[k] :
               TidyPart(t, i, k) /\ t.parts[k][i] \in G
      PROVE  t \in G
  <2>1. Good(G \cup {t})
    BY <1>2, <1>3
  <2>2. G \cup {t} \in SUBSET Stmt
    BY <1>1
  <2> QED
    BY <2>1, <2>2
<1> HIDE DEF G, Good
<1>4. ASSUME NEW t \in Stmt
      PROVE  g[t] <=> Right(g, t)
  <2>1. \A k \in DOMAIN t.parts : \A i \in DOMAIN t.parts[k] :
          t.parts[k][i] \in Stmt
    BY PartsOf
  <2>2. g[t] <=> \A k \in DOMAIN t.parts : \A i \in DOMAIN t.parts[k] :
                   TidyPart(t, i, k) /\ t.parts[k][i] \in G
    BY <1>2, <1>3 DEF Good
  <2> QED
    BY <2>1, <2>2, Zenon DEF TidyPart
<1>5. Solves(g)
  <2> DEFINE h == [t \in Stmt |-> Right(g, t)]
  <2>1. ASSUME NEW t \in Stmt
        PROVE  g[t] = h[t]
    <3>1. g[t] = (t \in G) /\ h[t] = Right(g, t)
      BY Zenon
    <3>2. g[t] <=> Right(g, t)
      BY <1>4
    <3> HIDE DEF g, h
    <3>3. g[t] \in BOOLEAN /\ h[t] \in BOOLEAN
      BY <3>1
    <3> QED
      BY <3>1, <3>2, <3>3, Zenon
  <2>2. g = [t \in Stmt |-> g[t]] /\ h = [t \in Stmt |-> h[t]]
    BY Zenon
  <2>3. g = h
    <3> HIDE DEF g, h
    <3> QED
      BY <2>1, <2>2
  <2> QED
    BY <2>3, Zenon
<1>6. Solves(Tidy)
  <2>1. Tidy = CHOOSE f : Solves(f)
    BY Zenon DEF Tidy
  <2> HIDE DEF Solves
  <2> QED
    BY <1>5, <2>1
<1>7. Tidy[s] = [t \in Stmt |-> Right(Tidy, t)][s]
  BY <1>6, Zenon
<1> QED
  BY <1>7, Zenon DEF TidyPart

(* The statements of a scope that may end with a return, or may not.         *)
Listed(list, returns) ==
  \A i \in 1 .. Len(list) :
    Neat(list[i]) /\ (list[i].kind = "return" => returns /\ i = Len(list))
LEMMA TidyParts ==
  ASSUME NEW s \in Stmt, Tidy[s], NEW k \in 1 .. Len(s.parts)
  PROVE  s.parts[k] \in Statements /\ Listed(s.parts[k], s.kind \notin {"block", "defer"})
<1>1. s.parts \in Seq(Statements) /\ DOMAIN s.parts = 1 .. Len(s.parts)
  BY StmtAssumption
<1>2. s.parts[k] \in Statements /\ DOMAIN s.parts[k] = 1 .. Len(s.parts[k])
  BY <1>1 DEF Statements
<1>3. \A i \in 1 .. Len(s.parts[k]) : TidyPart(s, i, k) /\ Tidy[s.parts[k][i]]
  BY <1>1, <1>2, TidyUnfolds, Zenon
<1> QED
  BY <1>2, <1>3, Zenon DEF Listed, Neat, TidyPart
-------------------------------------------------------------------------------
(* Pieces of todo: from x to y, with the blocks that they open.              *)
Piece(s, x, y, opened) ==
  /\ Chained(s) /\ s # <<>> /\ s[1] = x /\ s[Len(s)] = y /\ Awaited(s) = opened

LEMMA PieceOne ==
  ASSUME NEW x \in Item, Proper(x)
  PROVE  Piece(<<x>>, x, x, {Opens(x)} \ {0})
<1>1. <<x>> \in Seq(Item) /\ Len(<<x>>) = 1 /\ <<x>>[1] = x /\ <<x>> # <<>>
  OBVIOUS
<1>2. \A i \in 1 .. 1 : i = 1
  OBVIOUS
<1>3. 1 .. 1 - 1 = {}
  OBVIOUS
<1>4. Linked(<<x>>) /\ Apart(<<x>>)
  BY <1>1, <1>2, <1>3 DEF Linked, Apart
<1>5. Awaited(<<x>>) = {Opens(x)} \ {0}
  <2>1. {Opens(<<x>>[i]) : i \in 1 .. Len(<<x>>)} = {Opens(x)}
    BY <1>1, <1>2
  <2> QED
    BY <2>1 DEF Awaited
<1> QED
  BY <1>1, <1>2, <1>4, <1>5 DEF Piece, Chained

LEMMA Joined ==
  ASSUME NEW a, NEW b, Chained(a), Chained(b), a # <<>>,
         b # <<>> => Follows(a[Len(a)], b[1]),
         Awaited(a) \cap Awaited(b) = {}
  PROVE  /\ Chained(a \o b) /\ a \o b # <<>> /\ (a \o b)[1] = a[1]
         /\ Awaited(a \o b) = Awaited(a) \cup Awaited(b)
         /\ b # <<>> => (a \o b)[Len(a \o b)] = b[Len(b)]
<1>1. a \in Seq(Item) /\ b \in Seq(Item)
  BY DEF Chained
<1>2. PICK k \in Nat, m \in Nat : k = Len(a) /\ m = Len(b)
  BY <1>1
<1>3. PICK s : s = a \o b
  OBVIOUS
<1>4. /\ s \in Seq(Item) /\ Len(s) = k + m /\ k # 0
      /\ \A i \in 1 .. k : s[i] = a[i]
      /\ \A i \in k + 1 .. k + m : s[i] = b[i - k] /\ i - k \in 1 .. m
  <2>1. s \in Seq(Item) /\ Len(s) = k + m /\ k # 0
    BY <1>1, <1>2, <1>3
  <2>2. \A i \in 1 .. k : s[i] = a[i]
    BY <1>1, <1>2, <1>3
  <2>3. ASSUME NEW i \in k + 1 .. k + m
        PROVE  s[i] = b[i - k] /\ i - k \in 1 .. m
    BY <1>1, <1>2, <1>3
  <2> QED
    BY <2>1, <2>2, <2>3
<1>5. \A i \in 1 .. k + m : i \in 1 .. k \/ i \in k + 1 .. k + m
  OBVIOUS
<1>6. \A j \in 1 .. m : j + k \in k + 1 .. k + m /\ s[j + k] = b[j]
  <2> TAKE j \in 1 .. m
  <2>1. j + k \in k + 1 .. k + m /\ j + k - k = j
    OBVIOUS
  <2> QED
    BY <1>4, <2>1
<1>7. Linked(s)
  <2> SUFFICES ASSUME NEW i \in 1 .. k + m - 1
               PROVE  Follows(s[i], s[i + 1])
    BY <1>4 DEF Linked
  <2>1. CASE i < k
    <3>1. i \in 1 .. k - 1 /\ s[i] = a[i] /\ s[i + 1] = a[i + 1]
      BY <1>4, <2>1
    <3> QED
      BY <1>2, <3>1 DEF Chained, Linked
  <2>2. CASE i = k
    <3>1. s[i] = a[k]
      BY <1>4, <2>2
    <3>2. 1 \in 1 .. m /\ i + 1 = 1 + k
      BY <2>2
    <3>3. s[i + 1] = b[1] /\ b # <<>>
      BY <1>1, <1>2, <1>6, <3>2
    <3> QED
      BY <1>2, <3>1, <3>3
  <2>3. CASE i > k
    <3>1. PICK j \in 1 .. m - 1 : i = j + k
      <4>1. i - k \in 1 .. m - 1 /\ i = (i - k) + k
        BY <2>3
      <4> QED
        BY <4>1
    <3>2. j \in 1 .. m /\ j + 1 \in 1 .. m /\ i + 1 = (j + 1) + k
      BY <3>1
    <3>3. s[i] = b[j] /\ s[i + 1] = b[j + 1]
      BY <1>6, <3>1, <3>2
    <3> QED
      BY <1>2, <3>3 DEF Chained, Linked
  <2> QED
    BY <2>1, <2>2, <2>3
<1>8. Awaited(s) = Awaited(a) \cup Awaited(b)
  <2>1. \A i \in 1 .. k : Opens(s[i]) = Opens(a[i]) /\ i \in 1 .. k + m
    BY <1>4
  <2>2. \A i \in k + 1 .. k + m : \E j \in 1 .. m : Opens(s[i]) = Opens(b[j])
    BY <1>4
  <2>3. \A j \in 1 .. m : \E i \in 1 .. k + m : Opens(s[i]) = Opens(b[j])
    <3> TAKE j \in 1 .. m
    <3>1. j + k \in 1 .. k + m
      OBVIOUS
    <3> QED
      BY <1>6, <3>1
  <2> HIDE DEF Opens
  <2> QED
    BY <1>2, <1>4, <1>5, <2>1, <2>2, <2>3, SMTT(30) DEF Awaited
<1>9. Apart(s)
  <2> SUFFICES ASSUME NEW i \in 1 .. k + m, NEW j \in 1 .. k + m,
                      Opens(s[i]) = Opens(s[j]), Opens(s[i]) # 0
               PROVE  i = j
    BY <1>4 DEF Apart
  <2>1. \A l \in 1 .. k : Opens(s[l]) # 0 => Opens(s[l]) \in Awaited(a)
    BY <1>2, <1>4 DEF Awaited
  <2>2. \A l \in k + 1 .. k + m : Opens(s[l]) # 0 => Opens(s[l]) \in Awaited(b)
    BY <1>2, <1>4 DEF Awaited
  <2>3. CASE i \in 1 .. k /\ j \in 1 .. k
    <3>1. Opens(a[i]) = Opens(a[j]) /\ Opens(a[i]) # 0
      BY <1>4, <2>3
    <3> QED
      BY <1>2, <2>3, <3>1 DEF Chained, Apart
  <2>4. CASE i \in k + 1 .. k + m /\ j \in k + 1 .. k + m
    <3>1. Opens(b[i - k]) = Opens(b[j - k]) /\ Opens(b[i - k]) # 0
      BY <1>4, <2>4
    <3>2. i - k \in 1 .. m /\ j - k \in 1 .. m
      BY <2>4
    <3>3. i - k = j - k
      BY <1>2, <3>1, <3>2 DEF Chained, Apart
    <3> QED
      BY <3>3
  <2> QED
    BY <1>5, <2>1, <2>2, <2>3, <2>4
<1>10. \A i \in 1 .. Len(s) : Proper(s[i])
  <2>1. \A i \in 1 .. k : Proper(a[i])
    BY <1>2 DEF Chained
  <2>2. \A i \in 1 .. m : Proper(b[i])
    BY <1>2 DEF Chained
  <2> QED
    BY <1>4, <1>5, <2>1, <2>2
<1>11. s # <<>> /\ s[1] = a[1]
  <2>1. 1 \in 1 .. k
    BY <1>4
  <2> QED
    BY <1>4, <2>1
<1>12. b # <<>> => s[Len(s)] = b[Len(b)]
  <2> HAVE b # <<>>
  <2>1. m \in 1 .. m /\ Len(s) = m + k
    BY <1>1, <1>2, <1>4
  <2> QED
    BY <1>2, <1>6, <2>1
<1> QED
  BY <1>3, <1>4, <1>7, <1>8, <1>9, <1>10, <1>11, <1>12 DEF Chained

LEMMA PiecesJoined ==
  ASSUME NEW a, NEW x, NEW y, NEW A, Piece(a, x, y, A),
         NEW b, NEW u, NEW v, NEW B, Piece(b, u, v, B),
         Follows(y, u), A \cap B = {}
  PROVE  Piece(a \o b, x, v, A \cup B)
BY Joined DEF Piece
(* What is left when the first item is done.                                 *)
LEMMA Rest ==
  ASSUME NEW s, Chained(s), s # <<>>
  PROVE  /\ s[1] = Head(s) /\ Head(s) \in Item /\ Proper(Head(s))
         /\ Chained(Tail(s))
         /\ Ends(s) => Ends(Tail(s))
         /\ Ends(s) /\ Tail(s) = <<>> => After(Head(s)) = "away"
         /\ Tail(s) # <<>> => Follows(Head(s), Tail(s)[1])
         /\ Awaited(s) = ({Opens(Head(s))} \ {0}) \cup Awaited(Tail(s))
         /\ Opens(Head(s)) \notin Awaited(Tail(s))
<1>1. s \in Seq(Item)
  BY DEF Chained
<1>2. PICK k \in Nat : Len(s) = k + 1
  <2>1. Len(s) \in Nat \ {0}
    BY <1>1
  <2>2. Len(s) - 1 \in Nat /\ Len(s) = (Len(s) - 1) + 1
    BY <2>1
  <2> QED
    BY <2>2
<1>3. PICK r : r = Tail(s)
  OBVIOUS
<1>4. /\ r \in Seq(Item) /\ Len(r) = k /\ s[1] = Head(s)
      /\ \A i \in 1 .. k : r[i] = s[i + 1] /\ i + 1 \in 1 .. k + 1
      /\ 1 \in 1 .. k + 1
  BY <1>1, <1>2, <1>3
<1>5. \A i \in 1 .. k + 1 : i = 1 \/ \E j \in 1 .. k : i = j + 1
  <2> TAKE i \in 1 .. k + 1
  <2>1. i = 1 \/ (i - 1 \in 1 .. k /\ i = (i - 1) + 1)
    OBVIOUS
  <2> QED
    BY <2>1
<1>6. Linked(r)
  <2> SUFFICES ASSUME NEW i \in 1 .. k - 1
               PROVE  Follows(r[i], r[i + 1])
    BY <1>4 DEF Linked
  <2>1. i \in 1 .. k /\ i + 1 \in 1 .. k /\ i + 1 \in 1 .. k + 1 - 1
    OBVIOUS
  <2> QED
    BY <1>2, <1>4, <2>1 DEF Chained, Linked
<1>7. Apart(r)
  <2> SUFFICES ASSUME NEW i \in 1 .. k, NEW j \in 1 .. k,
                      Opens(r[i]) = Opens(r[j]), Opens(r[i]) # 0
               PROVE  i = j
    BY <1>4 DEF Apart
  <2>1. i + 1 = j + 1
    BY <1>2, <1>4 DEF Chained, Apart
  <2> QED
    BY <2>1
<1>8. Chained(r)
  BY <1>2, <1>4, <1>6, <1>7 DEF Chained
<1>9. Awaited(s) = ({Opens(s[1])} \ {0}) \cup Awaited(r)
  <2> HIDE DEF Opens
  <2>1. \A j \in 1 .. k : Opens(r[j]) = Opens(s[j + 1])
    BY <1>4
  <2> QED
    BY <1>2, <1>4, <1>5, <2>1 DEF Awaited
<1>10. Opens(s[1]) \notin Awaited(r)
  <2> SUFFICES ASSUME NEW j \in 1 .. k, Opens(s[1]) = Opens(r[j]), Opens(r[j]) # 0
               PROVE  FALSE
    BY <1>4 DEF Awaited
  <2>1. 1 = j + 1
    BY <1>2, <1>4 DEF Chained, Apart
  <2> QED
    BY <2>1
<1>11. r # <<>> => Follows(s[1], r[1])
  <2> HAVE r # <<>>
  <2>1. k # 0
    BY <1>4
  <2>2. 1 \in 1 .. k + 1 - 1 /\ 1 \in 1 .. k
    BY <2>1
  <2> QED
    BY <1>2, <1>4, <2>2 DEF Chained, Linked
<1>12. Ends(s) => Ends(r)
  <2> HAVE Ends(s)
  <2> SUFFICES ASSUME r # <<>>
               PROVE  After(r[k]) = "away"
    BY <1>4 DEF Ends
  <2>1. k \in 1 .. k
    BY <1>4
  <2>2. r[k] = s[k + 1]
    BY <1>4, <2>1
  <2> QED
    BY <1>2, <2>2 DEF Ends
<1>13. Ends(s) /\ r = <<>> => After(s[1]) = "away"
  <2> HAVE Ends(s) /\ r = <<>>
  <2>1. k = 0
    BY <1>4
  <2> QED
    BY <1>2, <2>1 DEF Ends
<1>14. s[1] \in Item /\ Proper(s[1])
  BY <1>1, <1>2, <1>4 DEF Chained
<1> QED
  BY <1>3, <1>4, <1>8, <1>9, <1>10, <1>11, <1>12, <1>13, <1>14

(* A piece in the place of the first item.                                   *)
LEMMA PieceInPlace ==
  ASSUME NEW s, Chained(s), Ends(s), s # <<>>, Head(s).op # "move",
         NEW items, NEW x, NEW y, NEW opened, Piece(items, x, y, opened),
         After(y) = After(Head(s)), opened \cap Awaited(Tail(s)) = {}
  PROVE  /\ Chained(items \o Tail(s)) /\ Ends(items \o Tail(s))
         /\ items \o Tail(s) # <<>> /\ (items \o Tail(s))[1] = x
         /\ Awaited(items \o Tail(s)) = opened \cup Awaited(Tail(s))
<1>1. PICK r : r = Tail(s)
  OBVIOUS
<1>2. /\ Chained(r) /\ Ends(r)
      /\ r = <<>> => After(Head(s)) = "away"
      /\ r # <<>> => Follows(Head(s), r[1])
  BY <1>1, Rest
<1>3. r # <<>> => Follows(y, r[1])
  <2> HAVE r # <<>>
  <2>1. Follows(Head(s), r[1])
    BY <1>2
  <2> HIDE DEF After, Before
  <2> QED
    BY <2>1 DEF Follows
<1>4. /\ Chained(items) /\ items # <<>> /\ items[1] = x /\ items[Len(items)] = y
      /\ Awaited(items) = opened
  BY DEF Piece
<1>5. PICK t : t = items \o r
  OBVIOUS
<1>6. /\ Chained(t) /\ t # <<>> /\ t[1] = x /\ Awaited(t) = opened \cup Awaited(r)
      /\ r # <<>> => t[Len(t)] = r[Len(r)]
  <2>1. Awaited(items) \cap Awaited(r) = {}
    BY <1>1, <1>4
  <2>2. r # <<>> => Follows(items[Len(items)], r[1])
    BY <1>3, <1>4
  <2> QED
    BY <1>2, <1>4, <1>5, <2>1, <2>2, Joined
<1>7. Ends(t)
  <2>1. CASE r # <<>>
    <3>1. After(r[Len(r)]) = "away"
      BY <1>2, <2>1 DEF Ends
    <3>2. After(t[Len(t)]) = "away"
      BY <1>6, <2>1, <3>1
    <3> QED
      BY <3>2 DEF Ends
  <2>2. CASE r = <<>>
    <3>1. items \in Seq(Item)
      BY <1>4 DEF Chained
    <3>2. t = items
      BY <1>5, <2>2, <3>1
    <3>3. After(t[Len(t)]) = "away"
      BY <1>2, <1>4, <2>2, <3>2
    <3> QED
      BY <3>3 DEF Ends
  <2> QED
    BY <2>1, <2>2
<1> QED
  BY <1>1, <1>5, <1>6, <1>7
-------------------------------------------------------------------------------
(* The items.                                                                *)
LEMMA GenFacts ==
  ASSUME NEW s \in Stmt, Neat(s)
  PROVE  /\ Gen(s) \in Item /\ Proper(Gen(s)) /\ Opens(Gen(s)) = 0
         /\ Before(Gen(s)) = {"open"} /\ Gen(s).op = "gen"
         /\ After(Gen(s)) = IF s.kind = "return" THEN "returned" ELSE "open"
BY GenItem DEF Gen, Proper, Opens, Before, After

LEMMA InjectFacts ==
  ASSUME NEW i \in Nat, NEW min \in Nat
  PROVE  /\ Inject(i, min) \in Item /\ Proper(Inject(i, min)) /\ Opens(Inject(i, min)) = 0
         /\ Before(Inject(i, min)) = {"open"} /\ Inject(i, min).op = "inject"
         /\ After(Inject(i, min)) = "open"
BY InjectItem DEF Inject, Proper, Opens, Before, After

LEMMA EmitFacts ==
  ASSUME NEW x \in Instruction, x.op \in Terminators
  PROVE  /\ Emit(x) \in Item /\ Proper(Emit(x)) /\ Opens(Emit(x)) = 0
         /\ Before(Emit(x)) = {"open"} /\ Emit(x).op = "emit"
         /\ After(Emit(x)) = IF x.op = "return" THEN "returned" ELSE "away"
<1>1. Emit(x) \in Item
  BY EmitItem
<1> HIDE DEF Item, Instruction, Terminators
<1> QED
  BY <1>1 DEF Emit, Proper, Opens, Before, After

LEMMA MoveFacts ==
  ASSUME NEW to \in Nat, to # 0
  PROVE  /\ Enter(to) \in Item /\ Proper(Enter(to)) /\ Opens(Enter(to)) = to
         /\ Before(Enter(to)) = {"away", "returned"} /\ Enter(to).op = "enter"
         /\ After(Enter(to)) = "open"
         /\ MoveTo(to) \in Item /\ Proper(MoveTo(to)) /\ Opens(MoveTo(to)) = to
         /\ Before(MoveTo(to)) = {"away", "returned"} /\ MoveTo(to).op = "move"
         /\ After(MoveTo(to)) = "open" /\ MoveTo(to).to = to
BY ScopeItems DEF Enter, MoveTo, Proper, Opens, Before, After

LEMMA LeaveFacts ==
  ASSUME NEW to \in Nat, NEW always \in BOOLEAN
  PROVE  /\ Leave(to, always) \in Item /\ Proper(Leave(to, always)) /\ Opens(Leave(to, always)) = 0
         /\ Before(Leave(to, always)) = IF always THEN {"open"} ELSE {"open", "returned"}
         /\ Leave(to, always).op = "leave" /\ After(Leave(to, always)) = "away"
<1>1. PICK x : x = Leave(to, always)
  BY Zenon
<1>2. x \in Item
  BY <1>1, LeaveItem, Zenon
<1>3. x.op = "leave" /\ x.always = always
  BY <1>1, Zenon DEF Leave
<1>4. Before(x) = IF always THEN {"open"} ELSE {"open", "returned"}
  <2>1. Before(x) = IF x.always THEN {"open"} ELSE {"open", "returned"}
    BY <1>3 DEF Before
  <2> QED
    BY <1>3, <2>1, Zenon
<1>5. Proper(x) /\ Opens(x) = 0 /\ After(x) = "away"
  BY <1>3 DEF Proper, Opens, After
<1> QED
  BY <1>1, <1>2, <1>3, <1>4, <1>5, Zenon

LEMMA ResetFacts ==
  /\ Reset \in Item /\ Proper(Reset) /\ Opens(Reset) = 0
  /\ Before(Reset) = {"away", "returned"} /\ Reset.op = "reset" /\ After(Reset) = "away"
BY DEF Item, Reset, Proper, Opens, Before, After

LEMMA CaseFacts ==
  ASSUME NEW x, x.op = "case"
  PROVE  /\ Opens(x) = x.merge /\ Before(x) = {"open"} /\ After(x) = "open"
         /\ Tidy[x.stmt] /\ x.merge # 0 => Proper(x)
BY DEF Proper, Opens, Before, After

LEMMA FunctionFacts ==
  ASSUME NEW prev \in Nat
  PROVE  /\ EndFunction(prev) \in Item /\ Proper(EndFunction(prev))
         /\ Opens(EndFunction(prev)) = prev /\ Before(EndFunction(prev)) = {"open", "returned"}
         /\ EndFunction(prev).op = "endfunction"
         /\ After(EndFunction(prev)) = IF prev = 0 THEN "away" ELSE "open"
         /\ LeaveFunction(prev) \in Item /\ Proper(LeaveFunction(prev))
         /\ Opens(LeaveFunction(prev)) = prev
         /\ Before(LeaveFunction(prev)) = {"away", "returned"}
         /\ LeaveFunction(prev).op = "leavefunction"
         /\ After(LeaveFunction(prev)) = IF prev = 0 THEN "away" ELSE "open"
BY FunctionItems DEF EndFunction, LeaveFunction, Proper, Opens, Before, After
-------------------------------------------------------------------------------
(* The statements of a list, and of a scope.                                 *)
LEMMA BodyItems ==
  ASSUME NEW list \in Statements
  PROVE  Body(list) \in Seq(Item)
<1>1. PICK k \in Nat : k = Len(list)
  BY DEF Statements
<1>2. DOMAIN list = 1 .. k /\ \A i \in 1 .. k : Gen(list[i]) \in Item
  BY <1>1, GenItem DEF Statements
<1> QED
  BY <1>2 DEF Body

LEMMA BodyPiece ==
  ASSUME NEW list \in Statements, list # <<>>, NEW returns \in BOOLEAN, Listed(list, returns)
  PROVE  \E x, y : /\ Piece(Body(list), x, y, {}) /\ x.op = "gen" /\ Before(x) = {"open"}
                   /\ After(y) = "open" \/ (returns /\ After(y) = "returned")
<1>1. PICK k \in Nat : k = Len(list)
  BY DEF Statements
<1>2. DOMAIN list = 1 .. k /\ k # 0 /\ \A i \in 1 .. k : list[i] \in Stmt
  BY <1>1 DEF Statements
<1>3. \A i \in 1 .. k : Neat(list[i]) /\ (list[i].kind = "return" => returns /\ i = k)
  BY <1>1 DEF Listed
<1>4. PICK s : s = Body(list)
  OBVIOUS
<1>5. \A i \in 1 .. k :
        /\ Gen(list[i]) \in Item /\ Proper(Gen(list[i])) /\ Opens(Gen(list[i])) = 0
        /\ Before(Gen(list[i])) = {"open"} /\ Gen(list[i]).op = "gen"
        /\ After(Gen(list[i])) = IF list[i].kind = "return" THEN "returned" ELSE "open"
  BY <1>2, <1>3, GenFacts
<1>6. s \in Seq(Item) /\ Len(s) = k /\ \A i \in 1 .. k : s[i] = Gen(list[i])
  BY <1>2, <1>4, <1>5 DEF Body
<1>7. \A i \in 1 .. k :
        /\ s[i] \in Item /\ Proper(s[i]) /\ Opens(s[i]) = 0
        /\ Before(s[i]) = {"open"} /\ s[i].op = "gen"
        /\ After(s[i]) = IF list[i].kind = "return" THEN "returned" ELSE "open"
  BY <1>5, <1>6
<1>8. Linked(s)
  <2> SUFFICES ASSUME NEW i \in 1 .. k - 1
               PROVE  Follows(s[i], s[i + 1])
    BY <1>6 DEF Linked
  <2>1. i \in 1 .. k /\ i + 1 \in 1 .. k /\ i # k
    OBVIOUS
  <2>2. After(s[i]) = "open" /\ Before(s[i + 1]) = {"open"} /\ s[i + 1].op = "gen"
    BY <1>3, <1>7, <2>1
  <2> QED
    BY <2>2 DEF Follows
<1>9. Apart(s) /\ Awaited(s) = {}
  BY <1>6, <1>7 DEF Apart, Awaited
<1>10. Piece(s, s[1], s[k], {})
  BY <1>2, <1>6, <1>7, <1>8, <1>9 DEF Piece, Chained
<1>11. 1 \in 1 .. k /\ k \in 1 .. k
  BY <1>2
<1>12. After(s[k]) = "open" \/ (returns /\ After(s[k]) = "returned")
  BY <1>3, <1>7, <1>11
<1> QED
  BY <1>4, <1>7, <1>10, <1>11, <1>12

LEMMA BodyThen ==
  ASSUME NEW list \in Statements, NEW returns \in BOOLEAN, Listed(list, returns),
         NEW x \in Item, Proper(x), x.op # "case", "open" \in Before(x),
         returns => "returned" \in Before(x)
  PROVE  \E y : /\ Piece(Body(list) \o <<x>>, y, x, {Opens(x)} \ {0})
                /\ "open" \in Before(y) /\ y.op # "case"
<1>1. Piece(<<x>>, x, x, {Opens(x)} \ {0})
  BY PieceOne
<1>2. CASE list = <<>>
  <2>1. Body(list) = <<>>
    BY <1>2 DEF Body
  <2>2. Body(list) \o <<x>> = <<x>>
    BY <2>1
  <2> QED
    BY <1>1, <2>2
<1>3. CASE list # <<>>
  <2>1. PICK y, z : /\ Piece(Body(list), y, z, {}) /\ y.op = "gen" /\ Before(y) = {"open"}
                    /\ After(z) = "open" \/ (returns /\ After(z) = "returned")
    BY <1>3, BodyPiece
  <2>2. Follows(z, x)
    BY <2>1 DEF Follows
  <2>3. {} \cap ({Opens(x)} \ {0}) = {} /\ {} \cup ({Opens(x)} \ {0}) = {Opens(x)} \ {0}
    OBVIOUS
  <2>4. Piece(Body(list) \o <<x>>, y, x, {} \cup ({Opens(x)} \ {0}))
    BY <1>1, <2>1, <2>2, <2>3, PiecesJoined
  <2> QED
    BY <2>1, <2>3, <2>4
<1> QED
  BY <1>2, <1>3

LEMMA ScopePiece ==
  ASSUME NEW list \in Statements, NEW always \in BOOLEAN, Listed(list, ~always),
         NEW to \in Nat, to # 0, NEW out \in Nat
  PROVE  Piece(<<Enter(to)>> \o Body(list) \o <<Leave(out, always)>>,
               Enter(to), Leave(out, always), {to})
<1>1. PICK x : x = Leave(out, always)
  BY Zenon
<1>2. /\ x \in Item /\ Proper(x) /\ Opens(x) = 0 /\ x.op # "case"
      /\ "open" \in Before(x) /\ (~always => "returned" \in Before(x))
  <2>1. /\ x \in Item /\ Proper(x) /\ Opens(x) = 0 /\ x.op = "leave"
        /\ Before(x) = IF always THEN {"open"} ELSE {"open", "returned"}
    BY <1>1, LeaveFacts, Zenon
  <2> QED
    BY <2>1
<1>3. PICK y : /\ Piece(Body(list) \o <<x>>, y, x, {Opens(x)} \ {0})
               /\ "open" \in Before(y) /\ y.op # "case"
  <2>1. PICK returns : returns = ~always
    BY Zenon
  <2> QED
    BY <1>2, <2>1, BodyThen
<1>4. /\ Enter(to) \in Item /\ Proper(Enter(to)) /\ Opens(Enter(to)) = to
      /\ After(Enter(to)) = "open"
  BY MoveFacts
<1>5. Piece(<<Enter(to)>>, Enter(to), Enter(to), {to})
  <2>1. {to} \ {0} = {to}
    OBVIOUS
  <2> QED
    BY <1>4, <2>1, PieceOne
<1>6. Follows(Enter(to), y)
  BY <1>3, <1>4 DEF Follows
<1>7. Piece(<<Enter(to)>> \o (Body(list) \o <<x>>), Enter(to), x, {to})
  <2>1. Piece(Body(list) \o <<x>>, y, x, {})
    BY <1>2, <1>3
  <2>2. {to} \cap {} = {} /\ {to} \cup {} = {to}
    OBVIOUS
  <2> QED
    BY <1>5, <1>6, <2>1, <2>2, PiecesJoined
<1>8. <<Enter(to)>> \o (Body(list) \o <<x>>) = <<Enter(to)>> \o Body(list) \o <<x>>
  <2>1. <<Enter(to)>> \in Seq(Item) /\ <<x>> \in Seq(Item)
    BY <1>2, <1>4
  <2>2. Body(list) \in Seq(Item)
    BY BodyItems
  <2> QED
    BY <2>1, <2>2, ConcatAssociative
<1> QED
  BY <1>1, <1>7, <1>8, Zenon
-------------------------------------------------------------------------------
(* The blocks that are open.                                                 *)
Plain == [owner : Nat, code : Seq(Instruction)]

LEMMA CodeAdded ==
  ASSUME NEW code \in Seq(Instruction), Open(code), NEW x \in Instruction
  PROVE  /\ Append(code, x) \in Seq(Instruction)
         /\ IF x.op \in Terminators THEN Terminated(Append(code, x)) ELSE Open(Append(code, x))
<1>1. PICK k, t : k = Len(code) /\ t = Append(code, x)
  OBVIOUS
<1>2. /\ k \in Nat /\ t \in Seq(Instruction) /\ DOMAIN t = 1 .. k + 1 /\ Len(t) = k + 1 /\ t[k + 1] = x
      /\ \A i \in 1 .. k : t[i] = code[i]
  BY <1>1
<1>3. \A i \in 1 .. k : t[i].op \notin Terminators
  BY <1>1, <1>2 DEF Open
<1>4. \A i \in 1 .. k + 1 : i = k + 1 \/ (i \in 1 .. k /\ i # k + 1)
  BY <1>2
<1>5. CASE x.op \in Terminators
  <2>1. t # <<>>
    BY <1>2
  <2>2. \A i \in 1 .. k + 1 : t[i].op \in Terminators <=> i = k + 1
    BY <1>2, <1>3, <1>4, <1>5
  <2> QED
    BY <1>1, <1>2, <1>5, <2>1, <2>2 DEF Terminated
<1>6. CASE x.op \notin Terminators
  <2>1. \A i \in 1 .. k + 1 : t[i].op \notin Terminators
    BY <1>2, <1>3, <1>4, <1>6
  <2> QED
    BY <1>1, <1>2, <1>6, <2>1 DEF Open
<1> QED
  BY <1>5, <1>6

LEMMA SortedCoded ==
  ASSUME NEW bs \in Seq(Plain), NEW live, Sorted(bs, live), NEW b \in 1 .. Len(bs),
         NEW code \in Seq(Instruction)
  PROVE  /\ Coded(bs, b, code) \in Seq(Plain) /\ Len(Coded(bs, b, code)) = Len(bs)
         /\ Coded(bs, b, code)[b].code = code
         /\ Open(code) => Sorted(Coded(bs, b, code), live \cup {b})
         /\ Terminated(code) => Sorted(Coded(bs, b, code), live \ {b})
<1> DEFINE new == [bs[b] EXCEPT !.code = code]
<1>1. DOMAIN bs = 1 .. Len(bs) /\ Len(bs) \in Nat /\ bs[b] \in Plain
  OBVIOUS
<1>2. new \in Plain /\ new.code = code
  BY <1>1 DEF Plain
<1> HIDE DEF new
<1>3. PICK cs : cs = [bs EXCEPT ![b] = new]
  OBVIOUS
<1>4. cs = Coded(bs, b, code)
  BY <1>3 DEF Coded, new
<1>5. /\ cs \in Seq(Plain) /\ Len(cs) = Len(bs) /\ cs[b] = new
      /\ \A c \in 1 .. Len(bs) : c # b => cs[c] = bs[c]
  BY <1>1, <1>2, <1>3
<1>6. Open(code) => Sorted(cs, live \cup {b})
  BY <1>2, <1>5 DEF Sorted
<1>7. Terminated(code) => Sorted(cs, live \ {b})
  BY <1>2, <1>5 DEF Sorted
<1> QED
  BY <1>2, <1>4, <1>5, <1>6, <1>7

LEMMA SortedAppended ==
  ASSUME NEW bs \in Seq(Plain), NEW live, Sorted(bs, live), block \in live,
         NEW x \in Instruction
  PROVE  /\ Appended(bs, x) \in Seq(Plain) /\ Len(Appended(bs, x)) = Len(bs)
         /\ Appended(bs, x)[block].code = Append(bs[block].code, x)
         /\ Sorted(Appended(bs, x), IF x.op \in Terminators THEN live \ {block} ELSE live)
<1>1. block \in 1 .. Len(bs) /\ Open(bs[block].code)
  BY DEF Sorted
<1>2. bs[block].code \in Seq(Instruction)
  <2>1. bs[block] \in Plain
    BY <1>1
  <2> QED
    BY <2>1 DEF Plain
<1>3. PICK code : code = Append(bs[block].code, x)
  OBVIOUS
<1>4. /\ code \in Seq(Instruction)
      /\ IF x.op \in Terminators THEN Terminated(code) ELSE Open(code)
  BY <1>1, <1>2, <1>3, CodeAdded
<1>5. PICK cs : cs = Coded(bs, block, code)
  OBVIOUS
<1>6. Appended(bs, x) = cs
  BY <1>3, <1>5 DEF Appended, Coded
<1>7. /\ cs \in Seq(Plain) /\ Len(cs) = Len(bs) /\ cs[block].code = code
      /\ Open(code) => Sorted(cs, live \cup {block})
      /\ Terminated(code) => Sorted(cs, live \ {block})
  BY <1>1, <1>4, <1>5, SortedCoded
<1>8. live \cup {block} = live
  OBVIOUS
<1>9. Open(code) => Sorted(cs, live)
  BY <1>7, <1>8
<1> QED
  BY <1>3, <1>4, <1>6, <1>7, <1>9

LEMMA SortedExtended ==
  ASSUME NEW bs \in Seq(Plain), NEW live, Sorted(bs, live), NEW k \in Nat, NEW owner \in Nat
  PROVE  /\ Extended(bs, k, owner) \in Seq(Plain) /\ Len(Extended(bs, k, owner)) = Len(bs) + k
         /\ Sorted(Extended(bs, k, owner), live \cup (Len(bs) + 1 .. Len(bs) + k))
<1> DEFINE new == [i \in 1 .. k |-> Fresh(owner)]
<1>1. Fresh(owner) \in Plain /\ Fresh(owner).code = <<>>
  BY DEF Fresh, Plain
<1>2. new \in Seq(Plain) /\ Len(new) = k /\ \A i \in 1 .. k : new[i] = Fresh(owner)
  BY <1>1
<1> HIDE DEF new
<1>3. PICK n \in Nat : n = Len(bs)
  OBVIOUS
<1>4. PICK cs : cs = bs \o new
  OBVIOUS
<1>5. /\ cs \in Seq(Plain) /\ Len(cs) = n + k
      /\ \A b \in 1 .. n : cs[b] = bs[b]
      /\ \A b \in n + 1 .. n + k : cs[b] = Fresh(owner)
  <2>1. cs \in Seq(Plain) /\ Len(cs) = n + k
    BY <1>2, <1>3, <1>4, ConcatProperties
  <2>2. \A b \in 1 .. n : cs[b] = bs[b]
    BY <1>2, <1>3, <1>4
  <2>3. ASSUME NEW b \in n + 1 .. n + k
        PROVE  cs[b] = Fresh(owner)
    <3>1. cs[b] = new[b - n] /\ b - n \in 1 .. k
      BY <1>2, <1>3, <1>4
    <3> QED
      BY <1>2, <3>1
  <2> QED
    BY <2>1, <2>2, <2>3
<1>6. Open(<<>>)
  BY DEF Open
<1>7. Sorted(cs, live \cup (n + 1 .. n + k))
  <2>1. \A c \in 1 .. n + k : c \in 1 .. n \/ c \in n + 1 .. n + k
    OBVIOUS
  <2>2. 1 .. n \subseteq 1 .. n + k /\ n + 1 .. n + k \subseteq 1 .. n + k
    OBVIOUS
  <2>3. \A c \in 1 .. n : c \notin n + 1 .. n + k
    OBVIOUS
  <2>4. live \subseteq 1 .. n
    BY <1>3 DEF Sorted
  <2>5. \A c \in 1 .. n : IF c \in live THEN Open(cs[c].code) ELSE Terminated(cs[c].code)
    BY <1>3, <1>5 DEF Sorted
  <2>6. \A c \in n + 1 .. n + k : Open(cs[c].code)
    BY <1>1, <1>5, <1>6
  <2> QED
    BY <1>5, <2>1, <2>2, <2>3, <2>4, <2>5, <2>6 DEF Sorted
<1> QED
  BY <1>3, <1>4, <1>5, <1>7 DEF Extended, new

(* The state of the generator, and what its items need of it.                *)
LEMMA CodingState ==
  ASSUME NEW p, Building(p), NEW st \in States, Coding(st)
  PROVE  /\ blocks \in Seq(Plain) /\ Len(blocks) \in Nat
         /\ Awaited(todo) \subseteq 1 .. Len(blocks)
         /\ st = "open" => /\ block \in 1 .. Len(blocks) /\ block \notin Awaited(todo)
                           /\ ~HasTerminator(block)
         /\ st = "returned" => HasTerminator(block)
         /\ Sorted(blocks, Live(st, block, todo))
<1>1. blocks \in Seq(Block(Len(functions))) /\ Len(functions) \in Nat
  BY DEF Building, Generation, GoodBlocks
<1>2. Block(Len(functions)) \subseteq Plain
  <2>1. \A n \in Nat : 1 .. n \subseteq Nat
    OBVIOUS
  <2> QED
    BY <1>1, <2>1 DEF Block, Plain
<1>3. blocks \in Seq(Plain) /\ Len(blocks) \in Nat
  BY <1>1, <1>2
<1>4. Awaited(todo) \subseteq 1 .. Len(blocks)
  BY DEF Coding, Sorted, Live
<1>5. ASSUME st = "open"
      PROVE  /\ block \in 1 .. Len(blocks) /\ block \notin Awaited(todo)
             /\ ~HasTerminator(block)
  <2>1. block \in Live(st, block, todo) /\ block \notin Awaited(todo)
    BY <1>5 DEF Coding, Live, Meets
  <2>2. block \in 1 .. Len(blocks) /\ Open(blocks[block].code)
    BY <2>1 DEF Coding, Sorted
  <2>3. ~HasTerminator(block)
    BY <2>2 DEF Open, HasTerminator, Terminators
  <2> QED
    BY <2>1, <2>2, <2>3
<1> QED
  BY <1>3, <1>4, <1>5 DEF Coding

(* The next item replaced by others, and the next item done.                 *)
LEMMA Continued ==
  ASSUME Chained(todo), Ends(todo), todo # <<>>, Head(todo).op # "move",
         NEW items, NEW x, NEW y, NEW opened, Piece(items, x, y, opened), Then(items),
         After(y) = After(Head(todo)), opened \cap Awaited(Tail(todo)) = {},
         NeatStack(defer_stack)', NEW st \in States, st \in Before(x),
         x.op = "case" => block' = x.parent,
         st = "open" => block' \notin opened \cup Awaited(Tail(todo)),
         Sorted(blocks', opened \cup Awaited(Tail(todo))
                         \cup (IF st = "open" THEN {block'} ELSE {})),
         st = "returned" => block' # 0 /\ HasTerminator(block)'
  PROVE  Coding(st)'
<1>1. PICK s : s = items \o Tail(todo)
  OBVIOUS
<1>2. /\ Chained(s) /\ Ends(s) /\ s # <<>> /\ s[1] = x
      /\ Awaited(s) = opened \cup Awaited(Tail(todo))
  BY <1>1, PieceInPlace
<1>3. todo' = s
  BY <1>1 DEF Then
<1>4. Meets(st, block', s)
  BY <1>2 DEF Meets
<1>5. Sorted(blocks', Live(st, block', s))
  BY <1>2 DEF Live
<1> QED
  BY <1>2, <1>3, <1>4, <1>5 DEF Coding

LEMMA Finished ==
  ASSUME Chained(todo), Ends(todo), todo # <<>>, Then(<<>>),
         NeatStack(defer_stack)', NEW st \in States, st = After(Head(todo)),
         Head(todo).op = "move" => block' = Head(todo).to,
         st = "open" => block' \notin Awaited(Tail(todo)),
         Sorted(blocks', Awaited(Tail(todo)) \cup (IF st = "open" THEN {block'} ELSE {})),
         st = "returned" => block' # 0 /\ HasTerminator(block)'
  PROVE  Coding(st)'
<1>1. PICK s : s = Tail(todo)
  OBVIOUS
<1>2. /\ Chained(s) /\ Ends(s)
      /\ s = <<>> => After(Head(todo)) = "away"
      /\ s # <<>> => Follows(Head(todo), s[1])
  BY <1>1, Rest
<1>3. todo' = s
  <2>1. s \in Seq(Item)
    BY <1>2 DEF Chained
  <2>2. <<>> \o s = s
    BY <2>1
  <2> QED
    BY <1>1, <2>2 DEF Then
<1>4. Meets(st, block', s)
  <2>1. CASE s = <<>>
    BY <1>1, <1>2, <2>1 DEF Meets
  <2>2. CASE s # <<>>
    <3>1. st \in Before(s[1]) /\ (s[1].op = "case" => block' = s[1].parent)
      BY <1>2, <2>2 DEF Follows
    <3> QED
      BY <1>1, <2>2, <3>1 DEF Meets
  <2> QED
    BY <2>1, <2>2
<1>5. Sorted(blocks', Live(st, block', s))
  BY <1>1 DEF Live
<1> QED
  BY <1>2, <1>3, <1>4, <1>5 DEF Coding
-------------------------------------------------------------------------------
(* The actions.                                                              *)
LEMMA CodingStep ==
  ASSUME NEW st \in States, Coding(st), todo # <<>>
  PROVE  /\ Chained(todo) /\ Ends(todo) /\ NeatStack(defer_stack)
         /\ st \in Before(Head(todo)) /\ Head(todo) \in Item /\ Proper(Head(todo))
         /\ Head(todo).op = "case" => block = Head(todo).parent
         /\ Awaited(todo) = ({Opens(Head(todo))} \ {0}) \cup Awaited(Tail(todo))
         /\ Opens(Head(todo)) \notin Awaited(Tail(todo))
<1>1. Chained(todo) /\ Ends(todo) /\ NeatStack(defer_stack) /\ Meets(st, block, todo)
  BY DEF Coding
<1>2. /\ todo[1] = Head(todo) /\ Head(todo) \in Item /\ Proper(Head(todo))
      /\ Awaited(todo) = ({Opens(Head(todo))} \ {0}) \cup Awaited(Tail(todo))
      /\ Opens(Head(todo)) \notin Awaited(Tail(todo))
  BY <1>1, Rest
<1>3. st \in Before(todo[1]) /\ (todo[1].op = "case" => block = todo[1].parent)
  BY <1>1 DEF Meets
<1> QED
  BY <1>1, <1>2, <1>3

(* A statement is generated in an open block, which is open or has returned  *)
(* after it; it opens no block for what follows.                             *)
LEMMA StatementCoding ==
  ASSUME NEW p, Building(p), NEW st \in States, Coding(st), At("gen")
  PROVE  LET s == Head(todo).stmt
         IN /\ todo # <<>> /\ s \in Stmt /\ Neat(s) /\ st = "open"
            /\ Chained(todo) /\ Ends(todo) /\ NeatStack(defer_stack)
            /\ Head(todo).op = "gen" /\ Awaited(Tail(todo)) = Awaited(todo)
            /\ After(Head(todo)) = IF s.kind = "return" THEN "returned" ELSE "open"
            /\ blocks \in Seq(Plain) /\ Len(blocks) \in Nat
            /\ block \in 1 .. Len(blocks) /\ block \notin Awaited(todo)
            /\ Awaited(todo) \subseteq 1 .. Len(blocks)
            /\ Sorted(blocks, Awaited(todo) \cup {block})
<1>1. todo # <<>> /\ Head(todo).op = "gen"
  BY DEF At
<1>2. /\ Chained(todo) /\ Ends(todo) /\ NeatStack(defer_stack)
      /\ st \in Before(Head(todo)) /\ Head(todo) \in Item /\ Proper(Head(todo))
      /\ Awaited(todo) = ({Opens(Head(todo))} \ {0}) \cup Awaited(Tail(todo))
  BY <1>1, CodingStep
<1>3. st = "open" /\ Opens(Head(todo)) = 0 /\ Neat(Head(todo).stmt)
  BY <1>1, <1>2 DEF Before, Opens, Proper
<1>4. Head(todo).stmt \in Stmt
  BY <1>1, <1>2, ItemFields
<1>5. After(Head(todo)) = IF Head(todo).stmt.kind = "return" THEN "returned" ELSE "open"
  BY <1>1 DEF After
<1>6. /\ blocks \in Seq(Plain) /\ Len(blocks) \in Nat
      /\ Awaited(todo) \subseteq 1 .. Len(blocks)
      /\ block \in 1 .. Len(blocks) /\ block \notin Awaited(todo)
      /\ Sorted(blocks, Live(st, block, todo))
  BY <1>3, CodingState
<1>7. Awaited(Tail(todo)) = Awaited(todo)
  BY <1>2, <1>3
<1> QED
  BY <1>1, <1>2, <1>3, <1>4, <1>5, <1>6, <1>7 DEF Live

LEMMA GenExpressionCodes ==
  ASSUME NEW p, Building(p), NEW st \in States, Coding(st), GenExpression
  PROVE  Coding("open")'
<1>1. At("gen") /\ Head(todo).stmt.kind = "do"
  BY DEF GenExpression, Generates
<1>2. PICK s : s = Head(todo).stmt
  OBVIOUS
<1>3. /\ todo # <<>> /\ s \in Stmt /\ Chained(todo) /\ Ends(todo) /\ NeatStack(defer_stack)
      /\ Head(todo).op = "gen" /\ Awaited(Tail(todo)) = Awaited(todo)
      /\ After(Head(todo)) = "open" /\ blocks \in Seq(Plain)
      /\ block \notin Awaited(todo) /\ Sorted(blocks, Awaited(todo) \cup {block})
  BY <1>1, <1>2, StatementCoding
<1>4. PICK x : x = Do(s.name)
  OBVIOUS
<1>5. x \in Instruction /\ x.op \notin Terminators
  BY <1>3, <1>4, StmtFields, InstructionsTyped DEF Do, Terminators
<1>6. /\ blocks' = Appended(blocks, x) /\ Then(<<>>)
      /\ UNCHANGED <<deferring, block, functions>>
  BY <1>2, <1>4 DEF GenExpression
<1>7. Sorted(blocks', Awaited(todo) \cup {block})
  BY <1>3, <1>5, <1>6, SortedAppended
<1>8. NeatStack(defer_stack)'
  BY <1>3, <1>6 DEF deferring, NeatStack
<1> QED
  BY <1>3, <1>6, <1>7, <1>8, Finished DEF States

LEMMA GenNothingCodes ==
  ASSUME NEW p, Building(p), NEW st \in States, Coding(st), GenNothing
  PROVE  Coding("open")'
<1>1. At("gen") /\ Head(todo).stmt.kind # "return"
  BY DEF GenNothing, Generates
<1>2. /\ todo # <<>> /\ Chained(todo) /\ Ends(todo) /\ NeatStack(defer_stack)
      /\ Head(todo).op = "gen" /\ Awaited(Tail(todo)) = Awaited(todo)
      /\ After(Head(todo)) = "open"
      /\ block \notin Awaited(todo) /\ Sorted(blocks, Awaited(todo) \cup {block})
  BY <1>1, StatementCoding
<1>3. Then(<<>>) /\ UNCHANGED <<deferring, blocks, block, functions>>
  BY DEF GenNothing
<1>4. NeatStack(defer_stack)'
  BY <1>2, <1>3 DEF deferring, NeatStack
<1> QED
  BY <1>2, <1>3, <1>4, Finished DEF States

(* A value is returned, after what was deferred.                             *)
LEMMA PieceTwo ==
  ASSUME NEW x \in Item, Proper(x), NEW y \in Item, Proper(y), Follows(x, y),
         Opens(x) = Opens(y) => Opens(x) = 0
  PROVE  Piece(<<x, y>>, x, y, {Opens(x), Opens(y)} \ {0})
<1>1. Piece(<<x>>, x, x, {Opens(x)} \ {0}) /\ Piece(<<y>>, y, y, {Opens(y)} \ {0})
  BY PieceOne
<1>2. ({Opens(x)} \ {0}) \cap ({Opens(y)} \ {0}) = {}
  OBVIOUS
<1>3. ({Opens(x)} \ {0}) \cup ({Opens(y)} \ {0}) = {Opens(x), Opens(y)} \ {0}
  OBVIOUS
<1>4. Piece(<<x>> \o <<y>>, x, y, ({Opens(x)} \ {0}) \cup ({Opens(y)} \ {0}))
  BY <1>1, <1>2, PiecesJoined
<1>5. <<x>> \o <<y>> = <<x, y>>
  BY Pairs
<1> QED
  BY <1>3, <1>4, <1>5

LEMMA InjectedPiece ==
  ASSUME NEW i \in Nat, NEW min \in Nat, NEW x \in Instruction, x.op \in Terminators
  PROVE  Piece(<<Inject(i, min), Emit(x)>>, Inject(i, min), Emit(x), {})
<1>1. /\ Inject(i, min) \in Item /\ Proper(Inject(i, min)) /\ Opens(Inject(i, min)) = 0
      /\ After(Inject(i, min)) = "open"
  BY InjectFacts
<1>2. /\ Emit(x) \in Item /\ Proper(Emit(x)) /\ Opens(Emit(x)) = 0
      /\ Before(Emit(x)) = {"open"} /\ Emit(x).op = "emit"
  BY EmitFacts
<1>3. Follows(Inject(i, min), Emit(x))
  BY <1>1, <1>2 DEF Follows
<1>4. Piece(<<Inject(i, min), Emit(x)>>, Inject(i, min), Emit(x), {0, 0} \ {0})
  BY <1>1, <1>2, <1>3, PieceTwo
<1>5. {0, 0} \ {0} = {}
  OBVIOUS
<1> QED
  BY <1>4, <1>5

LEMMA GenReturnCodes ==
  ASSUME NEW p, Building(p), NEW st \in States, Coding(st), GenReturn
  PROVE  Coding("open")'
<1>1. At("gen") /\ Head(todo).stmt.kind = "return"
  BY DEF GenReturn, Generates
<1>2. PICK s : s = Head(todo).stmt
  OBVIOUS
<1>3. /\ todo # <<>> /\ s \in Stmt /\ Chained(todo) /\ Ends(todo) /\ NeatStack(defer_stack)
      /\ Head(todo).op = "gen" /\ Awaited(Tail(todo)) = Awaited(todo)
      /\ After(Head(todo)) = "returned"
      /\ block \notin Awaited(todo) /\ Sorted(blocks, Awaited(todo) \cup {block})
  BY <1>1, <1>2, StatementCoding
<1>4. PICK x : x = Return(s.name)
  OBVIOUS
<1>5. x \in Instruction /\ x.op \in Terminators /\ x.op = "return"
  BY <1>3, <1>4, StmtFields, InstructionsTyped DEF Return, Terminators
<1>6. PICK i \in Nat : i = defer_stack_len
  BY DEF Building, Deferred
<1>7. Piece(<<Inject(i, 0), Emit(x)>>, Inject(i, 0), Emit(x), {})
  BY <1>5, InjectedPiece
<1>8. After(Emit(x)) = "returned" /\ Before(Inject(i, 0)) = {"open"} /\ Inject(i, 0).op # "case"
  <2>1. Inject(i, 0).op = "inject" /\ Before(Inject(i, 0)) = {"open"}
    BY InjectFacts
  <2> QED
    BY <1>5, <2>1, EmitFacts
<1>9. /\ Then(<<Inject(i, 0), Emit(x)>>)
      /\ UNCHANGED <<deferring, blocks, block, functions>>
  BY <1>2, <1>4, <1>6 DEF GenReturn
<1>10. NeatStack(defer_stack)'
  BY <1>3, <1>9 DEF deferring, NeatStack
<1>11. {} \cap Awaited(Tail(todo)) = {} /\ {} \cup Awaited(Tail(todo)) = Awaited(todo)
  BY <1>3
<1> QED
  BY <1>3, <1>7, <1>8, <1>9, <1>10, <1>11, Continued DEF States

(* The lists of statements in a tidy one.                                    *)
LEMMA PartListed ==
  ASSUME NEW s \in Stmt, Neat(s), s.kind # "function", NEW k \in 1 .. Len(s.parts)
  PROVE  s.parts[k] \in Statements /\ Listed(s.parts[k], s.kind \notin {"block", "defer"})
<1>1. Tidy[s]
  BY Zenon DEF Neat
<1> QED
  BY <1>1, TidyParts

LEMMA FirstListed ==
  ASSUME NEW s \in Stmt, Neat(s)
  PROVE  /\ s.kind \in {"block", "defer"} =>
              s.parts[1] \in Statements /\ Listed(s.parts[1], FALSE)
         /\ s.kind \in {"for", "in"} =>
              s.parts[1] \in Statements /\ Listed(s.parts[1], TRUE)
<1>1. s.kind \in {"block", "defer", "for", "in"} => Len(s.parts) = 1
  BY StmtAssumption
<1>2. s.kind \in {"block", "defer", "for", "in"} => 1 \in 1 .. Len(s.parts)
  <2> HAVE s.kind \in {"block", "defer", "for", "in"}
  <2>1. Len(s.parts) = 1
    BY <1>1
  <2> QED
    BY <2>1
<1>3. s.kind \in {"block", "defer", "for", "in"} =>
        /\ s.parts[1] \in Statements
        /\ Listed(s.parts[1], s.kind \notin {"block", "defer"})
  BY <1>2, PartListed
<1>4. s.kind \in {"block", "defer"} => (s.kind \notin {"block", "defer"}) = FALSE
  OBVIOUS
<1>5. s.kind \in {"for", "in"} => (s.kind \notin {"block", "defer"}) = TRUE
  OBVIOUS
<1> QED
  BY <1>3, <1>4, <1>5

(* The statement that is deferred does not return.                           *)
LEMMA GenDeferCodes ==
  ASSUME NEW p, Building(p), NEW st \in States, Coding(st), GenDefer
  PROVE  Coding("open")'
<1>1. At("gen") /\ Head(todo).stmt.kind = "defer"
  BY DEF GenDefer, Generates
<1>2. PICK s : s = Head(todo).stmt
  OBVIOUS
<1>3. /\ todo # <<>> /\ s \in Stmt /\ Neat(s)
      /\ Chained(todo) /\ Ends(todo) /\ NeatStack(defer_stack)
      /\ Head(todo).op = "gen" /\ Awaited(Tail(todo)) = Awaited(todo)
      /\ After(Head(todo)) = "open"
      /\ block \notin Awaited(todo) /\ Sorted(blocks, Awaited(todo) \cup {block})
  BY <1>1, <1>2, StatementCoding
<1>4. PICK l, part : l = defer_stack_len /\ part = s.parts[1]
  OBVIOUS
<1>5. /\ l \in Nat /\ l <= Len(defer_stack) /\ Len(defer_stack) \in Nat
      /\ defer_stack \in Seq(Stmt)
  BY <1>4 DEF Building, Deferred, Statements
<1>6. part \in Seq(Stmt) /\ Len(part) = 1 /\ Neat(part[1]) /\ part[1].kind # "return"
  <2>1. s.kind = "defer"
    BY <1>1, <1>2
  <2>2. Len(part) = 1
    BY <1>3, <1>4, <2>1, StmtFields
  <2>3. part \in Statements /\ Listed(part, FALSE)
    BY <1>3, <1>4, <2>1, FirstListed
  <2>4. 1 \in 1 .. Len(part)
    BY <2>2
  <2> QED
    BY <2>2, <2>3, <2>4 DEF Listed, Statements
<1>7. defer_stack' = SubSeq(defer_stack, 1, l) \o part
                     \o SubSeq(defer_stack, l + 2, Len(defer_stack))
  BY <1>2, <1>4 DEF GenDefer
<1>8. PICK S : S = {t \in Stmt : Neat(t) /\ t.kind # "return"}
  OBVIOUS
<1>9. NeatStack(defer_stack)'
  <2>1. defer_stack \in Seq(S)
    BY <1>3, <1>5, <1>8 DEF NeatStack
  <2>2. part \in Seq(S)
    <3>1. part[1] \in Stmt
      BY <1>6
    <3>2. part[1] \in S
      BY <1>6, <1>8, <3>1
    <3>3. \A i \in 1 .. Len(part) : part[i] \in S
      <4> TAKE i \in 1 .. Len(part)
      <4>1. i = 1
        BY <1>6
      <4> QED
        BY <3>2, <4>1
    <3>4. part \in Seq(Stmt)
      BY <1>6
    <3> QED
      BY <3>3, <3>4
  <2>3. defer_stack' \in Seq(S)
    BY <1>5, <1>6, <1>7, <2>1, <2>2, StackWritten
  <2> QED
    BY <1>8, <2>3 DEF NeatStack
<1>10. Then(<<>>) /\ UNCHANGED <<blocks, block, functions>>
  BY DEF GenDefer
<1> QED
  BY <1>3, <1>9, <1>10, Finished DEF States
-------------------------------------------------------------------------------
(* The statements that open blocks.                                          *)
LEMMA BlocksBegun ==
  ASSUME blocks \in Seq(Plain), NEW live, Sorted(blocks, live), block \in 1 .. Len(blocks),
         NEW k \in Nat
  PROVE  /\ WithBlocks(k) \in Seq(Plain) /\ Len(WithBlocks(k)) = Len(blocks) + k
         /\ Sorted(WithBlocks(k), live \cup (Len(blocks) + 1 .. Len(blocks) + k))
<1>1. PICK owner : owner = blocks[block].owner
  OBVIOUS
<1>2. owner \in Nat
  <2>1. blocks[block] \in Plain
    OBVIOUS
  <2> QED
    BY <1>1, <2>1 DEF Plain
<1>3. WithBlocks(k) = Extended(blocks, k, owner)
  BY <1>1 DEF WithBlocks, Extended
<1> QED
  BY <1>2, <1>3, SortedExtended

(* The block is left for new ones.                                           *)
LEMMA BlocksOpened ==
  ASSUME blocks \in Seq(Plain), Len(blocks) \in Nat, block \in 1 .. Len(blocks),
         NEW awaited, awaited \subseteq 1 .. Len(blocks), block \notin awaited,
         Sorted(blocks, awaited \cup {block}), NEW k \in Nat,
         NEW x \in Instruction, x.op \in Terminators
  PROVE  LET bs == Appended(WithBlocks(k), x)
         IN /\ bs \in Seq(Plain) /\ Len(bs) = Len(blocks) + k
            /\ Sorted(bs, awaited \cup (Len(blocks) + 1 .. Len(blocks) + k))
<1>1. PICK n, new, bs : /\ n \in Nat /\ n = Len(blocks) /\ new = n + 1 .. n + k
                        /\ bs = Appended(WithBlocks(k), x)
  OBVIOUS
<1>2. PICK live : live = (awaited \cup {block}) \cup new
  OBVIOUS
<1>3. PICK cs : cs = WithBlocks(k)
  OBVIOUS
<1>4. cs \in Seq(Plain) /\ Len(cs) = n + k /\ Sorted(cs, live)
  BY <1>1, <1>2, <1>3, BlocksBegun
<1>5. bs \in Seq(Plain) /\ Len(bs) = n + k /\ Sorted(bs, live \ {block})
  <2>1. block \in live
    BY <1>2
  <2> QED
    BY <1>1, <1>3, <1>4, <2>1, SortedAppended
<1>6. live \ {block} = awaited \cup new
  <2>1. block \notin new
    BY <1>1
  <2> QED
    BY <1>2, <2>1
<1> QED
  BY <1>1, <1>5, <1>6

(* A scope, and what follows it.                                             *)
LEMMA ScopeMovePiece ==
  ASSUME NEW list \in Statements, NEW always \in BOOLEAN, Listed(list, ~always),
         NEW to \in Nat, to # 0, NEW out \in Nat, NEW next \in Nat, next # 0, next # to
  PROVE  Piece(<<Enter(to)>> \o Body(list) \o <<Leave(out, always), MoveTo(next)>>,
               Enter(to), MoveTo(next), {to, next})
<1>1. PICK x : x = Leave(out, always)
  BY Zenon
<1>2. x \in Item /\ After(x) = "away"
  BY <1>1, LeaveFacts, Zenon
<1>3. PICK s : s = <<Enter(to)>> \o Body(list)
  OBVIOUS
<1>4. Piece(s \o <<x>>, Enter(to), x, {to})
  BY <1>1, <1>3, ScopePiece, Zenon
<1>5. PICK y : y = MoveTo(next)
  OBVIOUS
<1>6. /\ y \in Item /\ Proper(y) /\ Opens(y) = next /\ Before(y) = {"away", "returned"}
      /\ y.op = "move"
  BY <1>5, MoveFacts
<1>7. Piece(<<y>>, y, y, {next})
  <2>1. {next} \ {0} = {next}
    OBVIOUS
  <2> QED
    BY <1>6, <2>1, PieceOne
<1>8. Follows(x, y)
  BY <1>2, <1>6 DEF Follows
<1>9. Piece((s \o <<x>>) \o <<y>>, Enter(to), y, {to, next})
  <2>1. {to} \cap {next} = {} /\ {to} \cup {next} = {to, next}
    OBVIOUS
  <2> QED
    BY <1>4, <1>7, <1>8, <2>1, PiecesJoined
<1>10. (s \o <<x>>) \o <<y>> = s \o <<x, y>>
  <2>1. s \in Seq(Item)
    <3>1. <<Enter(to)>> \in Seq(Item)
      BY ScopeItems
    <3> QED
      BY <1>3, <3>1, BodyItems, ConcatProperties
  <2>2. <<x>> \in Seq(Item) /\ <<y>> \in Seq(Item) /\ <<x>> \o <<y>> = <<x, y>>
    BY <1>2, <1>6, Pairs
  <2> QED
    BY <2>1, <2>2, ConcatAssociative
<1> QED
  BY <1>1, <1>3, <1>5, <1>9, <1>10, Zenon

(* The generator goes on in new blocks, and later after them.                *)
LEMMA GoesOn ==
  ASSUME NEW p, Building(p), NEW st \in States, Coding(st), At("gen"),
         Head(todo).stmt.kind # "return", UNCHANGED deferring,
         NEW items, NEW x, NEW y, NEW opened, Piece(items, x, y, opened), Then(items),
         x.op = "enter", Before(x) = {"away", "returned"}, After(y) = "open",
         opened \subseteq Len(blocks) + 1 .. Len(blocks'),
         Sorted(blocks', opened \cup Awaited(todo))
  PROVE  Coding("away")'
<1>1. /\ todo # <<>> /\ Chained(todo) /\ Ends(todo) /\ NeatStack(defer_stack)
      /\ Head(todo).op = "gen" /\ Awaited(Tail(todo)) = Awaited(todo)
      /\ After(Head(todo)) = "open"
      /\ Len(blocks) \in Nat /\ Awaited(todo) \subseteq 1 .. Len(blocks)
  BY StatementCoding
<1>2. opened \cap Awaited(Tail(todo)) = {}
  BY <1>1
<1>3. NeatStack(defer_stack)'
  BY <1>1 DEF deferring, NeatStack
<1>4. opened \cup Awaited(Tail(todo)) \cup {} = opened \cup Awaited(todo)
  BY <1>1
<1> QED
  BY <1>1, <1>2, <1>3, <1>4, Continued DEF States

LEMMA GenBlockCodes ==
  ASSUME NEW p, Building(p), NEW st \in States, Coding(st), GenBlock
  PROVE  Coding("away")'
<1>1. At("gen") /\ Head(todo).stmt.kind = "block"
  BY DEF GenBlock, Generates
<1>2. PICK s : s = Head(todo).stmt
  OBVIOUS
<1>3. s \in Stmt /\ Neat(s) /\ s.kind = "block"
  BY <1>1, <1>2, StatementCoding
<1>4. PICK awaited : awaited = Awaited(todo)
  OBVIOUS
<1>5. /\ blocks \in Seq(Plain) /\ Len(blocks) \in Nat
      /\ block \in 1 .. Len(blocks) /\ block \notin awaited
      /\ awaited \subseteq 1 .. Len(blocks) /\ Sorted(blocks, awaited \cup {block})
  BY <1>1, <1>4, StatementCoding
<1>6. PICK body \in Nat, merge \in Nat : body = Len(blocks) + 1 /\ merge = Len(blocks) + 2
  BY <1>5
<1>7. PICK list : list = s.parts[1]
  OBVIOUS
<1>8. list \in Statements /\ Listed(list, ~TRUE)
  BY <1>3, <1>7, FirstListed
<1>9. PICK items :
        items = <<Enter(body)>> \o Body(list) \o <<Leave(merge, TRUE), MoveTo(merge)>>
  BY Zenon
<1>10. body # 0 /\ merge # 0 /\ merge # body
  BY <1>5, <1>6
<1>11. Piece(items, Enter(body), MoveTo(merge), {body, merge})
  BY <1>8, <1>9, <1>10, ScopeMovePiece, Zenon
<1>12. /\ Before(Enter(body)) = {"away", "returned"} /\ Enter(body).op = "enter"
       /\ After(MoveTo(merge)) = "open"
  BY <1>10, MoveFacts
<1>13. Then(items)
  BY <1>2, <1>6, <1>7, <1>9, Zenon DEF GenBlock
<1>14. blocks' = Appended(WithBlocks(2), Br(body)) /\ UNCHANGED deferring
  BY <1>6 DEF GenBlock
<1>15. Len(blocks') = Len(blocks) + 2 /\ Sorted(blocks', {body, merge} \cup awaited)
  <2>1. Br(body) \in Instruction /\ Br(body).op \in Terminators
    BY InstructionsTyped DEF Br, Terminators
  <2>2. /\ Len(blocks') = Len(blocks) + 2
        /\ Sorted(blocks', awaited \cup (Len(blocks) + 1 .. Len(blocks) + 2))
    <3>1. PICK k \in Nat : k = 2
      OBVIOUS
    <3> QED
      BY <1>5, <1>14, <2>1, <3>1, BlocksOpened
  <2>3. {body, merge} \cup awaited = awaited \cup (Len(blocks) + 1 .. Len(blocks) + 2)
    BY <1>5, <1>6
  <2> QED
    BY <2>2, <2>3
<1>16. {body, merge} \subseteq Len(blocks) + 1 .. Len(blocks')
  BY <1>5, <1>6, <1>15
<1> QED
  BY <1>1, <1>3, <1>2, <1>4, <1>11, <1>12, <1>13, <1>14, <1>15, <1>16, GoesOn

LEMMA GenIfCodes ==
  ASSUME NEW p, Building(p), NEW st \in States, Coding(st), GenIf
  PROVE  Coding("away")'
<1>1. At("gen") /\ Head(todo).stmt.kind = "if"
  BY DEF GenIf, Generates
<1>2. PICK s : s = Head(todo).stmt
  OBVIOUS
<1>3. s \in Stmt /\ Neat(s) /\ s.kind = "if"
  BY <1>1, <1>2, StatementCoding
<1>4. PICK awaited : awaited = Awaited(todo)
  OBVIOUS
<1>5. /\ blocks \in Seq(Plain) /\ Len(blocks) \in Nat
      /\ block \in 1 .. Len(blocks) /\ block \notin awaited
      /\ awaited \subseteq 1 .. Len(blocks) /\ Sorted(blocks, awaited \cup {block})
  BY <1>1, <1>4, StatementCoding
<1>6. PICK arms : arms = Len(s.parts)
  OBVIOUS
<1>7. arms \in {1, 2}
  BY <1>3, <1>6, StmtFields
<1>8. PICK then \in Nat, else \in Nat, merge \in Nat :
        then = Len(blocks) + 1 /\ else = Len(blocks) + 2 /\ merge = Len(blocks) + arms + 1
  BY <1>5, <1>7
<1>9. /\ then # 0 /\ else # 0 /\ merge # 0 /\ then # else /\ merge # then
      /\ arms = 2 => merge # else
  BY <1>5, <1>7, <1>8
<1>10. PICK x : x = Leave(merge, FALSE)
  BY Zenon
<1>11. PICK first : first = <<Enter(then)>> \o Body(s.parts[1]) \o <<x>>
  OBVIOUS
<1>12. PICK last : last = <<Enter(else)>> \o Body(s.parts[2]) \o <<x>>
  OBVIOUS
<1>13. PICK second : second = IF arms = 1 THEN <<>> ELSE last
  OBVIOUS
<1>14. PICK items : items = first \o second \o <<MoveTo(merge)>>
  OBVIOUS
<1>15. Then(items)
  BY <1>2, <1>6, <1>8, <1>10, <1>11, <1>12, <1>13, <1>14, Zenon DEF GenIf
<1>16. ASSUME NEW k \in 1 .. arms
       PROVE  s.parts[k] \in Statements /\ Listed(s.parts[k], ~FALSE)
  <2>1. (s.kind \notin {"block", "defer"}) = ~FALSE
    BY <1>3
  <2>2. s.parts[k] \in Statements /\ Listed(s.parts[k], s.kind \notin {"block", "defer"})
    BY <1>3, <1>6, PartListed
  <2> QED
    BY <2>1, <2>2
<1>17. /\ Before(Enter(then)) = {"away", "returned"} /\ Enter(then).op = "enter"
       /\ Before(Enter(else)) = {"away", "returned"} /\ Enter(else).op = "enter"
       /\ After(MoveTo(merge)) = "open" /\ Before(MoveTo(merge)) = {"away", "returned"}
       /\ MoveTo(merge).op = "move" /\ After(x) = "away"
  <2>1. After(x) = "away"
    BY <1>10, LeaveFacts, Zenon
  <2> QED
    BY <1>9, <2>1, MoveFacts
<1>18. Piece(first, Enter(then), x, {then})
  <2>1. 1 \in 1 .. arms
    BY <1>7
  <2>2. s.parts[1] \in Statements /\ Listed(s.parts[1], ~FALSE)
    BY <1>16, <2>1
  <2> QED
    BY <1>9, <1>10, <1>11, <2>2, ScopePiece, Zenon
<1>19. Piece(first \o second, Enter(then), x, (Len(blocks) + 1 .. Len(blocks) + arms))
  <2>1. CASE arms = 1
    <3>1. first \o second = first
      <4>1. first \in Seq(Item)
        BY <1>18 DEF Piece, Chained
      <4> QED
        BY <1>13, <2>1, <4>1
    <3>2. {then} = Len(blocks) + 1 .. Len(blocks) + arms
      BY <1>5, <1>8, <2>1
    <3> QED
      BY <1>18, <3>1, <3>2
  <2>2. CASE arms = 2
    <3>1. 2 \in 1 .. arms
      BY <2>2
    <3>2. s.parts[2] \in Statements /\ Listed(s.parts[2], ~FALSE)
      BY <1>16, <3>1
    <3>3. Piece(last, Enter(else), x, {else})
      BY <1>9, <1>10, <1>12, <3>2, ScopePiece, Zenon
    <3>4. second = last
      BY <1>13, <2>2
    <3>5. Follows(x, Enter(else))
      BY <1>17 DEF Follows
    <3>6. {then} \cap {else} = {}
      BY <1>9
    <3>7. {then} \cup {else} = Len(blocks) + 1 .. Len(blocks) + arms
      BY <1>5, <1>8, <2>2
    <3>8. Piece(first \o last, Enter(then), x, {then} \cup {else})
      BY <1>18, <3>3, <3>5, <3>6, PiecesJoined
    <3> QED
      BY <3>4, <3>7, <3>8
  <2> QED
    BY <1>7, <2>1, <2>2
<1>20. PICK opened : opened = Len(blocks) + 1 .. Len(blocks) + (arms + 1)
  OBVIOUS
<1>21. Piece(items, Enter(then), MoveTo(merge), opened)
  <2>1. Piece(<<MoveTo(merge)>>, MoveTo(merge), MoveTo(merge), {merge})
    <3>1. {merge} \ {0} = {merge}
      BY <1>9
    <3>2. MoveTo(merge) \in Item /\ Proper(MoveTo(merge)) /\ Opens(MoveTo(merge)) = merge
      BY <1>9, MoveFacts
    <3> QED
      BY <3>1, <3>2, PieceOne
  <2>2. Follows(x, MoveTo(merge))
    BY <1>17 DEF Follows
  <2>3. (Len(blocks) + 1 .. Len(blocks) + arms) \cap {merge} = {}
    BY <1>5, <1>7, <1>8
  <2>4. (Len(blocks) + 1 .. Len(blocks) + arms) \cup {merge} = opened
    BY <1>5, <1>7, <1>8, <1>20
  <2>5. Piece((first \o second) \o <<MoveTo(merge)>>, Enter(then), MoveTo(merge),
              (Len(blocks) + 1 .. Len(blocks) + arms) \cup {merge})
    BY <1>19, <2>1, <2>2, <2>3, PiecesJoined
  <2> QED
    BY <1>14, <2>4, <2>5
<1>22. blocks' = Appended(WithBlocks(arms + 1), CondBr(s.name, then, else)) /\ UNCHANGED deferring
  BY <1>2, <1>6, <1>8 DEF GenIf
<1>23. /\ Len(blocks') = Len(blocks) + (arms + 1)
       /\ Sorted(blocks', awaited \cup opened)
  <2>1. PICK y : y = CondBr(s.name, then, else)
    OBVIOUS
  <2>2. y \in Instruction /\ y.op \in Terminators
    BY <1>3, <2>1, StmtFields, InstructionsTyped DEF CondBr, Terminators
  <2>3. PICK k \in Nat : k = arms + 1
    BY <1>7
  <2> QED
    BY <1>5, <1>20, <1>22, <2>1, <2>2, <2>3, BlocksOpened
<1>24. awaited \cup opened = opened \cup awaited
  OBVIOUS
<1>25. opened \subseteq Len(blocks) + 1 .. Len(blocks')
  BY <1>20, <1>23
<1> QED
  BY <1>1, <1>2, <1>3, <1>4, <1>15, <1>17, <1>21, <1>22, <1>23, <1>24, <1>25, GoesOn

LEMMA TerminatedCodes ==
  ASSUME NEW x \in Instruction, x.op \in Terminators
  PROVE  /\ Terminated(<<x>>)
         /\ \A name \in Name : Terminated(<<Do(name), x>>) /\ <<Do(name), x>> \in Seq(Instruction)
<1>1. Open(<<>>) /\ <<>> \in Seq(Instruction) /\ Append(<<>>, x) = <<x>>
  BY DEF Open
<1>2. Terminated(<<x>>)
  BY <1>1, CodeAdded
<1>3. ASSUME NEW name \in Name
      PROVE  Terminated(<<Do(name), x>>) /\ <<Do(name), x>> \in Seq(Instruction)
  <2>1. PICK y : y = Do(name)
    OBVIOUS
  <2>2. y \in Instruction /\ y.op \notin Terminators
    BY <2>1, InstructionsTyped DEF Do, Terminators
  <2>3. Open(<<y>>) /\ <<y>> \in Seq(Instruction)
    <3>1. Append(<<>>, y) = <<y>>
      OBVIOUS
    <3> QED
      BY <1>1, <2>2, <3>1, CodeAdded
  <2>4. Append(<<y>>, x) = <<y, x>>
    <3>1. <<y>> \o <<x>> = <<y, x>>
      BY <2>2, Pairs
    <3> QED
      BY <2>3, <3>1, AppendIsConcat
  <2>5. Terminated(<<y, x>>) /\ <<y, x>> \in Seq(Instruction)
    BY <2>3, <2>4, CodeAdded
  <2> QED
    BY <2>1, <2>5
<1> QED
  BY <1>2, <1>3

LEMMA GenLoopCodes ==
  ASSUME NEW p, Building(p), NEW st \in States, Coding(st), GenLoop
  PROVE  Coding("away")'
<1>1. At("gen") /\ Head(todo).stmt.kind = "for"
  BY DEF GenLoop, Generates
<1>2. PICK s : s = Head(todo).stmt
  OBVIOUS
<1>3. s \in Stmt /\ Neat(s) /\ s.kind = "for"
  BY <1>1, <1>2, StatementCoding
<1>4. PICK awaited : awaited = Awaited(todo)
  OBVIOUS
<1>5. /\ blocks \in Seq(Plain) /\ Len(blocks) \in Nat
      /\ block \in 1 .. Len(blocks) /\ block \notin awaited
      /\ awaited \subseteq 1 .. Len(blocks) /\ Sorted(blocks, awaited \cup {block})
  BY <1>1, <1>4, StatementCoding
<1>6. PICK condition \in Nat, do \in Nat, merge \in Nat :
        condition = Len(blocks) + 1 /\ do = Len(blocks) + 2 /\ merge = Len(blocks) + 3
  BY <1>5
<1>7. PICK list : list = s.parts[1]
  OBVIOUS
<1>8. list \in Statements /\ Listed(list, ~FALSE)
  <2>1. list \in Statements /\ Listed(list, TRUE)
    BY <1>3, <1>7, FirstListed
  <2> QED
    BY <2>1
<1>9. PICK items :
        items = <<Enter(do)>> \o Body(list) \o <<Leave(condition, FALSE), MoveTo(merge)>>
  BY Zenon
<1>10. do # 0 /\ merge # 0 /\ merge # do
  BY <1>5, <1>6
<1>11. Piece(items, Enter(do), MoveTo(merge), {do, merge})
  BY <1>6, <1>8, <1>9, <1>10, ScopeMovePiece, Zenon
<1>12. /\ Before(Enter(do)) = {"away", "returned"} /\ Enter(do).op = "enter"
       /\ After(MoveTo(merge)) = "open"
  BY <1>10, MoveFacts
<1>13. Then(items)
  BY <1>2, <1>6, <1>7, <1>9, Zenon DEF GenLoop
<1>14. PICK branched, y : /\ branched = Appended(WithBlocks(3), Br(condition))
                          /\ y = CondBr(s.name, do, merge)
  OBVIOUS
<1>15. blocks' = Coded(branched, condition, <<y>>) /\ UNCHANGED deferring
  BY <1>2, <1>6, <1>14, Zenon DEF GenLoop, Coded
<1>16. PICK live : live = awaited \cup (Len(blocks) + 1 .. Len(blocks) + 3)
  OBVIOUS
<1>17. branched \in Seq(Plain) /\ Len(branched) = Len(blocks) + 3 /\ Sorted(branched, live)
  <2>1. Br(condition) \in Instruction /\ Br(condition).op \in Terminators
    BY InstructionsTyped DEF Br, Terminators
  <2>2. PICK k \in Nat : k = 3
    OBVIOUS
  <2> QED
    BY <1>5, <1>14, <1>16, <2>1, <2>2, BlocksOpened
<1>18. <<y>> \in Seq(Instruction) /\ Terminated(<<y>>)
  <2>1. y \in Instruction /\ y.op \in Terminators
    BY <1>3, <1>14, StmtFields, InstructionsTyped DEF CondBr, Terminators
  <2> QED
    BY <2>1, TerminatedCodes
<1>19. Len(blocks') = Len(blocks) + 3 /\ Sorted(blocks', live \ {condition})
  <2>1. condition \in 1 .. Len(branched)
    BY <1>5, <1>6, <1>17
  <2> QED
    BY <1>15, <1>17, <1>18, <2>1, SortedCoded
<1>20. live \ {condition} = {do, merge} \cup awaited
  BY <1>5, <1>6, <1>16
<1>21. {do, merge} \subseteq Len(blocks) + 1 .. Len(blocks')
  BY <1>5, <1>6, <1>19
<1> QED
  BY <1>1, <1>3, <1>2, <1>4, <1>11, <1>12, <1>13, <1>15, <1>19, <1>20, <1>21, GoesOn

LEMMA GenRangeLoopCodes ==
  ASSUME NEW p, Building(p), NEW st \in States, Coding(st), GenRangeLoop
  PROVE  Coding("away")'
<1>1. At("gen") /\ Head(todo).stmt.kind = "in"
  BY DEF GenRangeLoop, Generates
<1>2. PICK s : s = Head(todo).stmt
  OBVIOUS
<1>3. s \in Stmt /\ Neat(s) /\ s.kind = "in"
  BY <1>1, <1>2, StatementCoding
<1>4. PICK awaited : awaited = Awaited(todo)
  OBVIOUS
<1>5. /\ blocks \in Seq(Plain) /\ Len(blocks) \in Nat
      /\ block \in 1 .. Len(blocks) /\ block \notin awaited
      /\ awaited \subseteq 1 .. Len(blocks) /\ Sorted(blocks, awaited \cup {block})
  BY <1>1, <1>4, StatementCoding
<1>6. PICK init \in Nat, condition \in Nat, do \in Nat, merge \in Nat, increment \in Nat :
        /\ init = Len(blocks) + 1 /\ condition = Len(blocks) + 2 /\ do = Len(blocks) + 3
        /\ merge = Len(blocks) + 4 /\ increment = Len(blocks) + 5
  BY <1>5
<1>7. PICK list : list = s.parts[1]
  OBVIOUS
<1>8. list \in Statements /\ Listed(list, ~FALSE)
  <2>1. list \in Statements /\ Listed(list, TRUE)
    BY <1>3, <1>7, FirstListed
  <2> QED
    BY <2>1
<1>9. PICK items :
        items = <<Enter(do)>> \o Body(list) \o <<Leave(increment, FALSE), MoveTo(merge)>>
  BY Zenon
<1>10. do # 0 /\ merge # 0 /\ merge # do
  BY <1>5, <1>6
<1>11. Piece(items, Enter(do), MoveTo(merge), {do, merge})
  BY <1>6, <1>8, <1>9, <1>10, ScopeMovePiece, Zenon
<1>12. /\ Before(Enter(do)) = {"away", "returned"} /\ Enter(do).op = "enter"
       /\ After(MoveTo(merge)) = "open"
  BY <1>10, MoveFacts
<1>13. Then(items)
  BY <1>2, <1>6, <1>7, <1>9, Zenon DEF GenRangeLoop
<1>14. PICK c0, c1, c2 : /\ c0 = <<Do("from"), Br(condition)>>
                         /\ c1 = <<CondBr(s.name, do, merge)>>
                         /\ c2 = <<Do("next"), Br(condition)>>
  OBVIOUS
<1>15. PICK b0, b1, b2, b3 : /\ b0 = Appended(WithBlocks(5), Br(init))
                             /\ b1 = Coded(b0, init, c0) /\ b2 = Coded(b1, condition, c1)
                             /\ b3 = Coded(b2, increment, c2)
  OBVIOUS
<1>16. blocks' = b3 /\ UNCHANGED deferring
  BY <1>2, <1>6, <1>14, <1>15 DEF GenRangeLoop, Coded
<1>17. PICK live : live = awaited \cup (Len(blocks) + 1 .. Len(blocks) + 5)
  OBVIOUS
<1>18. b0 \in Seq(Plain) /\ Len(b0) = Len(blocks) + 5 /\ Sorted(b0, live)
  <2>1. Br(init) \in Instruction /\ Br(init).op \in Terminators
    BY InstructionsTyped DEF Br, Terminators
  <2>2. PICK k \in Nat : k = 5
    OBVIOUS
  <2> QED
    BY <1>5, <1>15, <1>17, <2>1, <2>2, BlocksOpened
<1>19. /\ c0 \in Seq(Instruction) /\ Terminated(c0) /\ c1 \in Seq(Instruction)
       /\ Terminated(c1) /\ c2 \in Seq(Instruction) /\ Terminated(c2)
  <2>1. PICK x, y : x = Br(condition) /\ y = CondBr(s.name, do, merge)
    OBVIOUS
  <2>2. x \in Instruction /\ x.op \in Terminators
    BY <2>1, InstructionsTyped DEF Br, Terminators
  <2>3. y \in Instruction /\ y.op \in Terminators
    BY <1>3, <2>1, StmtFields, InstructionsTyped DEF CondBr, Terminators
  <2>4. "from" \in Name /\ "next" \in Name
    BY NameAssumption
  <2>5. /\ \A name \in Name : Terminated(<<Do(name), x>>) /\ <<Do(name), x>> \in Seq(Instruction)
        /\ Terminated(<<y>>)
    BY <2>2, <2>3, TerminatedCodes
  <2>7. <<y>> \in Seq(Instruction)
    BY <2>3
  <2>6. c0 = <<Do("from"), x>> /\ c2 = <<Do("next"), x>> /\ c1 = <<y>>
    BY <1>14, <2>1
  <2> QED
    BY <2>4, <2>5, <2>6, <2>7
<1>20. PICK l1, l2, l3 : /\ l1 = live \ {init} /\ l2 = l1 \ {condition}
                         /\ l3 = l2 \ {increment}
  OBVIOUS
<1>21. b1 \in Seq(Plain) /\ Len(b1) = Len(blocks) + 5 /\ Sorted(b1, l1)
  <2>1. init \in 1 .. Len(b0)
    BY <1>5, <1>6, <1>18
  <2> QED
    BY <1>15, <1>18, <1>19, <1>20, <2>1, SortedCoded
<1>22. b2 \in Seq(Plain) /\ Len(b2) = Len(blocks) + 5 /\ Sorted(b2, l2)
  <2>1. condition \in 1 .. Len(b1)
    BY <1>5, <1>6, <1>21
  <2> QED
    <3>1. Len(Coded(b1, condition, c1)) = Len(b1) /\ Coded(b1, condition, c1) \in Seq(Plain)
      BY <1>19, <1>21, <2>1, SortedCoded
    <3>2. Sorted(Coded(b1, condition, c1), l1 \ {condition})
      BY <1>19, <1>21, <2>1, SortedCoded
    <3> QED
      BY <1>15, <1>20, <1>21, <3>1, <3>2
<1>23. Len(b3) = Len(blocks) + 5 /\ Sorted(b3, l3)
  <2>1. increment \in 1 .. Len(b2)
    BY <1>5, <1>6, <1>22
  <2> QED
    <3>1. Len(Coded(b2, increment, c2)) = Len(b2)
      BY <1>19, <1>22, <2>1, SortedCoded
    <3>2. Sorted(Coded(b2, increment, c2), l2 \ {increment})
      BY <1>19, <1>22, <2>1, SortedCoded
    <3> QED
      BY <1>15, <1>20, <1>22, <3>1, <3>2
<1>24. l3 = {do, merge} \cup awaited
  BY <1>5, <1>6, <1>17, <1>20
<1>25. {do, merge} \subseteq Len(blocks) + 1 .. Len(blocks')
  BY <1>5, <1>6, <1>16, <1>23
<1> QED
  BY <1>1, <1>3, <1>2, <1>4, <1>11, <1>12, <1>13, <1>16, <1>23, <1>24, <1>25, GoesOn

LEMMA GenSwitchCodes ==
  ASSUME NEW p, Building(p), NEW st \in States, Coding(st), GenSwitch
  PROVE  Coding("open")'
<1>1. At("gen") /\ Head(todo).stmt.kind = "switch"
  BY DEF GenSwitch, Generates
<1>2. PICK s : s = Head(todo).stmt
  OBVIOUS
<1>3. /\ todo # <<>> /\ s \in Stmt /\ Neat(s) /\ Chained(todo) /\ Ends(todo)
      /\ NeatStack(defer_stack) /\ Head(todo).op = "gen"
      /\ Awaited(Tail(todo)) = Awaited(todo) /\ After(Head(todo)) = "open"
  BY <1>1, <1>2, StatementCoding
<1>4. PICK awaited : awaited = Awaited(todo)
  OBVIOUS
<1>5. /\ blocks \in Seq(Plain) /\ Len(blocks) \in Nat
      /\ block \in 1 .. Len(blocks) /\ block \notin awaited
      /\ awaited \subseteq 1 .. Len(blocks) /\ Sorted(blocks, awaited \cup {block})
  BY <1>1, <1>4, StatementCoding
<1>6. PICK merge \in Nat : merge = Len(blocks) + 1
  BY <1>5
<1>7. Tidy[s]
  <2>1. s.kind = "switch"
    BY <1>1, <1>2
  <2> QED
    BY <1>3, <2>1, Zenon DEF Neat
<1>8. PICK x : x = Case(s, <<>>, block, merge)
  OBVIOUS
<1>9. /\ x \in Item /\ Proper(x) /\ Opens(x) = merge /\ Before(x) = {"open"}
      /\ x.op = "case" /\ After(x) = "open" /\ x.parent = block
  <2>1. merge # 0 /\ <<>> \in Seq(Nat) /\ block \in Nat
    BY <1>5, <1>6
  <2>2. x \in Item
    BY <1>3, <1>8, <2>1, CaseItem
  <2>3. x.op = "case" /\ x.merge = merge /\ x.parent = block /\ x.stmt = s
    BY <1>8 DEF Case
  <2>4. Proper(x)
    BY <1>7, <2>1, <2>3, CaseFacts, Zenon
  <2> QED
    BY <2>2, <2>3, <2>4, CaseFacts
<1>10. Piece(<<x>>, x, x, {merge})
  <2>1. {merge} \ {0} = {merge}
    BY <1>5, <1>6
  <2> QED
    BY <1>9, <2>1, PieceOne
<1>11. /\ blocks' = WithBlocks(1) /\ UNCHANGED <<deferring, block, functions>> /\ Then(<<x>>)
  BY <1>2, <1>6, <1>8 DEF GenSwitch
<1>12. Sorted(blocks', {merge} \cup Awaited(Tail(todo)) \cup {block'})
  <2>1. PICK k \in Nat : k = 1
    OBVIOUS
  <2>2. Sorted(blocks', (awaited \cup {block}) \cup (Len(blocks) + 1 .. Len(blocks) + k))
    BY <1>5, <1>11, <2>1, BlocksBegun
  <2>3. (awaited \cup {block}) \cup (Len(blocks) + 1 .. Len(blocks) + k)
          = {merge} \cup Awaited(Tail(todo)) \cup {block'}
    BY <1>3, <1>4, <1>5, <1>6, <1>11, <2>1
  <2> QED
    BY <2>2, <2>3
<1>13. {merge} \cap Awaited(Tail(todo)) = {}
  BY <1>3, <1>4, <1>5, <1>6
<1>14. block' \notin {merge} \cup Awaited(Tail(todo))
  BY <1>3, <1>4, <1>5, <1>6, <1>11
<1>15. NeatStack(defer_stack)'
  BY <1>3, <1>11 DEF deferring, NeatStack
<1> QED
  BY <1>3, <1>9, <1>10, <1>11, <1>12, <1>13, <1>14, <1>15, Continued DEF States

(* A case is met in the block that the switch will be in; the blocks to come *)
(* are what is awaited after it, and what the switch is followed by.         *)
LEMMA CaseCoding ==
  ASSUME NEW p, Building(p), NEW st \in States, Coding(st), At("case")
  PROVE  LET c == Head(todo)
         IN /\ todo # <<>> /\ c.op = "case" /\ c.stmt \in Stmt /\ Tidy[c.stmt]
            /\ c.cases \in Seq(Nat) /\ c.merge \in Nat /\ c.merge # 0 /\ c.parent = block
            /\ c = Case(c.stmt, c.cases, c.parent, c.merge)
            /\ Chained(todo) /\ Ends(todo) /\ NeatStack(defer_stack) /\ After(c) = "open"
            /\ Awaited(todo) = {c.merge} \cup Awaited(Tail(todo))
            /\ c.merge \notin Awaited(Tail(todo))
            /\ blocks \in Seq(Plain) /\ Len(blocks) \in Nat
            /\ block \in 1 .. Len(blocks) /\ block \notin Awaited(todo)
            /\ Awaited(todo) \subseteq 1 .. Len(blocks)
            /\ Sorted(blocks, Awaited(todo) \cup {block})
<1>1. todo # <<>> /\ Head(todo).op = "case"
  BY DEF At
<1>2. /\ Chained(todo) /\ Ends(todo) /\ NeatStack(defer_stack)
      /\ st \in Before(Head(todo)) /\ Head(todo) \in Item /\ Proper(Head(todo))
      /\ block = Head(todo).parent
      /\ Awaited(todo) = ({Opens(Head(todo))} \ {0}) \cup Awaited(Tail(todo))
      /\ Opens(Head(todo)) \notin Awaited(Tail(todo))
  BY <1>1, CodingStep
<1>3. st = "open" /\ Opens(Head(todo)) = Head(todo).merge /\ After(Head(todo)) = "open"
  BY <1>1, <1>2 DEF Before, Opens, After
<1>4. Tidy[Head(todo).stmt] /\ Head(todo).merge # 0
  BY <1>1, <1>2, Zenon DEF Proper
<1>5. /\ Head(todo).stmt \in Stmt /\ Head(todo).cases \in Seq(Nat) /\ Head(todo).merge \in Nat
      /\ Head(todo) = Case(Head(todo).stmt, Head(todo).cases, Head(todo).parent, Head(todo).merge)
  BY <1>1, <1>2, ItemFields
<1>6. /\ blocks \in Seq(Plain) /\ Len(blocks) \in Nat
      /\ Awaited(todo) \subseteq 1 .. Len(blocks)
      /\ block \in 1 .. Len(blocks) /\ block \notin Awaited(todo)
      /\ Sorted(blocks, Live(st, block, todo))
  BY <1>3, CodingState
<1>7. Awaited(todo) = {Head(todo).merge} \cup Awaited(Tail(todo))
  BY <1>2, <1>3, <1>4
<1> QED
  BY <1>1, <1>2, <1>3, <1>4, <1>5, <1>6, <1>7 DEF Live

LEMMA GenCaseCodes ==
  ASSUME NEW p, Building(p), NEW st \in States, Coding(st), GenCase
  PROVE  Coding("away")'
<1>1. At("case")
  BY DEF GenCase
<1>2. PICK c : c = Head(todo)
  OBVIOUS
<1>3. /\ todo # <<>> /\ c.op = "case" /\ c.stmt \in Stmt /\ Tidy[c.stmt]
      /\ c.cases \in Seq(Nat) /\ c.merge \in Nat /\ c.merge # 0 /\ c.parent = block
      /\ c = Case(c.stmt, c.cases, c.parent, c.merge)
      /\ Chained(todo) /\ Ends(todo) /\ NeatStack(defer_stack) /\ After(c) = "open"
  BY <1>1, <1>2, CaseCoding
<1>4. PICK rest : rest = Awaited(Tail(todo))
  OBVIOUS
<1>5. /\ blocks \in Seq(Plain) /\ Len(blocks) \in Nat /\ c.merge \notin rest
      /\ block \in 1 .. Len(blocks) /\ block \notin {c.merge} \cup rest
      /\ {c.merge} \cup rest \subseteq 1 .. Len(blocks)
      /\ Sorted(blocks, ({c.merge} \cup rest) \cup {block})
  BY <1>1, <1>2, <1>4, CaseCoding
<1>6. PICK i \in {Len(c.cases) + 1}, new \in Nat : new = Len(blocks) + 1
  BY <1>5
<1>7. PICK list : list = c.stmt.parts[i]
  OBVIOUS
<1>8. list \in Statements /\ Listed(list, ~FALSE)
  <2>1. i \in 1 .. Len(c.stmt.parts)
    <3>1. i <= Len(c.stmt.parts) /\ i \in Nat /\ i # 0
      BY <1>2, <1>3, <1>6 DEF GenCase
    <3>2. Len(c.stmt.parts) \in Nat
      BY <1>3, StmtFields
    <3> QED
      BY <3>1, <3>2
  <2>2. list \in Statements /\ Listed(list, c.stmt.kind \notin {"block", "defer"})
    BY <1>3, <1>7, <2>1, TidyParts, Zenon
  <2> QED
    BY <2>2 DEF Listed
<1>9. PICK again : again = [c EXCEPT !.cases = Append(@, new)]
  OBVIOUS
<1>10. /\ again \in Item /\ Proper(again) /\ Opens(again) = c.merge /\ Before(again) = {"open"}
       /\ again.op = "case" /\ After(again) = "open" /\ again.parent = block
  <2>1. again = Case(c.stmt, Append(c.cases, new), block, c.merge)
    BY <1>3, <1>9 DEF Case
  <2>2. Append(c.cases, new) \in Seq(Nat) /\ block \in Nat
    BY <1>3, <1>5
  <2>3. again \in Item
    BY <1>3, <2>1, <2>2, CaseItem
  <2>4. /\ again.op = "case" /\ again.merge = c.merge /\ again.parent = block
        /\ again.stmt = c.stmt
    BY <2>1 DEF Case
  <2>5. Proper(again)
    BY <1>3, <2>4, CaseFacts, Zenon
  <2> QED
    BY <2>3, <2>4, <2>5, CaseFacts
<1>11. PICK items, back : /\ items = <<Enter(new)>> \o Body(list)
                                      \o <<Leave(c.merge, FALSE), back, again>>
                          /\ back = MoveTo(block)
  BY Zenon
<1>12. /\ back \in Item /\ back.op = "move" /\ back.to = block /\ After(back) = "open"
       /\ Before(Enter(new)) = {"away", "returned"} /\ Enter(new).op = "enter"
  <2>1. new # 0 /\ block # 0 /\ block \in Nat
    BY <1>5, <1>6
  <2> QED
    BY <1>11, <2>1, MoveFacts
<1>13. Piece(items, Enter(new), again, {new, block} \cup {c.merge})
  <2>1. PICK x : x = Leave(c.merge, FALSE)
    BY Zenon
  <2>2. x \in Item
    BY <1>3, <2>1, LeaveFacts, Zenon
  <2>3. PICK s : s = <<Enter(new)>> \o Body(list)
    OBVIOUS
  <2>4. Piece(s \o <<x, back>>, Enter(new), back, {new, block})
    <3>1. new # 0 /\ block # 0 /\ block \in Nat /\ block # new
      BY <1>5, <1>6
    <3> QED
      BY <1>3, <1>8, <1>11, <2>1, <2>3, <3>1, ScopeMovePiece, Zenon
  <2>5. Piece(<<again>>, again, again, {c.merge})
    <3>1. {c.merge} \ {0} = {c.merge}
      BY <1>3
    <3> QED
      BY <1>10, <3>1, PieceOne
  <2>6. Follows(back, again)
    BY <1>10, <1>12 DEF Follows
  <2>7. {new, block} \cap {c.merge} = {}
    BY <1>5, <1>6
  <2>8. Piece((s \o <<x, back>>) \o <<again>>, Enter(new), again, {new, block} \cup {c.merge})
    BY <2>4, <2>5, <2>6, <2>7, PiecesJoined
  <2>9. (s \o <<x, back>>) \o <<again>> = s \o <<x, back, again>>
    <3>1. s \in Seq(Item)
      <4>1. <<Enter(new)>> \in Seq(Item)
        BY ScopeItems
      <4> QED
        BY <1>8, <2>3, <4>1, BodyItems, ConcatProperties
    <3>2. /\ <<x, back>> \in Seq(Item) /\ <<again>> \in Seq(Item)
          /\ <<x, back>> \o <<again>> = <<x, back, again>>
      BY <1>10, <1>12, <2>2, Pairs, Triples
    <3> QED
      BY <3>1, <3>2, ConcatAssociative
  <2> QED
    BY <1>11, <2>1, <2>3, <2>8, <2>9, Zenon
<1>14. Then(items)
  BY <1>2, <1>3, <1>6, <1>7, <1>9, <1>11, Zenon DEF GenCase
<1>15. blocks' = WithBlocks(1) /\ UNCHANGED <<deferring, block, functions>>
  BY DEF GenCase
<1>16. PICK opened : opened = {new, block} \cup {c.merge}
  OBVIOUS
<1>17. Sorted(blocks', opened \cup rest \cup {})
  <2>1. PICK k \in Nat : k = 1
    OBVIOUS
  <2>2. Sorted(blocks', (({c.merge} \cup rest) \cup {block}) \cup (Len(blocks) + 1 .. Len(blocks) + k))
    BY <1>5, <1>15, <2>1, BlocksBegun
  <2>3. (({c.merge} \cup rest) \cup {block}) \cup (Len(blocks) + 1 .. Len(blocks) + k)
          = opened \cup rest \cup {}
    BY <1>5, <1>6, <1>16, <2>1
  <2> QED
    BY <2>2, <2>3
<1>18. opened \cap rest = {}
  BY <1>5, <1>6, <1>16
<1>19. NeatStack(defer_stack)'
  BY <1>3, <1>15 DEF deferring, NeatStack
<1> QED
  BY <1>2, <1>3, <1>4, <1>10, <1>12, <1>13, <1>14, <1>16, <1>17, <1>18, <1>19, Continued DEF States

LEMMA GenSwitchEndCodes ==
  ASSUME NEW p, Building(p), NEW st \in States, Coding(st), GenSwitchEnd
  PROVE  Coding("open")'
<1>1. At("case")
  BY DEF GenSwitchEnd
<1>2. PICK c : c = Head(todo)
  OBVIOUS
<1>3. /\ todo # <<>> /\ c.op = "case" /\ c.stmt \in Stmt
      /\ c.cases \in Seq(Nat) /\ c.merge \in Nat
      /\ Chained(todo) /\ Ends(todo) /\ NeatStack(defer_stack) /\ After(c) = "open"
  BY <1>1, <1>2, CaseCoding
<1>4. PICK rest, live : rest = Awaited(Tail(todo)) /\ live = ({c.merge} \cup rest) \cup {block}
  OBVIOUS
<1>5. /\ blocks \in Seq(Plain) /\ c.merge \notin rest
      /\ block \notin {c.merge} \cup rest /\ Sorted(blocks, live)
  BY <1>1, <1>2, <1>4, CaseCoding
<1>6. PICK x : x = Switch(c.stmt.name, c.cases, c.merge)
  OBVIOUS
<1>7. x \in Instruction /\ x.op \in Terminators
  BY <1>3, <1>6, StmtFields, InstructionsTyped DEF Switch, Terminators
<1>8. /\ blocks' = Appended(blocks, x) /\ block' = c.merge /\ Then(<<>>)
      /\ UNCHANGED <<deferring, functions>>
  BY <1>2, <1>6 DEF GenSwitchEnd
<1>9. Sorted(blocks', rest \cup {block'})
  <2>1. block \in live /\ live \ {block} = rest \cup {block'}
    BY <1>4, <1>5, <1>8
  <2>2. Sorted(blocks', live \ {block})
    BY <1>5, <1>7, <1>8, <2>1, SortedAppended
  <2> QED
    BY <2>1, <2>2
<1>10. NeatStack(defer_stack)'
  BY <1>3, <1>8 DEF deferring, NeatStack
<1> QED
  BY <1>2, <1>3, <1>4, <1>5, <1>8, <1>9, <1>10, Finished DEF States
-------------------------------------------------------------------------------
(* What ends functions and scopes.                                           *)
LEMMA MovedCodes ==
  ASSUME NEW p, Building(p), NEW st \in States, Coding(st), EnterScope \/ MoveBuilder
  PROVE  Coding("open")'
<1>1. todo # <<>> /\ Head(todo).op \in {"enter", "move"}
  BY DEF EnterScope, MoveBuilder, At
<1>2. PICK x, rest : x = Head(todo) /\ rest = Awaited(Tail(todo))
  OBVIOUS
<1>3. /\ Chained(todo) /\ Ends(todo) /\ NeatStack(defer_stack)
      /\ st \in Before(x) /\ Proper(x) /\ Opens(x) \notin rest
      /\ Awaited(todo) = ({Opens(x)} \ {0}) \cup rest
  BY <1>1, <1>2, CodingStep
<1>4. Opens(x) = x.to /\ x.to # 0 /\ Before(x) = {"away", "returned"} /\ After(x) = "open"
  BY <1>1, <1>2, <1>3 DEF Opens, Proper, Before, After
<1>5. Sorted(blocks, Live(st, block, todo))
  BY CodingState
<1>6. block' = x.to /\ Then(<<>>) /\ UNCHANGED <<defer_stack, blocks>>
  BY <1>2 DEF EnterScope, MoveBuilder, deferring
<1>7. Live(st, block, todo) = rest \cup {block'}
  BY <1>3, <1>4, <1>6 DEF Live
<1>8. NeatStack(defer_stack)' /\ Sorted(blocks', rest \cup {block'})
  BY <1>3, <1>5, <1>6, <1>7 DEF NeatStack
<1> QED
  BY <1>1, <1>2, <1>3, <1>4, <1>6, <1>8, Finished DEF States

LEMMA ResetScopeCodes ==
  ASSUME NEW p, Building(p), NEW st \in States, Coding(st), ResetScope
  PROVE  Coding("away")'
<1>1. todo # <<>> /\ Head(todo).op = "reset"
  BY DEF ResetScope, At
<1>2. PICK x, rest : x = Head(todo) /\ rest = Awaited(Tail(todo))
  OBVIOUS
<1>3. /\ Chained(todo) /\ Ends(todo) /\ NeatStack(defer_stack) /\ st \in Before(x)
      /\ Awaited(todo) = ({Opens(x)} \ {0}) \cup rest
  BY <1>1, <1>2, CodingStep
<1>4. Opens(x) = 0 /\ Before(x) = {"away", "returned"} /\ After(x) = "away"
  BY <1>1, <1>2 DEF Opens, Before, After
<1>5. Sorted(blocks, Live(st, block, todo))
  BY CodingState
<1>6. Then(<<>>) /\ UNCHANGED <<defer_stack, blocks, block>>
  BY DEF ResetScope
<1>7. Live(st, block, todo) = rest \cup {}
  BY <1>3, <1>4 DEF Live
<1>8. NeatStack(defer_stack)' /\ Sorted(blocks', rest \cup {})
  BY <1>3, <1>5, <1>6, <1>7 DEF NeatStack
<1> QED
  BY <1>1, <1>2, <1>3, <1>4, <1>6, <1>8, Finished DEF States

LEMMA FunctionDoneCodes ==
  ASSUME NEW p, Building(p), NEW st \in States, Coding(st), FunctionDone
  PROVE  \E next \in States : Coding(next)'
<1>1. todo # <<>> /\ Head(todo).op = "leavefunction"
  BY DEF FunctionDone, At
<1>2. PICK x, rest, next : /\ x = Head(todo) /\ rest = Awaited(Tail(todo))
                           /\ next = IF x.prev = 0 THEN "away" ELSE "open"
  OBVIOUS
<1>3. /\ Chained(todo) /\ Ends(todo) /\ NeatStack(defer_stack) /\ st \in Before(x)
      /\ Opens(x) \notin rest /\ Awaited(todo) = ({Opens(x)} \ {0}) \cup rest
  BY <1>1, <1>2, CodingStep
<1>4. Opens(x) = x.prev /\ Before(x) = {"away", "returned"} /\ After(x) = next /\ next \in States
  BY <1>1, <1>2 DEF Opens, Before, After, States
<1>5. Sorted(blocks, Live(st, block, todo))
  BY CodingState
<1>6. block' = x.prev /\ Then(<<>>) /\ UNCHANGED <<defer_stack, blocks>>
  BY <1>2 DEF FunctionDone
<1>7. Live(st, block, todo) = rest \cup (IF next = "open" THEN {block'} ELSE {})
  BY <1>2, <1>3, <1>4, <1>6 DEF Live
<1>8. /\ NeatStack(defer_stack)'
      /\ Sorted(blocks', rest \cup (IF next = "open" THEN {block'} ELSE {}))
  BY <1>3, <1>5, <1>6, <1>7 DEF NeatStack
<1>9. next # "returned" /\ (next = "open" => block' \notin rest)
  BY <1>2, <1>3, <1>4, <1>6
<1>10. Coding(next)'
  BY <1>1, <1>2, <1>3, <1>4, <1>6, <1>8, <1>9, Finished
<1> QED
  BY <1>4, <1>10

LEMMA EmitInstructionCodes ==
  ASSUME NEW p, Building(p), NEW st \in States, Coding(st), EmitInstruction
  PROVE  \E next \in States : Coding(next)'
<1>1. todo # <<>> /\ Head(todo).op = "emit"
  BY DEF EmitInstruction, At
<1>2. PICK x, rest : x = Head(todo) /\ rest = Awaited(Tail(todo))
  OBVIOUS
<1>3. /\ Chained(todo) /\ Ends(todo) /\ NeatStack(defer_stack) /\ st \in Before(x)
      /\ Proper(x) /\ x \in Item /\ Awaited(todo) = ({Opens(x)} \ {0}) \cup rest
  BY <1>1, <1>2, CodingStep
<1>4. PICK y, next : /\ y = x.instruction
                     /\ next = IF y.op = "return" THEN "returned" ELSE "away"
  OBVIOUS
<1>5. y \in Instruction /\ y.op \in Terminators /\ next \in States
  BY <1>1, <1>2, <1>3, <1>4, ItemFields DEF Proper, States
<1>6. st = "open" /\ Opens(x) = 0 /\ After(x) = next
  BY <1>1, <1>2, <1>3, <1>4 DEF Opens, Before, After
<1>7. PICK live : live = rest \cup {block}
  OBVIOUS
<1>8. /\ blocks \in Seq(Plain) /\ block \in 1 .. Len(blocks) /\ block \notin rest
      /\ Sorted(blocks, live) /\ block \in live /\ live \ {block} = rest
  <2>1. /\ blocks \in Seq(Plain) /\ block \in 1 .. Len(blocks) /\ block \notin Awaited(todo)
        /\ Sorted(blocks, Live(st, block, todo))
    BY <1>6, CodingState
  <2>2. Awaited(todo) = rest /\ Live(st, block, todo) = live
    BY <1>3, <1>6, <1>7 DEF Live
  <2> QED
    BY <1>7, <2>1, <2>2
<1>9. blocks' = Appended(blocks, y) /\ Then(<<>>) /\ UNCHANGED <<deferring, block, functions>>
  BY <1>2, <1>4 DEF EmitInstruction
<1>10. Sorted(blocks', rest) /\ blocks'[block].code = Append(blocks[block].code, y)
  <2>1. Sorted(blocks', live \ {block}) /\ blocks'[block].code = Append(blocks[block].code, y)
    BY <1>5, <1>8, <1>9, SortedAppended
  <2> QED
    BY <1>8, <2>1
<1>11. next = "returned" => block' # 0 /\ HasTerminator(block)'
  <2> HAVE next = "returned"
  <2>1. y.op = "return"
    BY <1>4
  <2>2. blocks[block].code \in Seq(Instruction)
    <3>1. blocks[block] \in Plain
      BY <1>8
    <3> QED
      BY <3>1 DEF Plain
  <2>3. PICK k, code : k = Len(blocks[block].code) + 1 /\ code = blocks'[block].code
    OBVIOUS
  <2>4. k \in DOMAIN code /\ code[k] = y
    BY <1>5, <1>10, <2>2, <2>3
  <2>5. block' = block /\ block # 0
    BY <1>8, <1>9 DEF deferring
  <2>6. code = blocks'[block'].code
    BY <2>3, <2>5
  <2> QED
    BY <2>1, <2>4, <2>5, <2>6 DEF HasTerminator
<1>12. NeatStack(defer_stack)'
  BY <1>3, <1>9 DEF deferring, NeatStack
<1>13. next # "open" /\ rest \cup (IF next = "open" THEN {block'} ELSE {}) = rest
  BY <1>4
<1>14. Coding(next)'
  BY <1>1, <1>2, <1>3, <1>5, <1>6, <1>9, <1>10, <1>11, <1>12, <1>13, Finished
<1> QED
  BY <1>5, <1>14

LEMMA InjectDeferCodes ==
  ASSUME NEW p, Building(p), NEW st \in States, Coding(st), InjectDefer
  PROVE  Coding("open")'
<1>1. todo # <<>> /\ Head(todo).op = "inject"
  BY DEF InjectDefer, At
<1>2. PICK x, rest : x = Head(todo) /\ rest = Awaited(Tail(todo))
  OBVIOUS
<1>3. /\ Chained(todo) /\ Ends(todo) /\ NeatStack(defer_stack) /\ st \in Before(x)
      /\ x \in Item /\ Awaited(todo) = ({Opens(x)} \ {0}) \cup rest
  BY <1>1, <1>2, CodingStep
<1>4. st = "open" /\ Opens(x) = 0 /\ After(x) = "open"
  BY <1>1, <1>2, <1>3 DEF Opens, Before, After
<1>5. block \notin rest /\ Sorted(blocks, rest \cup {block})
  <2>1. block \notin Awaited(todo) /\ Sorted(blocks, Live(st, block, todo))
    BY <1>4, CodingState
  <2>2. Awaited(todo) = rest /\ Live(st, block, todo) = rest \cup {block}
    BY <1>3, <1>4 DEF Live
  <2> QED
    BY <2>1, <2>2
<1>6. PICK i, min, n, items :
        /\ i = x.i /\ min = x.min /\ n = Len(defer_stack)
        /\ items = IF i > min THEN <<Gen(defer_stack[i]), Inject(i - 1, min)>> ELSE <<>>
  OBVIOUS
<1>7. i \in Nat /\ min \in Nat /\ n \in Nat /\ i <= n
  <2>1. PICK q \in Point : Fits(blocks, n, x, p, q)
    BY <1>1, <1>2, <1>6, HeadStep
  <2>2. i <= n
    BY <1>1, <1>2, <1>6, <2>1 DEF Fits
  <2>3. i \in Nat /\ min \in Nat /\ n \in Nat
    BY <1>1, <1>2, <1>3, <1>6, ItemFields, Lengths
  <2> QED
    BY <2>2, <2>3
<1>8. Then(items) /\ UNCHANGED <<deferring, blocks, block, functions>>
  BY <1>2, <1>6 DEF InjectDefer
<1>9. NeatStack(defer_stack)' /\ Sorted(blocks', rest \cup {block'}) /\ block' \notin rest
  BY <1>3, <1>5, <1>8 DEF deferring, NeatStack
<1>10. CASE i > min
  <2>1. i \in 1 .. n /\ i - 1 \in Nat
    BY <1>7, <1>10
  <2>2. PICK s : s = defer_stack[i]
    OBVIOUS
  <2>3. s \in Stmt /\ Neat(s) /\ s.kind # "return"
    BY <1>3, <1>6, <2>1, <2>2 DEF Building, Deferred, Statements, NeatStack
  <2>4. PICK u, v : u = Gen(s) /\ v = Inject(i - 1, min)
    OBVIOUS
  <2>5. /\ u \in Item /\ Proper(u) /\ Opens(u) = 0 /\ Before(u) = {"open"} /\ u.op = "gen"
        /\ After(u) = "open"
    BY <2>3, <2>4, GenFacts
  <2>6. /\ v \in Item /\ Proper(v) /\ Opens(v) = 0 /\ Before(v) = {"open"} /\ v.op = "inject"
        /\ After(v) = "open"
    BY <1>7, <2>1, <2>4, InjectFacts
  <2>7. Piece(<<u, v>>, u, v, {})
    <3>1. Follows(u, v)
      BY <2>5, <2>6 DEF Follows
    <3>2. Piece(<<u, v>>, u, v, {Opens(u), Opens(v)} \ {0})
      BY <2>5, <2>6, <3>1, PieceTwo
    <3>3. {Opens(u), Opens(v)} \ {0} = {}
      BY <2>5, <2>6
    <3> QED
      BY <3>2, <3>3
  <2>8. items = <<u, v>>
    BY <1>6, <1>10, <2>2, <2>4
  <2>9. {} \cap rest = {} /\ {} \cup rest = rest
    OBVIOUS
  <2> QED
    BY <1>1, <1>2, <1>3, <1>4, <1>8, <1>9, <2>5, <2>6, <2>7, <2>8, <2>9, Continued DEF States
<1>11. CASE ~(i > min)
  <2>1. Then(<<>>)
    BY <1>6, <1>8, <1>11
  <2> QED
    BY <1>1, <1>2, <1>3, <1>4, <1>9, <2>1, Finished DEF States
<1> QED
  BY <1>10, <1>11

LEMMA InjectedThen ==
  ASSUME NEW i \in Nat, NEW min \in Nat, NEW x \in Instruction, x.op \in Terminators,
         NEW z \in Item, Proper(z), z.op # "case", {"away", "returned"} \subseteq Before(z)
  PROVE  Piece(<<Inject(i, min), Emit(x)>> \o <<z>>, Inject(i, min), z, {Opens(z)} \ {0})
<1>1. Piece(<<Inject(i, min), Emit(x)>>, Inject(i, min), Emit(x), {})
  BY InjectedPiece
<1>2. Piece(<<z>>, z, z, {Opens(z)} \ {0})
  BY PieceOne
<1>3. After(Emit(x)) \in {"away", "returned"}
  <2>1. After(Emit(x)) = IF x.op = "return" THEN "returned" ELSE "away"
    BY EmitFacts
  <2> QED
    BY <2>1
<1>4. Follows(Emit(x), z)
  BY <1>3 DEF Follows
<1>5. {} \cap ({Opens(z)} \ {0}) = {} /\ {} \cup ({Opens(z)} \ {0}) = {Opens(z)} \ {0}
  OBVIOUS
<1>6. Piece(<<Inject(i, min), Emit(x)>> \o <<z>>, Inject(i, min), z, {} \cup ({Opens(z)} \ {0}))
  BY <1>1, <1>2, <1>4, <1>5, PiecesJoined
<1> QED
  BY <1>5, <1>6

(* Whether there is a return decides whether the end of a scope or function  *)
(* is met in an open block: what is done there is up to z, which takes the   *)
(* place of the end.                                                         *)
LEMMA EndCodes ==
  ASSUME NEW p, Building(p), NEW st \in States, Coding(st), todo # <<>>,
         st \in {"open", "returned"}, Head(todo).op \notin {"move", "case"},
         UNCHANGED <<deferring, blocks, block, functions>>,
         NEW x \in Instruction, x.op \in Terminators,
         NEW z \in Item, Proper(z), z.op # "case", Before(z) = {"away", "returned"},
         Opens(z) = Opens(Head(todo)), After(z) = After(Head(todo)),
         NEW front, Then(front \o <<z>>),
         front = IF st = "returned" THEN <<>>
                 ELSE <<Inject(defer_stack_len, defer_local_boundary), Emit(x)>>
  PROVE  Coding(st)'
<1>1. PICK rest, opened : rest = Awaited(Tail(todo)) /\ opened = {Opens(z)} \ {0}
  OBVIOUS
<1>2. /\ Chained(todo) /\ Ends(todo) /\ NeatStack(defer_stack)
      /\ Awaited(todo) = opened \cup rest /\ opened \cap rest = {}
  BY <1>1, CodingStep
<1>3. PICK i \in Nat, min \in Nat : i = defer_stack_len /\ min = defer_local_boundary
  BY DEF Building, Deferred
<1>4. PICK y : /\ Piece(front \o <<z>>, y, z, opened) /\ st \in Before(y) /\ y.op # "case"
  <2>1. CASE st = "returned"
    <3>1. Piece(<<z>>, z, z, opened)
      BY <1>1, PieceOne
    <3>2. <<>> \o <<z>> = <<z>>
      OBVIOUS
    <3>3. front \o <<z>> = <<z>>
      BY <2>1, <3>2
    <3> QED
      BY <2>1, <3>1, <3>3
  <2>2. CASE st = "open"
    <3>1. front = <<Inject(i, min), Emit(x)>>
      BY <1>3, <2>2
    <3>2. Piece(front \o <<z>>, Inject(i, min), z, opened)
      BY <1>1, <3>1, InjectedThen
    <3>3. Before(Inject(i, min)) = {"open"} /\ Inject(i, min).op = "inject"
      BY InjectFacts
    <3> QED
      BY <2>2, <3>2, <3>3
  <2> QED
    BY <2>1, <2>2
<1>5. NeatStack(defer_stack)'
  BY <1>2 DEF deferring, NeatStack
<1>6. Sorted(blocks', opened \cup rest \cup (IF st = "open" THEN {block'} ELSE {}))
  <2>1. Sorted(blocks, Live(st, block, todo))
    BY CodingState
  <2>2. Live(st, block, todo) = opened \cup rest \cup (IF st = "open" THEN {block'} ELSE {})
    BY <1>2 DEF Live
  <2> QED
    BY <2>1, <2>2
<1>7. st = "open" => block' \notin opened \cup rest
  <2>1. st = "open" => block \notin Awaited(todo)
    BY CodingState
  <2> QED
    BY <1>2, <2>1
<1>8. st = "returned" => block' # 0 /\ HasTerminator(block)'
  BY DEF Coding, HasTerminator
<1> QED
  BY <1>1, <1>2, <1>4, <1>5, <1>6, <1>7, <1>8, Continued

LEMMA EndScopeCodes ==
  ASSUME NEW p, Building(p), NEW st \in States, Coding(st), EndScope
  PROVE  Coding(st)'
<1>1. todo # <<>> /\ Head(todo).op = "leave"
  BY DEF EndScope, At
<1>2. PICK end : end = Head(todo)
  OBVIOUS
<1>3. st \in Before(end) /\ end \in Item
  BY <1>1, <1>2, CodingStep
<1>4. Opens(end) = 0 /\ After(end) = "away"
  BY <1>1, <1>2 DEF Opens, After
<1>5. st \in (IF end.always THEN {"open"} ELSE {"open", "returned"})
  BY <1>1, <1>2, <1>3, Zenon DEF Before
<1>6. st \in {"open", "returned"} /\ (st = "returned" => ~end.always)
  BY <1>5, Zenon
<1>7. (HasTerminator(block) /\ ~end.always) <=> st = "returned"
  <2>1. st = "open" => ~HasTerminator(block)
    BY CodingState
  <2>2. st = "returned" => HasTerminator(block)
    BY CodingState
  <2> QED
    BY <1>6, <2>1, <2>2, Zenon
<1>8. PICK x : x = Br(end.to)
  OBVIOUS
<1>9. x \in Instruction /\ x.op \in Terminators
  <2>1. end.to \in Nat
    BY <1>1, <1>2, <1>3, ItemFields
  <2> QED
    BY <1>8, <2>1, InstructionsTyped DEF Br, Terminators
<1>10. PICK front : front = IF st = "returned" THEN <<>>
                 ELSE <<Inject(defer_stack_len, defer_local_boundary), Emit(x)>>
  OBVIOUS
<1>11. UNCHANGED <<deferring, blocks, block, functions>>
  BY DEF EndScope
<1>12. Then(front \o <<Reset>>)
  <2>1. Then((IF HasTerminator(block) /\ ~end.always THEN <<>>
              ELSE <<Inject(defer_stack_len, defer_local_boundary), Emit(x)>>)
             \o <<Reset>>)
    BY <1>2, <1>8, Zenon DEF EndScope
  <2> QED
    BY <1>7, <1>10, <2>1, Zenon
<1> QED
  BY <1>1, <1>2, <1>4, <1>6, <1>9, <1>10, <1>11, <1>12, ResetFacts, EndCodes

LEMMA EndFunctionBodyCodes ==
  ASSUME NEW p, Building(p), NEW st \in States, Coding(st), EndFunctionBody
  PROVE  Coding(st)'
<1>1. todo # <<>> /\ Head(todo).op = "endfunction"
  BY DEF EndFunctionBody, At
<1>2. PICK end : end = Head(todo)
  OBVIOUS
<1>3. st \in Before(end) /\ end \in Item
  BY <1>1, <1>2, CodingStep
<1>4. /\ Opens(end) = end.prev /\ After(end) = (IF end.prev = 0 THEN "away" ELSE "open")
      /\ st \in {"open", "returned"}
  BY <1>1, <1>2, <1>3 DEF Opens, After, Before
<1>5. HasTerminator(block) <=> st = "returned"
  BY <1>4, CodingState
<1>6. PICK x : x = Return("void")
  OBVIOUS
<1>7. x \in Instruction /\ x.op \in Terminators
  BY <1>6, InstructionsTyped, NameAssumption DEF Return, Terminators
<1>8. PICK z : z = LeaveFunction(end.prev)
  OBVIOUS
<1>9. /\ z \in Item /\ Proper(z) /\ Opens(z) = end.prev /\ Before(z) = {"away", "returned"}
      /\ z.op = "leavefunction" /\ After(z) = IF end.prev = 0 THEN "away" ELSE "open"
  <2>1. end.prev \in Nat
    BY <1>1, <1>2, <1>3, ItemFields
  <2> QED
    BY <1>8, <2>1, FunctionFacts
<1>10. PICK front : front = IF st = "returned" THEN <<>>
                 ELSE <<Inject(defer_stack_len, defer_local_boundary), Emit(x)>>
  OBVIOUS
<1>11. UNCHANGED <<deferring, blocks, block, functions>>
  BY DEF EndFunctionBody
<1>12. Then(front \o <<z>>)
  <2>1. Then((IF HasTerminator(block) THEN <<>>
              ELSE <<Inject(defer_stack_len, defer_local_boundary), Emit(x)>>)
             \o <<z>>)
    BY <1>2, <1>6, <1>8, Zenon DEF EndFunctionBody
  <2> QED
    BY <1>5, <1>10, <2>1, Zenon
<1> QED
  BY <1>1, <1>2, <1>4, <1>7, <1>9, <1>10, <1>11, <1>12, EndCodes
-------------------------------------------------------------------------------
(* A function whose body is tidy.                                            *)
LEMMA FunctionListed ==
  ASSUME NEW list \in Statements, TidyBody(list)
  PROVE  Listed(list, TRUE)
<1>1. DOMAIN list = 1 .. Len(list)
  BY DEF Statements
<1>2. \A i \in 1 .. Len(list) : Tidy[list[i]] /\ (list[i].kind = "return" => i = Len(list))
  BY <1>1, Zenon DEF TidyBody
<1> QED
  BY <1>2, Zenon DEF Listed, Neat

LEMMA FunctionBegun ==
  ASSUME NEW p, Building(p), GenFunction, AllTidy'
  PROVE  /\ todo # <<>> /\ UNCHANGED deferring
         /\ \E items, y, z : /\ Piece(items, y, z, {block} \ {0}) /\ Then(items)
                             /\ "open" \in Before(y) /\ y.op # "case"
                             /\ After(z) = IF block = 0 THEN "away" ELSE "open"
         /\ block' = Len(blocks) + 1 /\ Len(blocks) \in Nat
         /\ blocks \in Seq(Plain)
         /\ \E owner \in Nat : blocks' = Extended(blocks, 1, owner)
<1>1. At("gen") /\ Head(todo).stmt.kind = "function"
  BY DEF GenFunction, Generates
<1>2. PICK s, list : s = Head(todo).stmt /\ list = s.parts[1]
  OBVIOUS
<1>3. todo # <<>> /\ list \in Statements
  <2>1. todo # <<>> /\ s \in Stmt
    BY <1>1, <1>2, StatementStep
  <2> QED
    BY <1>1, <1>2, <2>1, StmtFields
<1>4. PICK f \in Nat : f = Len(functions) + 1
  BY Lengths
<1>5. /\ blocks' = Append(blocks, Fresh(f)) /\ block' = Len(blocks) + 1
      /\ functions' = Append(functions, [entry |-> Len(blocks) + 1, body |-> list])
      /\ Then(Body(list) \o <<EndFunction(block)>>) /\ UNCHANGED deferring
  BY <1>2, <1>4 DEF GenFunction
<1>6. /\ GoodBlocks(blocks, Len(functions)) /\ functions \in Seq(GeneratedFunction)
      /\ block \in Nat /\ Len(blocks) \in Nat
  BY DEF Building, Generation, GoodBlocks
<1>7. blocks' = Extended(blocks, 1, f)
  BY <1>5, <1>6, OneAdded
<1>8. blocks \in Seq(Plain)
  <2>1. Block(Len(functions)) \subseteq Plain
    BY <1>6 DEF Block, Plain, GoodBlocks
  <2>2. blocks \in Seq(Block(Len(functions)))
    BY <1>6 DEF GoodBlocks
  <2> QED
    BY <2>1, <2>2
<1>9. TidyBody(list)
  <2>1. PICK new : new = [entry |-> Len(blocks) + 1, body |-> list]
    OBVIOUS
  <2>2. f \in DOMAIN functions' /\ functions'[f] = new
    BY <1>4, <1>5, <1>6, <2>1
  <2>3. TidyBody(functions'[f].body)
    BY <2>2 DEF AllTidy
  <2>4. functions'[f].body = list
    BY <2>1, <2>2
  <2> QED
    BY <2>3, <2>4
<1>10. PICK z : z = EndFunction(block)
  OBVIOUS
<1>11. /\ z \in Item /\ Proper(z) /\ Opens(z) = block /\ Before(z) = {"open", "returned"}
       /\ z.op = "endfunction" /\ After(z) = IF block = 0 THEN "away" ELSE "open"
  BY <1>6, <1>10, FunctionFacts
<1>12. PICK y : /\ Piece(Body(list) \o <<z>>, y, z, {Opens(z)} \ {0})
                /\ "open" \in Before(y) /\ y.op # "case"
  <2>1. Listed(list, TRUE)
    BY <1>3, <1>9, FunctionListed
  <2>2. PICK returns \in BOOLEAN : returns = TRUE
    OBVIOUS
  <2> QED
    BY <1>3, <1>11, <2>1, <2>2, BodyThen
<1> QED
  BY <1>3, <1>4, <1>5, <1>6, <1>7, <1>8, <1>10, <1>11, <1>12

LEMMA GenFunctionCodes ==
  ASSUME NEW p, Building(p), NEW st \in States, Coding(st), GenFunction, AllTidy'
  PROVE  Coding("open")'
<1>1. At("gen") /\ Head(todo).stmt.kind # "return"
  BY DEF GenFunction, Generates
<1>2. /\ todo # <<>> /\ Chained(todo) /\ Ends(todo) /\ NeatStack(defer_stack)
      /\ Head(todo).op = "gen" /\ Awaited(Tail(todo)) = Awaited(todo)
      /\ After(Head(todo)) = "open" /\ Len(blocks) \in Nat
      /\ block \in 1 .. Len(blocks) /\ block \notin Awaited(todo)
      /\ Awaited(todo) \subseteq 1 .. Len(blocks)
      /\ Sorted(blocks, Awaited(todo) \cup {block})
  BY <1>1, StatementCoding
<1>3. PICK rest : rest = Awaited(Tail(todo))
  OBVIOUS
<1>4. {block} \ {0} = {block}
  BY <1>2
<1>5. PICK items, y, z : /\ Piece(items, y, z, {block}) /\ Then(items)
                         /\ "open" \in Before(y) /\ y.op # "case" /\ After(z) = "open"
  BY <1>2, <1>4, FunctionBegun
<1>6. block' = Len(blocks) + 1 /\ UNCHANGED deferring /\ blocks \in Seq(Plain)
  BY FunctionBegun
<1>7. PICK owner \in Nat : blocks' = Extended(blocks, 1, owner)
  BY FunctionBegun
<1>8. Sorted(blocks', {block} \cup rest \cup {block'})
  <2>1. PICK k \in Nat : k = 1
    OBVIOUS
  <2>2. Sorted(blocks', (rest \cup {block}) \cup (Len(blocks) + 1 .. Len(blocks) + k))
    BY <1>2, <1>3, <1>6, <1>7, <2>1, SortedExtended
  <2>3. (rest \cup {block}) \cup (Len(blocks) + 1 .. Len(blocks) + k)
          = {block} \cup rest \cup {block'}
    BY <1>2, <1>6, <2>1
  <2> QED
    BY <2>2, <2>3
<1>9. {block} \cap rest = {} /\ block' \notin {block} \cup rest
  BY <1>2, <1>3, <1>6
<1>10. NeatStack(defer_stack)'
  BY <1>2, <1>6 DEF deferring, NeatStack
<1> QED
  BY <1>2, <1>3, <1>5, <1>8, <1>9, <1>10, Continued DEF States

(* The first function.                                                       *)
LEMMA FirstFunctionCodes ==
  ASSUME NEW p, Building(p), Begins, GenFunction, AllTidy'
  PROVE  Coding("open")'
<1>1. PICK s \in Stmt : todo = <<Gen(s)>>
  BY DEF Begins
<1>2. blocks = <<>> /\ block = 0 /\ defer_stack = <<>>
  BY DEF Begins
<1>3. PICK items, y, z : /\ Piece(items, y, z, {block} \ {0}) /\ Then(items)
                         /\ "open" \in Before(y) /\ y.op # "case" /\ After(z) = "away"
  BY <1>2, FunctionBegun
<1>4. /\ Chained(items) /\ items # <<>> /\ items[1] = y /\ items[Len(items)] = z
      /\ Awaited(items) = {} /\ items \in Seq(Item)
  <2>1. {block} \ {0} = {}
    BY <1>2
  <2> QED
    BY <1>3, <2>1 DEF Piece, Chained
<1>5. todo' = items
  <2>1. Tail(todo) = <<>>
    BY <1>1
  <2>2. items \o <<>> = items
    BY <1>4
  <2> QED
    BY <1>3, <2>1, <2>2 DEF Then
<1>6. block' = 1 /\ UNCHANGED deferring /\ blocks \in Seq(Plain)
  BY <1>2, FunctionBegun
<1>7. PICK owner \in Nat : blocks' = Extended(blocks, 1, owner)
  BY FunctionBegun
<1>8. Sorted(blocks', {} \cup {block'})
  <2>1. PICK k \in Nat : k = 1
    OBVIOUS
  <2>2. Sorted(blocks, {})
    BY <1>2 DEF Sorted
  <2>3. Sorted(blocks', {} \cup (Len(blocks) + 1 .. Len(blocks) + k))
    BY <1>6, <1>7, <2>1, <2>2, SortedExtended
  <2>4. Len(blocks) + 1 .. Len(blocks) + k = {block'}
    BY <1>2, <1>6, <2>1
  <2> QED
    BY <2>3, <2>4
<1>9. Ends(items) /\ Meets("open", block', items)
  BY <1>3, <1>4 DEF Ends, Meets, States
<1>10. NeatStack(defer_stack)'
  BY <1>2, <1>6 DEF deferring, NeatStack
<1>11. Sorted(blocks', Live("open", block', items))
  BY <1>4, <1>8 DEF Live
<1> QED
  BY <1>4, <1>5, <1>9, <1>10, <1>11 DEF Coding

(* Functions are only added.                                                 *)
LEMMA StillTidy ==
  ASSUME NEW p, Building(p), [Next]_vars, AllTidy'
  PROVE  AllTidy
<1>1. functions \in Seq(GeneratedFunction)
  BY DEF Building, Generation
<1>2. CASE GenFunction
  <2>1. PICK new : functions' = Append(functions, new)
    BY <1>2 DEF GenFunction
  <2>2. \A f \in DOMAIN functions : f \in DOMAIN functions' /\ functions'[f] = functions[f]
    BY <1>1, <2>1
  <2> QED
    BY <2>2 DEF AllTidy
<1>3. CASE ~GenFunction
  <2>1. functions' = functions
    BY <1>3 DEF Next, vars, GenExpression, GenNothing, GenDefer, GenReturn, GenBlock, GenIf,
       GenLoop, GenRangeLoop, GenSwitch, GenCase, GenSwitchEnd, EndFunctionBody,
       FunctionDone, EnterScope, EndScope, ResetScope, InjectDefer, EmitInstruction,
       MoveBuilder
  <2> QED
    BY <2>1 DEF AllTidy
<1> QED
  BY <1>2, <1>3

(* The first step generates a function.                                      *)
LEMMA FirstStep ==
  ASSUME Begins, Next
  PROVE  GenFunction
<1>1. PICK s \in Stmt : s.kind = "function" /\ todo = <<Gen(s)>>
  BY DEF Begins
<1>2. Head(todo).op = "gen" /\ Head(todo).stmt.kind = "function"
  BY <1>1 DEF Gen
<1> QED
  BY <1>2 DEF Next, At, Generates, GenExpression, GenNothing, GenDefer, GenReturn, GenBlock,
     GenIf, GenLoop, GenRangeLoop, GenSwitch, GenCase, GenSwitchEnd, EndFunctionBody,
     FunctionDone, EnterScope, EndScope, ResetScope, InjectDefer, EmitInstruction,
     MoveBuilder

LEMMA NextCodes ==
  ASSUME NEW p, Building(p), NEW st \in States, Coding(st), Next, AllTidy'
  PROVE  \E next \in States : Coding(next)'
<1>1. "open" \in States /\ "away" \in States
  BY DEF States
<1>2. CASE \/ GenExpression \/ GenNothing \/ GenDefer \/ GenReturn \/ GenSwitch
           \/ GenSwitchEnd \/ GenFunction \/ EnterScope \/ MoveBuilder \/ InjectDefer
  BY <1>1, <1>2, GenExpressionCodes, GenNothingCodes, GenDeferCodes, GenReturnCodes,
     GenSwitchCodes, GenSwitchEndCodes, GenFunctionCodes, MovedCodes, InjectDeferCodes
<1>3. CASE GenBlock \/ GenIf \/ GenLoop \/ GenRangeLoop \/ GenCase \/ ResetScope
  BY <1>1, <1>3, GenBlockCodes, GenIfCodes, GenLoopCodes, GenRangeLoopCodes, GenCaseCodes,
     ResetScopeCodes
<1>4. CASE EndFunctionBody \/ EndScope
  BY <1>4, EndFunctionBodyCodes, EndScopeCodes
<1>5. CASE FunctionDone \/ EmitInstruction
  BY <1>5, FunctionDoneCodes, EmitInstructionCodes
<1> QED
  BY <1>2, <1>3, <1>4, <1>5 DEF Next

LEMMA InitCompletes ==
  ASSUME Init
  PROVE  Completed
<1>1. PICK s \in Program : todo = <<Gen(s)>>
  BY DEF Init
<1>2. s \in Stmt /\ s.kind = "function"
  BY ProgramAssumption
<1> QED
  BY <1>1, <1>2 DEF Init, Completed, Begins

LEMMA NextCompletes ==
  ASSUME Built, Completed, [Next]_vars
  PROVE  Completed'
<1>1. PICK p : Building(p)
  BY DEF Built
<1>2. CASE UNCHANGED vars
  <2>1. /\ todo' = todo /\ defer_stack' = defer_stack /\ blocks' = blocks
        /\ block' = block /\ functions' = functions
    BY <1>2 DEF vars
  <2>2. Begins => Begins'
    BY <2>1 DEF Begins
  <2>3. ASSUME NEW st \in States, Coding(st)
        PROVE  Coding(st)'
    BY <2>1, <2>3 DEF Coding, HasTerminator
  <2>4. AllTidy' => AllTidy
    BY <2>1 DEF AllTidy
  <2> QED
    BY <2>2, <2>3, <2>4 DEF Completed
<1>3. CASE Next
  <2> SUFFICES ASSUME AllTidy'
               PROVE  \E st \in States : Coding(st)'
    BY DEF Completed
  <2>1. CASE Begins
    <3>1. Coding("open")'
      BY <1>1, <1>3, <2>1, FirstStep, FirstFunctionCodes
    <3> QED
      BY <3>1 DEF States
  <2>2. CASE ~Begins
    <3>1. AllTidy
      BY <1>1, <1>3, StillTidy
    <3>2. PICK st \in States : Coding(st)
      BY <2>2, <3>1 DEF Completed
    <3> QED
      BY <1>1, <1>3, <3>2, NextCodes
  <2> QED
    BY <2>1, <2>2
<1> QED
  BY <1>2, <1>3

THEOREM AlwaysCompleted == Spec => []Completed
<1>1. Init => Completed
  BY InitCompletes
<1>2. Built /\ Completed /\ [Next]_vars => Completed'
  BY NextCompletes
<1> QED
  BY <1>1, <1>2, AlwaysBuilt, PTL DEF Spec

(* Whatever is generated, a program in which a return ends its list, and the *)
(* list is not that of a block statement or deferred, has blocks with one    *)
(* terminator each, at their end: also those of loops and switches whose     *)
(* bodies return, and of functions in the middle of others.                  *)
THEOREM BlocksEndOnce == Spec => []OneTerminator
<1>1. Completed => OneTerminator
  <2> SUFFICES ASSUME Completed, todo = <<>>, AllTidy, NEW b \in DOMAIN blocks
               PROVE  Terminated(blocks[b].code)
    BY DEF OneTerminator, Generated
  <2>1. ~Begins
    BY DEF Begins
  <2>2. PICK st \in States : Coding(st)
    BY <2>1 DEF Completed
  <2>3. st = "away" /\ Sorted(blocks, Live(st, block, todo))
    BY <2>2 DEF Coding, Meets
  <2>4. Awaited(todo) = {}
    BY DEF Awaited
  <2>5. Live(st, block, todo) = {}
    BY <2>3, <2>4 DEF Live
  <2>6. b \in 1 .. Len(blocks)
    OBVIOUS
  <2> QED
    BY <2>3, <2>5, <2>6 DEF Sorted
<1> QED
  BY <1>1, AlwaysCompleted, PTL
-------------------------------------------------------------------------------
(* A function runs when all is generated, between instructions of its blocks. *)
InItsBlocks ==
  /\ at.block \in 1 .. Len(blocks) /\ blocks[at.block].owner = function
  /\ AllTidy => at.index \in 1 .. Len(Instructions(at.block))
  /\ returned => at.index \in 1 .. Len(Instructions(at.block)) /\ Current.op = "return"
Running ==
  /\ at \in [block : Nat, index : Nat \ {0}] /\ returned \in BOOLEAN
  /\ function = 0 => ~returned
  /\ function # 0 => Generated /\ InItsBlocks

LEMMA CodeTyped ==
  ASSUME NEW p, Building(p)
  PROVE  /\ blocks \in Seq(Plain) /\ Len(blocks) \in Nat
         /\ \A b \in 1 .. Len(blocks) : /\ Instructions(b) \in Seq(Instruction)
                                        /\ Stays(blocks, Instructions(b), blocks[b].owner)
<1>1. GoodBlocks(blocks, Len(functions))
  BY DEF Building, Generation
<1>2. blocks \in Seq(Plain)
  <2>1. Block(Len(functions)) \subseteq Plain
    BY <1>1 DEF Block, Plain, GoodBlocks
  <2>2. blocks \in Seq(Block(Len(functions)))
    BY <1>1 DEF GoodBlocks
  <2> QED
    BY <2>1, <2>2
<1>3. ASSUME NEW b \in 1 .. Len(blocks)
      PROVE  Instructions(b) \in Seq(Instruction)
  <2>1. blocks[b] \in Plain
    BY <1>2
  <2> QED
    BY <2>1 DEF Plain, Instructions
<1> QED
  BY <1>1, <1>2, <1>3 DEF GoodBlocks, Instructions

(* The beginning of a block.                                                 *)
LEMMA BlockBegins ==
  ASSUME NEW p, Building(p), OneTerminator, Generated, NEW b, NEW f, Owned(blocks, b, f),
         at' = To(b), function' = f, f # 0, returned' = FALSE, UNCHANGED vars
  PROVE  Running'
<1>1. b \in 1 .. Len(blocks) /\ blocks[b].owner = f /\ b \in Nat
  BY DEF Owned
<1>2. at' \in [block : Nat, index : Nat \ {0}] /\ at'.block = b /\ at'.index = 1
  BY <1>1 DEF To
<1>3. /\ blocks' = blocks /\ Generated' /\ (AllTidy' <=> AllTidy)
  BY DEF vars, Generated, AllTidy
<1>4. Instructions(b) \in Seq(Instruction) /\ Len(blocks) \in Nat
  BY <1>1, CodeTyped
<1>5. AllTidy => 1 \in 1 .. Len(Instructions(b))
  <2> HAVE AllTidy
  <2>1. b \in DOMAIN blocks
    BY <1>1, CodeTyped
  <2>2. Terminated(Instructions(b))
    BY <2>1 DEF OneTerminator, Instructions
  <2>3. Instructions(b) # <<>>
    BY <2>2 DEF Terminated
  <2> QED
    BY <1>4, <2>3
<1>6. Instructions(b)' = Instructions(b)
  BY <1>3 DEF Instructions
<1>7. Instructions(at.block)' = Instructions(b)
  BY <1>2, <1>3 DEF Instructions
<1> QED
  BY <1>1, <1>2, <1>3, <1>5, <1>7 DEF Running, InItsBlocks

LEMMA CurrentTyped ==
  ASSUME NEW p, Building(p), Running, NEW op, Runs(op)
  PROVE  /\ function # 0 /\ returned = FALSE /\ Generated /\ UNCHANGED <<vars, function>>
         /\ at.block \in 1 .. Len(blocks) /\ blocks[at.block].owner = function
         /\ at.index \in 1 .. Len(Instructions(at.block))
         /\ Current \in Instruction /\ Current.op = op
         /\ \A t \in DOMAIN Current.targets : Owned(blocks, Current.targets[t], function)
<1>1. /\ function # 0 /\ returned = FALSE /\ Generated /\ UNCHANGED <<vars, function>>
      /\ at.index <= Len(Instructions(at.block)) /\ Current.op = op
  BY DEF Runs, Running
<1>2. /\ at.block \in 1 .. Len(blocks) /\ blocks[at.block].owner = function
      /\ at.index \in Nat \ {0}
  BY <1>1 DEF Running, InItsBlocks
<1>3. /\ Instructions(at.block) \in Seq(Instruction)
      /\ Stays(blocks, Instructions(at.block), function)
  BY <1>2, CodeTyped
<1>4. at.index \in 1 .. Len(Instructions(at.block))
  BY <1>1, <1>2, <1>3
<1>5. Current \in Instruction
  BY <1>3, <1>4 DEF Current
<1>6. AllOwned(blocks, Current.targets, function)
  BY <1>3, <1>4 DEF Stays, Current
<1> QED
  BY <1>1, <1>2, <1>4, <1>5, <1>6 DEF AllOwned

LEMMA EffectRuns ==
  ASSUME NEW p, Building(p), OneTerminator, Running, Effect
  PROVE  Running'
<1>1. /\ function # 0 /\ returned = FALSE /\ Generated /\ UNCHANGED <<vars, function>>
      /\ at.block \in 1 .. Len(blocks) /\ blocks[at.block].owner = function
      /\ at.index \in 1 .. Len(Instructions(at.block)) /\ Current.op = "do"
  BY CurrentTyped DEF Effect
<1>2. PICK k, code : k = at.index /\ code = Instructions(at.block)
  OBVIOUS
<1>3. at \in [block : Nat, index : Nat \ {0}] /\ at' = [at EXCEPT !.index = @ + 1] /\ returned' = FALSE
  BY <1>1 DEF Effect, Running
<1>4. /\ at' \in [block : Nat, index : Nat \ {0}]
      /\ at'.block = at.block /\ at'.index = k + 1
  BY <1>2, <1>3
<1>5. code \in Seq(Instruction) /\ Len(code) \in Nat
  BY <1>1, <1>2, CodeTyped
<1>6. AllTidy => k + 1 \in 1 .. Len(code)
  <2> HAVE AllTidy
  <2>1. at.block \in DOMAIN blocks
    BY <1>1, CodeTyped
  <2>2. Terminated(code)
    BY <1>1, <1>2, <2>1 DEF OneTerminator, Instructions
  <2>3. k \in DOMAIN code /\ code[k].op \notin Terminators
    BY <1>1, <1>2, <1>5 DEF Current, Terminators
  <2>4. k # Len(code)
    BY <2>2, <2>3 DEF Terminated
  <2> QED
    BY <1>1, <1>2, <1>5, <2>4
<1>7. blocks' = blocks /\ Generated' /\ (AllTidy' <=> AllTidy)
  BY <1>1 DEF vars, Generated, AllTidy
<1>8. Instructions(at.block)' = code
  BY <1>2, <1>4, <1>7 DEF Instructions
<1> QED
  BY <1>1, <1>3, <1>4, <1>6, <1>7, <1>8 DEF Running, InItsBlocks, Effect

LEMMA NextRuns ==
  ASSUME Built, OneTerminator, Running, [ExecutionNext]_<<vars, running>>
  PROVE  Running'
<1>1. PICK p : Building(p)
  BY DEF Built
<1>2. CASE UNCHANGED <<vars, running>>
  <2>1. /\ blocks' = blocks /\ todo' = todo /\ functions' = functions
        /\ at' = at /\ function' = function /\ returned' = returned
    BY <1>2 DEF vars, running
  <2>2. AllTidy' <=> AllTidy
    BY <2>1 DEF AllTidy
  <2> QED
    BY <2>1, <2>2 DEF Running, InItsBlocks, Generated, Instructions, Current
<1>3. CASE Generate
  <2>1. /\ at' = at /\ function' = function /\ returned' = returned
    BY <1>3 DEF Generate, running
  <2>2. todo # <<>>
    BY <1>3 DEF Generate, Next, At, Generates, GenExpression, GenNothing, GenDefer, GenReturn,
       GenBlock, GenIf, GenLoop, GenRangeLoop, GenSwitch, GenCase, GenSwitchEnd,
       GenFunction, EndFunctionBody, FunctionDone, EnterScope, EndScope, ResetScope,
       InjectDefer, EmitInstruction, MoveBuilder
  <2>3. function = 0
    BY <2>2 DEF Running, Generated
  <2> QED
    BY <2>1, <2>3 DEF Running
<1>4. CASE Call
  <2>1. PICK f \in DOMAIN functions : function' = f /\ at' = To(functions[f].entry)
    BY <1>4 DEF Call
  <2>2. f \in 1 .. Len(functions) /\ Entries(blocks, functions)
    BY <1>1, <2>1 DEF Building, Generation
  <2>3. Owned(blocks, functions[f].entry, f) /\ f # 0
    BY <2>2 DEF Entries
  <2>4. Generated /\ returned' = FALSE /\ UNCHANGED vars
    BY <1>4 DEF Call, Running
  <2> QED
    BY <1>1, <2>1, <2>3, <2>4, BlockBegins
<1>5. CASE Effect
  BY <1>1, <1>5, EffectRuns
<1>6. CASE Jump
  <2>1. /\ function # 0 /\ returned = FALSE /\ Generated /\ UNCHANGED <<vars, function>>
        /\ Current \in Instruction /\ Current.op = "br"
        /\ \A t \in DOMAIN Current.targets : Owned(blocks, Current.targets[t], function)
    BY <1>1, <1>6, CurrentTyped DEF Jump
  <2>2. Current.targets \in Seq(Nat) /\ Len(Current.targets) = 1
    BY <2>1 DEF Instruction
  <2>3. 1 \in DOMAIN Current.targets
    BY <2>2
  <2>4. Owned(blocks, Current.targets[1], function)
    BY <2>1, <2>3
  <2>5. at' = To(Current.targets[1]) /\ returned' = FALSE /\ function' = function
    BY <1>6, <2>1 DEF Jump
  <2> QED
    BY <1>1, <2>1, <2>4, <2>5, BlockBegins
<1>7. CASE Decide
  <2>1. /\ function # 0 /\ returned = FALSE /\ Generated /\ UNCHANGED <<vars, function>>
        /\ \A t \in DOMAIN Current.targets : Owned(blocks, Current.targets[t], function)
    BY <1>1, <1>7, CurrentTyped DEF Decide
  <2>2. PICK way \in DOMAIN Current.targets : at' = To(Current.targets[way])
    BY <1>7 DEF Decide
  <2>3. returned' = FALSE /\ function' = function /\ Owned(blocks, Current.targets[way], function)
    BY <1>7, <2>1 DEF Decide
  <2> QED
    BY <1>1, <2>1, <2>2, <2>3, BlockBegins
<1>8. CASE Finish
  <2>1. /\ function # 0 /\ Generated /\ UNCHANGED <<vars, function>>
        /\ at.block \in 1 .. Len(blocks) /\ blocks[at.block].owner = function
        /\ at.index \in 1 .. Len(Instructions(at.block)) /\ Current.op = "return"
    BY <1>1, <1>8, CurrentTyped DEF Finish
  <2>2. at' = at /\ returned' = TRUE
    BY <1>8 DEF Finish
  <2>3. blocks' = blocks /\ Generated'
    BY <2>1 DEF vars, Generated
  <2> QED
    BY <2>1, <2>2, <2>3 DEF Running, InItsBlocks, Instructions, Current
<1> QED
  BY <1>2, <1>3, <1>4, <1>5, <1>6, <1>7, <1>8 DEF ExecutionNext

(* The machine does not disturb what is generated.                           *)
LEMMA ExecutionGenerates == ExecutionSpec => Spec
<1>1. ExecutionInit => Init
  BY DEF ExecutionInit
<1>2. [ExecutionNext]_<<vars, running>> => [Next]_vars
  BY DEF ExecutionNext, Generate, Call, Effect, Jump, Decide, Finish, Runs
<1> QED
  BY <1>1, <1>2, PTL DEF ExecutionSpec, Spec

(* Whichever way its conditions go, a function that runs stays in its own    *)
(* blocks, always has an instruction to run if the program is tidy, and ends *)
(* with a return.                                                            *)
THEOREM FunctionsRunInTheirBlocks == ExecutionSpec => []RunsInItsBlocks
<1>1. ExecutionInit => Running
  <2>1. To(0) \in [block : Nat, index : Nat \ {0}]
    BY DEF To
  <2> QED
    BY <2>1 DEF ExecutionInit, Running
<1>2. Built /\ OneTerminator /\ Running /\ [ExecutionNext]_<<vars, running>> => Running'
  BY NextRuns
<1>3. Built /\ Running => RunsInItsBlocks
  <2> SUFFICES ASSUME Built, Running, function # 0
               PROVE  /\ at.block \in DOMAIN blocks /\ blocks[at.block].owner = function
                      /\ AllTidy => at.index \in DOMAIN Instructions(at.block)
                      /\ returned => Current.op = "return"
    BY DEF RunsInItsBlocks
  <2>1. PICK p : Building(p)
    BY DEF Built
  <2>2. InItsBlocks
    BY DEF Running
  <2>3. at.block \in DOMAIN blocks /\ Instructions(at.block) \in Seq(Instruction)
    BY <2>1, <2>2, CodeTyped DEF InItsBlocks
  <2> QED
    BY <2>2, <2>3 DEF InItsBlocks
<1>4. ExecutionSpec => []Running
  BY <1>1, <1>2, ExecutionGenerates, AlwaysBuilt, BlocksEndOnce, PTL DEF ExecutionSpec
<1> QED
  BY <1>3, <1>4, ExecutionGenerates, AlwaysBuilt, PTL
===============================================================================
