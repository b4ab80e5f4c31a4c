---------------------------- MODULE ComptimeProofs ----------------------------
(*****************************************************************************)
(* Theorems about the evaluation of values at compile time, for any program  *)
(* and any capacity of call_stack.                                           *)
(*                                                                           *)
(* Each activation has one frame.  The literals that a frame holds are held  *)
(* by no other, and a pointer in a literal leads to a literal that was made, *)
(* or to a global whose value is known.                                      *)
(*****************************************************************************)
EXTENDS Comptime, SequenceTheorems, NumbersAndLists

(* A value, where h literals were made and res are the values of globals.    *)
Sound(v, h, res) ==
  /\ v \in Value
  /\ v.kind = "ptr" => v.n \in 1 .. h
  /\ v.kind = "global" => v.n \in DOMAIN res /\ res[v.n] \in Value
GoodHeap(hp, res) == hp \in Seq(Value) /\ \A c \in 1 .. Len(hp) : Sound(hp[c], Len(hp), res)

Lookups == UNION {[ids -> Nat] : ids \in SUBSET ValueId}
Frame(h) ==
  {f \in [lookup : Lookups, values : Seq(1 .. h), arg_count : Nat, parent : Pointer] :
     /\ f.arg_count <= Len(f.values)
     /\ \A id \in DOMAIN f.lookup : f.lookup[id] \in 1 .. Len(f.values)}
GoodFrames(fs, h) ==
  /\ h \in Nat /\ fs \in Seq(Frame(h))
  /\ \A i, j \in 1 .. Len(fs) : i # j => Cells(fs[i]) \cap Cells(fs[j]) = {}
GoodMemory(m, res) ==
  /\ m = [frames |-> m.frames, heap |-> m.heap]
  /\ GoodHeap(m.heap, res) /\ GoodFrames(m.frames, Len(m.heap))

(* The frames stay, with their parents and with what they have.              *)
SameFrames(fs, gs) ==
  /\ Len(gs) = Len(fs)
  /\ \A i \in 1 .. Len(fs) : /\ gs[i].parent = fs[i].parent
                             /\ Len(gs[i].values) \in Nat
                             /\ Len(fs[i].values) <= Len(gs[i].values)
-------------------------------------------------------------------------------
(* Values and the heap.                                                      *)
LEMMA SoundOn ==
  ASSUME NEW v, NEW h \in Nat, NEW res, Sound(v, h, res), NEW k \in Nat, h <= k
  PROVE  Sound(v, k, res)
BY DEF Sound

LEMMA SoundParts ==
  ASSUME NEW v \in Value, v.kind \notin Pointers, NEW h, NEW res
  PROVE  Sound(v, h, res)
BY DEF Sound, Pointers

LEMMA HeapAppended ==
  ASSUME NEW hp, NEW res, GoodHeap(hp, res), NEW v, Sound(v, Len(hp) + 1, res)
  PROVE  GoodHeap(Append(hp, v), res) /\ Len(hp) \in Nat /\ Len(Append(hp, v)) = Len(hp) + 1
<1>1. PICK n \in Nat : n = Len(hp)
  BY DEF GoodHeap
<1>2. hp \in Seq(Value) /\ v \in Value
  BY DEF GoodHeap, Sound
<1>3. /\ Append(hp, v) \in Seq(Value) /\ Len(Append(hp, v)) = n + 1
      /\ Append(hp, v)[n + 1] = v
      /\ \A c \in 1 .. n : Append(hp, v)[c] = hp[c]
  BY <1>1, <1>2, AppendProperties
<1>4. ASSUME NEW c \in 1 .. n + 1  PROVE Sound(Append(hp, v)[c], n + 1, res)
  <2>1. CASE c \in 1 .. n
    <3>1. Sound(hp[c], n, res)
      BY <1>1, <2>1 DEF GoodHeap
    <3>2. n + 1 \in Nat /\ n <= n + 1
      OBVIOUS
    <3> QED
      BY <1>3, <2>1, <3>1, <3>2, SoundOn
  <2>2. CASE c = n + 1
    BY <1>1, <1>3, <2>2
  <2>3. c \in 1 .. n \/ c = n + 1
    OBVIOUS
  <2> QED
    BY <2>1, <2>2, <2>3
<1> QED
  BY <1>1, <1>3, <1>4 DEF GoodHeap

LEMMA HeapSet ==
  ASSUME NEW hp, NEW res, GoodHeap(hp, res), NEW c \in 1 .. Len(hp), NEW v,
         Sound(v, Len(hp), res)
  PROVE  GoodHeap([hp EXCEPT ![c] = v], res) /\ Len([hp EXCEPT ![c] = v]) = Len(hp)
<1>1. PICK n \in Nat : n = Len(hp)
  BY DEF GoodHeap
<1>2. hp \in Seq(Value) /\ v \in Value
  BY DEF GoodHeap, Sound
<1>3. PICK g : g = [hp EXCEPT ![c] = v]
  OBVIOUS
<1>4. /\ g \in Seq(Value) /\ Len(g) = n
      /\ \A d \in 1 .. n : g[d] = IF d = c THEN v ELSE hp[d]
  BY <1>1, <1>2, <1>3
<1>5. \A d \in 1 .. n : Sound(g[d], n, res)
  BY <1>1, <1>4 DEF GoodHeap
<1> QED
  BY <1>1, <1>3, <1>4, <1>5 DEF GoodHeap
-------------------------------------------------------------------------------
(* Frames.                                                                   *)
LEMMA FrameOn ==
  ASSUME NEW h \in Nat, NEW f \in Frame(h), NEW k \in Nat, h <= k
  PROVE  f \in Frame(k)
<1>1. Seq(1 .. h) \subseteq Seq(1 .. k)
  BY 1 .. h \subseteq 1 .. k
<1> QED
  BY <1>1 DEF Frame

LEMMA FrameFields ==
  ASSUME NEW h \in Nat, NEW f \in Frame(h)
  PROVE  /\ f.values \in Seq(1 .. h) /\ f.parent \in Pointer /\ f.lookup \in Lookups
         /\ Len(f.values) \in Nat /\ DOMAIN f.values = 1 .. Len(f.values)
         /\ f.arg_count \in Nat /\ f.arg_count <= Len(f.values)
         /\ \A id \in DOMAIN f.lookup : f.lookup[id] \in 1 .. Len(f.values)
         /\ Cells(f) \subseteq 1 .. h
BY DEF Frame, Cells

LEMMA FramesOn ==
  ASSUME NEW fs, NEW h, GoodFrames(fs, h), NEW k \in Nat, h <= k
  PROVE  GoodFrames(fs, k)
<1>1. h \in Nat /\ fs \in Seq(Frame(h))
  BY DEF GoodFrames
<1>2. Frame(h) \subseteq Frame(k)
  BY <1>1, FrameOn
<1>3. fs \in Seq(Frame(k))
  BY <1>1, <1>2
<1> QED
  BY <1>3 DEF GoodFrames

(* One frame is changed: what it gets belongs to no other frame.             *)
LEMMA FrameChanged ==
  ASSUME NEW fs, NEW h, GoodFrames(fs, h), NEW i \in 1 .. Len(fs), NEW f \in Frame(h),
         \A j \in 1 .. Len(fs) : j # i => Cells(f) \cap Cells(fs[j]) = {},
         f.parent = fs[i].parent, Len(fs[i].values) <= Len(f.values)
  PROVE  /\ GoodFrames([fs EXCEPT ![i] = f], h) /\ SameFrames(fs, [fs EXCEPT ![i] = f])
<1>1. h \in Nat /\ fs \in Seq(Frame(h))
  BY DEF GoodFrames
<1>2. PICK n \in Nat : n = Len(fs)
  BY <1>1
<1>3. PICK gs : gs = [fs EXCEPT ![i] = f]
  OBVIOUS
<1>4. /\ gs \in Seq(Frame(h)) /\ Len(gs) = n
      /\ \A j \in 1 .. n : gs[j] = IF j = i THEN f ELSE fs[j]
  BY <1>1, <1>2, <1>3
<1>5. ASSUME NEW j \in 1 .. n, NEW k \in 1 .. n, j # k
      PROVE  Cells(gs[j]) \cap Cells(gs[k]) = {}
  <2>1. CASE j = i
    BY <1>2, <1>4, <1>5, <2>1
  <2>2. CASE k = i
    BY <1>2, <1>4, <1>5, <2>2
  <2>3. CASE j # i /\ k # i
    BY <1>2, <1>4, <1>5, <2>3 DEF GoodFrames
  <2> QED
    BY <2>1, <2>2, <2>3
<1>6. \A j \in 1 .. n : fs[j] \in Frame(h)
  BY <1>1, <1>2
<1>7. \A j \in 1 .. n : Len(fs[j].values) \in Nat /\ Len(f.values) \in Nat
  BY <1>1, <1>6, FrameFields
<1>8. \A j \in 1 .. n : /\ gs[j].parent = fs[j].parent
                        /\ Len(gs[j].values) \in Nat
                        /\ Len(fs[j].values) <= Len(gs[j].values)
  BY <1>4, <1>7
<1> QED
  BY <1>1, <1>2, <1>3, <1>4, <1>5, <1>8 DEF GoodFrames, SameFrames

LEMMA SameFramesOn ==
  ASSUME NEW fs, NEW gs, NEW hs, SameFrames(fs, gs), SameFrames(gs, hs), Len(fs) \in Nat,
         \A i \in 1 .. Len(fs) : Len(fs[i].values) \in Nat
  PROVE  SameFrames(fs, hs)
BY DEF SameFrames
-------------------------------------------------------------------------------
(* What a frame's arena allocates, and what is added for an instruction.     *)
Holding(f, c) == [f EXCEPT !.values = Append(@, c)]
Finding(f, id, k) == [f EXCEPT !.lookup = [x \in DOMAIN @ \cup {id} |-> IF x = id THEN k ELSE @[x]]]

LEMMA HoldingFrame ==
  ASSUME NEW h \in Nat, NEW f \in Frame(h), NEW c \in 1 .. h
  PROVE  /\ Holding(f, c) \in Frame(h) /\ Holding(f, c).parent = f.parent
         /\ Holding(f, c).lookup = f.lookup
         /\ Len(Holding(f, c).values) = Len(f.values) + 1
         /\ Cells(Holding(f, c)) = Cells(f) \cup {c}
<1>1. PICK n \in Nat : n = Len(f.values)
  BY FrameFields
<1>2. PICK s : s = Append(f.values, c)
  OBVIOUS
<1>3. /\ s \in Seq(1 .. h) /\ Len(s) = n + 1 /\ s[n + 1] = c
      /\ \A x \in 1 .. n : s[x] = f.values[x]
  BY <1>1, <1>2, FrameFields, AppendProperties
<1>4. f \in [lookup : Lookups, values : Seq(1 .. h), arg_count : Nat, parent : Pointer]
  BY DEF Frame
<1>5. PICK g : g = Holding(f, c)
  OBVIOUS
<1>6. /\ g \in [lookup : Lookups, values : Seq(1 .. h), arg_count : Nat, parent : Pointer]
      /\ g.lookup = f.lookup /\ g.parent = f.parent /\ g.arg_count = f.arg_count
      /\ g.values = s
  BY <1>2, <1>3, <1>4, <1>5 DEF Holding
<1>7. /\ f.arg_count \in Nat /\ f.arg_count <= n
      /\ \A id \in DOMAIN f.lookup : f.lookup[id] \in 1 .. n
  BY <1>1, FrameFields
<1>8. g.arg_count <= Len(g.values) /\ \A id \in DOMAIN g.lookup : g.lookup[id] \in 1 .. Len(g.values)
  BY <1>3, <1>6, <1>7
<1>9. g \in Frame(h)
  BY <1>6, <1>8 DEF Frame
<1>10. Cells(g) = Cells(f) \cup {c}
  <2>1. DOMAIN f.values = 1 .. n /\ DOMAIN s = 1 .. n + 1
    BY <1>1, <1>3, FrameFields
  <2>2. \A x \in 1 .. n + 1 : x \in 1 .. n \/ x = n + 1
    OBVIOUS
  <2>3. \A x \in 1 .. n : x \in 1 .. n + 1
    OBVIOUS
  <2>4. n + 1 \in 1 .. n + 1
    OBVIOUS
  <2> QED
    BY <1>3, <1>6, <2>1, <2>2, <2>3, <2>4, ZenonT(60) DEF Cells
<1> QED
  BY <1>1, <1>3, <1>5, <1>6, <1>9, <1>10

LEMMA FindingFrame ==
  ASSUME NEW h \in Nat, NEW f \in Frame(h), NEW id \in ValueId, NEW k \in 1 .. Len(f.values)
  PROVE  /\ Finding(f, id, k) \in Frame(h) /\ Finding(f, id, k).parent = f.parent
         /\ Finding(f, id, k).values = f.values
         /\ Cells(Finding(f, id, k)) = Cells(f)
<1>1. PICK l : l = [x \in DOMAIN f.lookup \cup {id} |-> IF x = id THEN k ELSE f.lookup[x]]
  OBVIOUS
<1>2. f.lookup \in Lookups /\ \A x \in DOMAIN f.lookup : f.lookup[x] \in 1 .. Len(f.values)
  BY FrameFields
<1>3. DOMAIN f.lookup \subseteq ValueId
  BY <1>2, Zenon DEF Lookups
<1>4. \A x \in DOMAIN l : l[x] \in 1 .. Len(f.values)
  BY <1>1, <1>2
<1>5. l \in [DOMAIN f.lookup \cup {id} -> Nat]
  <2>1. 1 .. Len(f.values) \subseteq Nat
    OBVIOUS
  <2> QED
    BY <1>1, <1>4, <2>1
<1>6. l \in Lookups
  <2>1. DOMAIN f.lookup \cup {id} \in SUBSET ValueId
    BY <1>3
  <2> QED
    BY <1>5, <2>1, Zenon DEF Lookups
<1>7. f \in [lookup : Lookups, values : Seq(1 .. h), arg_count : Nat, parent : Pointer]
  BY DEF Frame
<1>8. PICK g : g = Finding(f, id, k)
  OBVIOUS
<1>9. g = [f EXCEPT !.lookup = l]
  BY <1>1, <1>8 DEF Finding
<1>10. /\ g \in [lookup : Lookups, values : Seq(1 .. h), arg_count : Nat, parent : Pointer]
       /\ g.lookup = l /\ g.parent = f.parent /\ g.arg_count = f.arg_count
       /\ g.values = f.values
  BY <1>6, <1>7, <1>9
<1>11. g \in Frame(h)
  BY <1>4, <1>10, FrameFields DEF Frame
<1> QED
  BY <1>8, <1>10, <1>11 DEF Cells

LEMMA AllocatedGood ==
  ASSUME NEW m, NEW res, GoodMemory(m, res), NEW i \in 1 .. Len(m.frames), NEW v,
         Sound(v, Len(m.heap) + 1, res)
  PROVE  LET a == Allocated(m, i, v)
         IN /\ GoodMemory(a, res) /\ SameFrames(m.frames, a.frames)
            /\ Len(m.heap) \in Nat /\ Len(a.heap) = Len(m.heap) + 1
            /\ a.frames[i].lookup = m.frames[i].lookup
            /\ Len(a.frames[i].values) = Len(m.frames[i].values) + 1
<1>1. PICK h \in Nat : h = Len(m.heap)
  BY DEF GoodMemory, GoodHeap
<1>2. PICK a : a = Allocated(m, i, v)
  OBVIOUS
<1>3. PICK f : f = m.frames[i]
  OBVIOUS
<1>4. /\ a.heap = Append(m.heap, v) /\ a.frames = [m.frames EXCEPT ![i] = Holding(f, h + 1)]
      /\ a = [frames |-> a.frames, heap |-> a.heap]
  BY <1>1, <1>2, <1>3 DEF Allocated, Holding
<1>5. GoodHeap(a.heap, res) /\ Len(a.heap) = h + 1
  BY <1>1, <1>4, HeapAppended DEF GoodMemory
<1>6. GoodFrames(m.frames, h) /\ GoodFrames(m.frames, h + 1) /\ h + 1 \in 1 .. h + 1
  BY <1>1, FramesOn DEF GoodMemory
<1>7. f \in Frame(h) /\ f \in Frame(h + 1) /\ \A j \in 1 .. Len(m.frames) : m.frames[j] \in Frame(h)
  BY <1>3, <1>6 DEF GoodFrames
<1>8. PICK g : g = Holding(f, h + 1)
  OBVIOUS
<1>9. /\ g \in Frame(h + 1) /\ g.parent = f.parent /\ g.lookup = f.lookup
      /\ Len(g.values) = Len(f.values) + 1 /\ Cells(g) = Cells(f) \cup {h + 1}
  <2>1. h + 1 \in Nat
    OBVIOUS
  <2> QED
    BY <1>6, <1>7, <1>8, <2>1, HoldingFrame
<1>10. \A j \in 1 .. Len(m.frames) : j # i => Cells(g) \cap Cells(m.frames[j]) = {}
  <2> TAKE j \in 1 .. Len(m.frames)
  <2> HAVE j # i
  <2>1. Cells(f) \cap Cells(m.frames[j]) = {}
    BY <1>3, <1>6 DEF GoodFrames
  <2>2. Cells(m.frames[j]) \subseteq 1 .. h /\ h + 1 \notin 1 .. h
    BY <1>7, FrameFields
  <2> QED
    BY <1>9, <2>1, <2>2
<1>11. Len(f.values) \in Nat /\ Len(f.values) <= Len(g.values)
  BY <1>7, <1>9, FrameFields
<1>12. GoodFrames(a.frames, h + 1) /\ SameFrames(m.frames, a.frames)
  BY <1>3, <1>4, <1>6, <1>8, <1>9, <1>10, <1>11, FrameChanged, SMTT(30)
<1>13. a.frames[i] = g
  BY <1>4, <1>6, <1>8 DEF GoodFrames
<1> QED
  BY <1>1, <1>2, <1>3, <1>4, <1>5, <1>9, <1>12, <1>13 DEF GoodMemory

(* A literal that is held is set.                                            *)
SetCell(m, c, v) == [m EXCEPT !.heap[c] = v]
LEMMA SetCellGood ==
  ASSUME NEW m, NEW res, GoodMemory(m, res), NEW c \in 1 .. Len(m.heap), NEW v,
         Sound(v, Len(m.heap), res)
  PROVE  /\ GoodMemory(SetCell(m, c, v), res) /\ SetCell(m, c, v).frames = m.frames
         /\ Len(SetCell(m, c, v).heap) = Len(m.heap)
<1>1. PICK a : a = SetCell(m, c, v)
  OBVIOUS
<1>2. PICK fs, hp : m = [frames |-> fs, heap |-> hp]
  BY DEF GoodMemory
<1>3. /\ a.frames = m.frames /\ a.heap = [m.heap EXCEPT ![c] = v]
      /\ a = [frames |-> a.frames, heap |-> a.heap]
  BY <1>1, <1>2 DEF SetCell
<1>4. GoodHeap(a.heap, res) /\ Len(a.heap) = Len(m.heap)
  BY <1>3, HeapSet DEF GoodMemory
<1> QED
  BY <1>1, <1>3, <1>4 DEF GoodMemory

LEMMA SameFramesSelf ==
  ASSUME NEW fs, NEW h, GoodFrames(fs, h)
  PROVE  SameFrames(fs, fs) /\ \A i \in 1 .. Len(fs) : Len(fs[i].values) \in Nat
<1>1. h \in Nat /\ \A i \in 1 .. Len(fs) : fs[i] \in Frame(h)
  BY DEF GoodFrames
<1>2. \A i \in 1 .. Len(fs) : Len(fs[i].values) \in Nat
  BY <1>1, FrameFields
<1> QED
  BY <1>2 DEF SameFrames

LEMMA AddedGood ==
  ASSUME NEW m, NEW res, GoodMemory(m, res), NEW i \in 1 .. Len(m.frames), NEW id \in ValueId,
         NEW v, Sound(v, Len(m.heap), res)
  PROVE  LET a == Added(m, i, id, v)
         IN /\ GoodMemory(a, res) /\ SameFrames(m.frames, a.frames)
            /\ Len(m.heap) \in Nat /\ Len(m.heap) <= Len(a.heap)
            /\ Len(a.frames[i].values) \in Nat \ {0}
<1>1. PICK h \in Nat : h = Len(m.heap)
  BY DEF GoodMemory, GoodHeap
<1>2. PICK f : f = m.frames[i]
  OBVIOUS
<1>3. GoodFrames(m.frames, h) /\ f \in Frame(h)
  <2>1. GoodFrames(m.frames, h)
    BY <1>1 DEF GoodMemory
  <2>2. m.frames \in Seq(Frame(h))
    BY <2>1 DEF GoodFrames
  <2>3. m.frames[i] \in Frame(h)
    BY <2>2
  <2> QED
    BY <1>2, <2>1, <2>3
<1>4. CASE id \in DOMAIN f.lookup
  <2>1. PICK x \in 1 .. Len(f.values) : x = f.lookup[id]
    BY <1>3, <1>4, FrameFields
  <2>2. PICK c : c = f.values[x]
    OBVIOUS
  <2>3. c \in 1 .. h /\ Len(f.values) \in Nat \ {0}
    <3>1. f.values \in Seq(1 .. h) /\ Len(f.values) \in Nat
      BY <1>3, FrameFields
    <3> QED
      BY <2>1, <2>2, <3>1
  <2>4. Added(m, i, id, v) = SetCell(m, c, v)
    BY <1>2, <1>4, <2>1, <2>2 DEF Added, SetCell
  <2>5. /\ GoodMemory(SetCell(m, c, v), res) /\ SetCell(m, c, v).frames = m.frames
        /\ Len(SetCell(m, c, v).heap) = h
    BY <1>1, <2>3, SetCellGood
  <2> QED
    BY <1>1, <1>2, <1>3, <2>3, <2>4, <2>5, SameFramesSelf
<1>5. CASE id \notin DOMAIN f.lookup
  <2>1. PICK a : a = Allocated(m, i, v)
    OBVIOUS
  <2>2. Sound(v, h + 1, res)
    BY <1>1, SoundOn
  <2>3. /\ GoodMemory(a, res) /\ SameFrames(m.frames, a.frames) /\ Len(a.heap) = h + 1
        /\ Len(a.frames[i].values) = Len(f.values) + 1
    BY <1>1, <1>2, <2>1, <2>2, AllocatedGood
  <2>4. PICK k : k = Len(f.values) + 1
    OBVIOUS
  <2>5. PICK b : b = Added(m, i, id, v)
    OBVIOUS
  <2>6. PICK fs, hp : a = [frames |-> fs, heap |-> hp]
    BY <2>3 DEF GoodMemory
  <2>7. b = [a EXCEPT !.frames[i].lookup =
               [x \in DOMAIN @ \cup {id} |-> IF x = id THEN k ELSE @[x]]]
    BY <1>2, <1>5, <2>1, <2>4, <2>5 DEF Added, AddedNew
  <2>8. /\ b.heap = a.heap /\ b = [frames |-> b.frames, heap |-> b.heap]
        /\ b.frames = [a.frames EXCEPT ![i] = Finding(a.frames[i], id, k)]
    BY <2>6, <2>7 DEF Finding
  <2>9. /\ GoodFrames(a.frames, h + 1) /\ Len(a.frames) = Len(m.frames)
        /\ i \in 1 .. Len(a.frames) /\ a.frames[i] \in Frame(h + 1)
    <3>1. GoodFrames(a.frames, h + 1)
      BY <2>3 DEF GoodMemory
    <3>2. a.frames \in Seq(Frame(h + 1))
      BY <3>1 DEF GoodFrames
    <3>3. Len(a.frames) = Len(m.frames)
      BY <2>3 DEF SameFrames
    <3>4. i \in 1 .. Len(a.frames)
      BY <3>3
    <3>5. a.frames[i] \in Frame(h + 1)
      BY <3>2, <3>4
    <3> QED
      BY <3>1, <3>3, <3>4, <3>5
  <2>10. PICK g : g = Finding(a.frames[i], id, k)
    OBVIOUS
  <2>11. Len(f.values) \in Nat /\ k \in 1 .. Len(a.frames[i].values)
    BY <1>3, <2>3, <2>4, FrameFields
  <2>12. /\ g \in Frame(h + 1) /\ g.parent = a.frames[i].parent /\ g.values = a.frames[i].values
         /\ Cells(g) = Cells(a.frames[i])
    <3>1. h + 1 \in Nat
      OBVIOUS
    <3> QED
      BY <2>9, <2>10, <2>11, <3>1, FindingFrame
  <2>13. \A j \in 1 .. Len(a.frames) : j # i => Cells(g) \cap Cells(a.frames[j]) = {}
    BY <2>9, <2>12 DEF GoodFrames
  <2>14. Len(a.frames[i].values) <= Len(g.values)
    BY <2>3, <2>11, <2>12
  <2>15. GoodFrames(b.frames, h + 1) /\ SameFrames(a.frames, b.frames)
    BY <2>8, <2>9, <2>10, <2>12, <2>13, <2>14, FrameChanged
  <2>16. GoodMemory(b, res)
    BY <2>3, <2>8, <2>15 DEF GoodMemory
  <2>17. SameFrames(m.frames, b.frames)
    <3>1. Len(m.frames) \in Nat
      BY <1>3 DEF GoodFrames
    <3> QED
      BY <1>3, <2>3, <2>15, <3>1, SameFramesSelf, SameFramesOn
  <2>18. Len(b.frames[i].values) \in Nat \ {0}
    <3>1. Len(b.frames[i].values) \in Nat /\ Len(a.frames[i].values) <= Len(b.frames[i].values)
      BY <2>9, <2>15 DEF SameFrames
    <3> QED
      BY <2>3, <2>11, <3>1
  <2> QED
    BY <1>1, <2>3, <2>5, <2>8, <2>16, <2>17, <2>18
<1> QED
  BY <1>4, <1>5
-------------------------------------------------------------------------------
(* The invariant.  An activation of p, in its place i, with its frame f.     *)
Placed(p, a, f, i) ==
  /\ IF a.block = 0
     THEN /\ a.pc \in {0, 1} /\ a.global \in DOMAIN p.globals /\ f.parent = NoFrame
          /\ a.pc = 1 => Len(f.values) # 0
     ELSE a.block \in DOMAIN p.blocks /\ a.pc # 0 /\ a.home.index = i
  /\ a.frame = NoFrame \/ a.frame.index = i
  /\ f.parent = NoFrame \/ f.parent.index = i - 1

(* It waits for the one that has the frame f.                                *)
Waits(a, f) ==
  a.frame # NoFrame /\ (a.block = 0 => a.pc = 0 /\ f.parent # NoFrame)

(* The activations acts have the frames fs, but for the first o.             *)
Stacked(p, fs, acts, o) ==
  /\ o \in Nat /\ acts \in Seq(Activation) /\ Len(fs) = o + Len(acts)
  /\ acts # <<>> => acts[1].block = 0
  /\ \A i \in 1 .. o : fs[i].parent = NoFrame
  /\ \A k \in 1 .. Len(acts) : Placed(p, acts[k], fs[o + k], o + k)
  /\ \A k \in 2 .. Len(acts) : Waits(acts[k - 1], fs[o + k])

KnownSound(res, h) == \A g \in DOMAIN res : res[g] \in Value => Sound(res[g], h, res)

Evaluating ==
  /\ Stacked(program, call_stack, activations, OuterDepth) /\ OuterDepth \in Outer
  /\ GoodMemory(Memory, resolved)
  /\ resolved \in [DOMAIN program.globals -> Value \cup {Unresolved, Pending}]
  /\ KnownSound(resolved, Len(heap))
  /\ program \in Program /\ Depth <= capacity /\ capacity \in Nat \ {0} /\ table \in Nat
  /\ status \in {"run", "done", "aborted", "undefined"} /\ result \in Value
  /\ Running => activations # <<>>
-------------------------------------------------------------------------------
(* A frame is pushed: what it holds was made with it.                        *)
LEMMA FramePushed ==
  ASSUME NEW fs, NEW h, GoodFrames(fs, h), NEW k \in Nat, h <= k, NEW f \in Frame(k),
         \A c \in Cells(f) : c > h
  PROVE  /\ GoodFrames(Append(fs, f), k) /\ Len(fs) \in Nat
         /\ Len(Append(fs, f)) = Len(fs) + 1 /\ Append(fs, f)[Len(fs) + 1] = f
         /\ \A i \in 1 .. Len(fs) : Append(fs, f)[i] = fs[i]
<1>1. GoodFrames(fs, k) /\ h \in Nat /\ \A i \in 1 .. Len(fs) : fs[i] \in Frame(h)
  <2>1. GoodFrames(fs, k)
    BY FramesOn
  <2>2. h \in Nat /\ fs \in Seq(Frame(h))
    BY DEF GoodFrames
  <2> QED
    BY <2>1, <2>2
<1>2. fs \in Seq(Frame(k))
  BY <1>1 DEF GoodFrames
<1>3. PICK n \in Nat : n = Len(fs)
  BY <1>2
<1>4. PICK gs : gs = Append(fs, f)
  OBVIOUS
<1>5. /\ gs \in Seq(Frame(k)) /\ Len(gs) = n + 1 /\ gs[n + 1] = f
      /\ \A i \in 1 .. n : gs[i] = fs[i]
  BY <1>2, <1>3, <1>4, AppendProperties
<1>6. \A i \in 1 .. n : Cells(f) \cap Cells(fs[i]) = {}
  <2> TAKE i \in 1 .. n
  <2>1. Cells(fs[i]) \subseteq 1 .. h
    BY <1>1, <1>3, FrameFields
  <2>2. \A c \in 1 .. h : ~(c > h)
    BY <1>1
  <2> QED
    BY <2>1, <2>2
<1>7. ASSUME NEW i \in 1 .. n + 1, NEW j \in 1 .. n + 1, i # j
      PROVE  Cells(gs[i]) \cap Cells(gs[j]) = {}
  <2>1. (i \in 1 .. n \/ i = n + 1) /\ (j \in 1 .. n \/ j = n + 1)
    OBVIOUS
  <2>2. CASE i \in 1 .. n /\ j \in 1 .. n
    BY <1>1, <1>3, <1>5, <1>7, <2>2 DEF GoodFrames
  <2>3. CASE i = n + 1 /\ j \in 1 .. n
    BY <1>5, <1>6, <2>3
  <2>4. CASE i \in 1 .. n /\ j = n + 1
    BY <1>5, <1>6, <2>4
  <2> QED
    BY <1>7, <2>1, <2>2, <2>3, <2>4
<1> QED
  BY <1>3, <1>4, <1>5, <1>7 DEF GoodFrames

(* The last frame is popped.                                                 *)
LEMMA PoppedGood ==
  ASSUME NEW res, GoodMemory(Memory, res), Depth # 0
  PROVE  /\ GoodMemory(Popped, res) /\ Len(Popped.heap) = Len(heap)
         /\ Depth \in Nat \ {0} /\ Len(Popped.frames) = Depth - 1
         /\ \A i \in 1 .. Depth - 1 : Popped.frames[i] = call_stack[i]
<1>1. PICK n, h : n = Depth /\ h = Len(heap)
  OBVIOUS
<1>2. GoodHeap(heap, res) /\ GoodFrames(call_stack, h)
  BY <1>1 DEF GoodMemory, Memory
<1>3. h \in Nat /\ call_stack \in Seq(Frame(h)) /\ heap \in Seq(Value)
  BY <1>2 DEF GoodFrames, GoodHeap
<1>4. n \in Nat \ {0} /\ n = Len(call_stack)
  BY <1>1, <1>3 DEF Depth
<1>5. PICK hp, fs : hp = Popped.heap /\ fs = Popped.frames
  OBVIOUS
<1>6. fs = SubSeq(call_stack, 1, n - 1) /\ Popped = [frames |-> fs, heap |-> hp]
  BY <1>1, <1>5 DEF Popped
<1>7. PICK gone : gone = call_stack[Depth].values
  OBVIOUS
<1>8. hp = [c \in 1 .. h |-> hp[c]] /\ \A c \in 1 .. h : hp[c] = Freed \/ hp[c] = heap[c]
  <2>1. DOMAIN heap = 1 .. h
    BY <1>1, <1>3
  <2>2. hp = [c \in DOMAIN heap |->
                IF \E i \in DOMAIN gone : gone[i] = c THEN Freed ELSE heap[c]]
    BY <1>5, <1>7 DEF Popped
  <2> QED
    BY <2>1, <2>2
<1>9. Freed \in Value /\ \A v : v = Freed => Sound(v, h, res)
  BY DEF Freed, Value, Kinds, Sound
<1>10. \A c \in 1 .. h : Sound(heap[c], h, res)
  BY <1>1, <1>2 DEF GoodHeap
<1>11. \A c \in 1 .. h : hp[c] \in Value /\ Sound(hp[c], h, res)
  <2> TAKE c \in 1 .. h
  <2>1. heap[c] \in Value /\ Sound(heap[c], h, res)
    BY <1>10 DEF Sound
  <2>2. CASE hp[c] = Freed
    BY <1>9, <2>2
  <2>3. CASE hp[c] = heap[c]
    BY <2>1, <2>3
  <2> QED
    BY <1>8, <2>2, <2>3
<1>12. hp \in Seq(Value) /\ Len(hp) = h
  <2>1. hp \in [1 .. h -> Value]
    BY <1>8, <1>11
  <2> QED
    BY <1>3, <2>1
<1>13. GoodHeap(hp, res)
  BY <1>11, <1>12 DEF GoodHeap
<1>14. /\ fs \in Seq(Frame(h)) /\ Len(fs) = n - 1
       /\ \A i \in 1 .. n - 1 : fs[i] = call_stack[i]
  <2>1. n - 1 \in Int /\ \A i \in 1 .. n - 1 : call_stack[i] \in Frame(h)
    BY <1>3, <1>4
  <2>2. /\ fs \in Seq(Frame(h)) /\ Len(fs) = IF 1 <= n - 1 THEN (n - 1) - 1 + 1 ELSE 0
        /\ \A i \in 1 .. (n - 1) - 1 + 1 : fs[i] = call_stack[1 + i - 1]
    BY <1>6, <2>1, SubSeqProperties
  <2> QED
    BY <1>4, <2>2
<1>15. GoodFrames(fs, h)
  <2> SUFFICES ASSUME NEW i \in 1 .. n - 1, NEW j \in 1 .. n - 1, i # j
               PROVE  Cells(fs[i]) \cap Cells(fs[j]) = {}
    BY <1>3, <1>14 DEF GoodFrames
  <2>1. i \in 1 .. n /\ j \in 1 .. n
    BY <1>4
  <2>2. Cells(call_stack[i]) \cap Cells(call_stack[j]) = {}
    BY <1>2, <1>4, <2>1 DEF GoodFrames
  <2> QED
    BY <1>14, <2>2
<1> QED
  BY <1>1, <1>4, <1>5, <1>6, <1>12, <1>13, <1>14, <1>15 DEF GoodMemory
-------------------------------------------------------------------------------
(* getValue follows the parents to frames that were pushed before.           *)
Backward == \A i \in 1 .. Depth :
  call_stack[i].parent = NoFrame \/ call_stack[i].parent.index = i - 1
Held(id, i, from) ==
  IF i = 0 THEN 0
  ELSE IF id \in DOMAIN call_stack[i].lookup THEN i
  ELSE IF call_stack[i].parent = NoFrame THEN 0
  ELSE IF ~Good(call_stack[i].parent) THEN -1
  ELSE from[call_stack[i].parent.index]
Solves(g, id, m) == g = [i \in 0 .. m |-> Held(id, i, g)]

LEMMA HoldersDefined ==
  ASSUME Backward, Depth \in Nat, NEW id
  PROVE  Solves(Holders(id), id, Depth)
<1> DEFINE T == {m \in 0 .. Depth : ~ \E g : Solves(g, id, m)}
<1>1. SUFFICES ASSUME T # {} PROVE FALSE
  <2>1. Depth \in 0 .. Depth /\ Depth \notin T
    BY <1>1
  <2>2. PICK g : Solves(g, id, Depth)
    BY <2>1
  <2>3. \E g1 : g1 = [i \in 0 .. Depth |-> Held(id, i, g1)]
    BY <2>2, Zenon DEF Solves
  <2>4. Holders(id) = [i \in 0 .. Depth |-> Held(id, i, Holders(id))]
    BY <2>3, Zenon DEF Holders, Held
  <2> QED
    BY <2>4, Zenon DEF Solves
<1>2. PICK m \in T : \A k \in T : m <= k
  <2>1. T \subseteq Nat
    OBVIOUS
  <2> QED
    BY <1>1, <2>1, LeastElement
<1>3. CASE m = 0
  <2>1. Solves([i \in 0 .. 0 |-> 0], id, 0)
    BY DEF Solves, Held
  <2> QED
    BY <1>3, <2>1
<1>4. CASE m # 0
  <2>1. m \in Nat /\ m \in 1 .. Depth /\ m - 1 \in 0 .. Depth /\ ~(m <= m - 1)
    BY <1>4
  <2>2. PICK g : Solves(g, id, m - 1)
    BY <1>2, <2>1
  <2> DEFINE h == [i \in 0 .. m |-> IF i = m THEN Held(id, m, g) ELSE g[i]]
  <2>3. \A i \in 0 .. m - 1 : h[i] = g[i] /\ g[i] = Held(id, i, g)
    <3>1. g = [i \in 0 .. m - 1 |-> Held(id, i, g)]
      BY <2>2 DEF Solves
    <3> TAKE i \in 0 .. m - 1
    <3>2. i \in 0 .. m /\ i # m
      BY <2>1
    <3> HIDE DEF Held
    <3> QED
      BY <3>1, <3>2
  <2>4. h[m] = Held(id, m, g) /\ h = [i \in 0 .. m |-> h[i]]
    BY <2>1
  <2> HIDE DEF h
  <2>5. ASSUME NEW i \in 1 .. m  PROVE Held(id, i, h) = Held(id, i, g)
    <3>1. i \in 1 .. Depth /\ i - 1 \in 0 .. m - 1
      BY <2>1
    <3>2. h[i - 1] = g[i - 1]
      BY <2>3, <3>1
    <3>3. call_stack[i].parent = NoFrame \/ call_stack[i].parent.index = i - 1
      BY <3>1 DEF Backward
    <3> QED
      BY <3>2, <3>3 DEF Held
  <2>6. ASSUME NEW i \in 0 .. m  PROVE h[i] = Held(id, i, h)
    <3>1. i = 0 \/ (i \in 1 .. m /\ i \in 0 .. m - 1) \/ i = m
      BY <2>1
    <3>2. CASE i = 0
      <4>1. 0 \in 0 .. m - 1
        BY <2>1
      <4> QED
        BY <2>3, <3>2, <4>1 DEF Held
    <3>3. CASE i \in 1 .. m /\ i \in 0 .. m - 1
      BY <2>3, <2>5, <3>3
    <3>4. CASE i = m
      <4>1. m \in 1 .. m
        BY <2>1
      <4> QED
        BY <2>4, <2>5, <3>4, <4>1
    <3> QED
      BY <3>1, <3>2, <3>3, <3>4
  <2>7. Solves(h, id, m)
    <3>1. h = [i \in 0 .. m |-> Held(id, i, h)]
      BY <2>4, <2>6
    <3> QED
      BY <3>1 DEF Solves
  <2> QED
    BY <2>7
<1> QED
  BY <1>3, <1>4

(* The value is in the frame that was found.                                 *)
LEMMA HoldersFind ==
  ASSUME Backward, Depth \in Nat, NEW id, NEW i \in 0 .. Depth
  PROVE  LET j == Holders(id)[i]
         IN j \in {-1, 0} \/ (j \in 1 .. Depth /\ id \in DOMAIN call_stack[j].lookup)
<1> DEFINE H == Holders(id)
           Finds(j) == j \in {-1, 0} \/ (j \in 1 .. Depth /\ id \in DOMAIN call_stack[j].lookup)
           T == {k \in 0 .. Depth : ~ Finds(H[k])}
<1>1. \A k \in 0 .. Depth : H[k] = Held(id, k, H)
  <2>1. H = [k \in 0 .. Depth |-> Held(id, k, H)]
    BY HoldersDefined, Zenon DEF Solves
  <2> HIDE DEF H, Held
  <2> QED
    BY <2>1
<1> HIDE DEF H
<1>2. ASSUME T # {} PROVE FALSE
  <2>1. PICK k \in T : \A j \in T : k <= j
    <3>1. T \subseteq Nat
      OBVIOUS
    <3> QED
      BY <1>2, <3>1, LeastElement
  <2>2. k \in 0 .. Depth /\ ~ Finds(H[k])
    OBVIOUS
  <2>3. CASE k = 0
    BY <1>1, <2>2, <2>3 DEF Held
  <2>4. CASE k # 0
    <3>1. k \in 1 .. Depth /\ k - 1 \in 0 .. Depth /\ ~(k <= k - 1)
      BY <2>2, <2>4
    <3>2. Finds(H[k - 1])
      BY <2>1, <3>1
    <3>3. call_stack[k].parent = NoFrame \/ call_stack[k].parent.index = k - 1
      BY <3>1 DEF Backward
    <3>4. H[k] = Held(id, k, H)
      BY <1>1, <2>2
    <3>5. Finds(Held(id, k, H))
      BY <3>1, <3>2, <3>3 DEF Held
    <3> QED
      BY <2>2, <3>4, <3>5
  <2> QED
    BY <2>3, <2>4
<1> QED
  BY <1>2 DEF H

LEMMA StackedBackward ==
  ASSUME NEW p, NEW acts, NEW o, Stacked(p, call_stack, acts, o)
  PROVE  Backward /\ Depth \in Nat
<1>1. /\ o \in Nat /\ Len(acts) \in Nat /\ Depth = o + Len(acts)
      /\ \A i \in 1 .. o : call_stack[i].parent = NoFrame
      /\ \A k \in 1 .. Len(acts) : Placed(p, acts[k], call_stack[o + k], o + k)
  <2>1. acts \in Seq(Activation)
    BY DEF Stacked
  <2>2. Len(acts) \in Nat
    BY <2>1, LenProperties
  <2> QED
    BY <2>2 DEF Stacked, Depth
<1>2. PICK n : n = Len(acts)
  OBVIOUS
<1>3. ASSUME NEW i \in 1 .. Depth
      PROVE  call_stack[i].parent = NoFrame \/ call_stack[i].parent.index = i - 1
  <2>1. CASE i <= o
    BY <1>1, <2>1
  <2>2. CASE i > o
    <3>1. PICK k \in 1 .. Len(acts) : i = o + k
      <4>1. n \in Nat /\ o \in Nat /\ i \in 1 .. o + n
        BY <1>1, <1>2
      <4>2. i - o \in 1 .. n /\ i = o + (i - o)
        BY <2>2, <4>1
      <4> QED
        BY <1>2, <4>2
    <3> QED
      BY <1>1, <3>1 DEF Placed
  <2>3. i <= o \/ i > o
    <3>1. n \in Nat /\ o \in Nat /\ i \in 1 .. o + n
      BY <1>1, <1>2
    <3> QED
      BY <3>1
  <2> QED
    BY <2>1, <2>2, <2>3
<1>4. Depth \in Nat
  <2>1. n \in Nat /\ o \in Nat /\ Depth = o + n
    BY <1>1, <1>2
  <2> QED
    BY <2>1
<1> QED
  BY <1>3, <1>4 DEF Backward

(* What is read is sound, when it is there or when its global is known.      *)
LEMMA GetSound ==
  ASSUME Backward, Depth \in Nat, NEW res, GoodMemory(Memory, res), NEW id, NEW pointer,
         pointer.index \in 0 .. Depth, Holder(pointer, id) # -1,
         Holder(pointer, id) = 0 => id[2] \in Nat /\ id[2] \in DOMAIN res /\ res[id[2]] \in Value
  PROVE  Sound(Get(pointer, id), Len(heap), res)
<1>1. PICK j : j = Holder(pointer, id)
  OBVIOUS
<1>2. j = Holders(id)[pointer.index]
  BY <1>1 DEF Holder
<1>3. j = 0 \/ (j \in 1 .. Depth /\ id \in DOMAIN call_stack[j].lookup)
  BY <1>1, <1>2, HoldersFind
<1>4. PICK h : h = Len(heap)
  OBVIOUS
<1>5. GoodHeap(heap, res) /\ GoodFrames(call_stack, h)
  BY <1>4 DEF GoodMemory, Memory
<1>6. CASE j = 0
  <2>1. Get(pointer, id) = [kind |-> "global", n |-> id[2]]
    BY <1>1, <1>6 DEF Get
  <2>2. id[2] \in Nat /\ id[2] \in DOMAIN res /\ res[id[2]] \in Value
    BY <1>1, <1>6
  <2> QED
    BY <2>1, <2>2 DEF Sound, Value, Kinds
<1>7. CASE j \in 1 .. Depth /\ id \in DOMAIN call_stack[j].lookup
  <2>1. h \in Nat /\ call_stack \in Seq(Frame(h))
    BY <1>5 DEF GoodFrames
  <2>2. PICK f : f = call_stack[j]
    OBVIOUS
  <2>3. f \in Frame(h)
    BY <1>7, <2>1, <2>2 DEF Depth
  <2>4. f.lookup[id] \in DOMAIN f.values /\ f.values \in Seq(1 .. h)
    BY <1>7, <2>1, <2>2, <2>3, FrameFields
  <2>5. f.values[f.lookup[id]] \in 1 .. h
    <3>1. PICK k : k = f.lookup[id]
      OBVIOUS
    <3>2. f.values \in [1 .. Len(f.values) -> 1 .. h] /\ k \in 1 .. Len(f.values)
      BY <2>4, <3>1, LenProperties
    <3> QED
      BY <3>1, <3>2
  <2>6. Get(pointer, id) = heap[f.values[f.lookup[id]]]
    BY <1>1, <1>7, <2>2 DEF Get
  <2> QED
    BY <1>4, <1>5, <2>5, <2>6 DEF GoodHeap
<1> QED
  BY <1>3, <1>6, <1>7
-------------------------------------------------------------------------------
(* Activations: the last one is replaced, another is pushed, or it is popped. *)
LEMMA LastSet ==
  ASSUME NEW S, NEW s \in Seq(S), s # <<>>, NEW e \in S
  PROVE  LET t == Append(SubSeq(s, 1, Len(s) - 1), e)
         IN /\ t \in Seq(S) /\ Len(t) = Len(s) /\ t[Len(s)] = e
            /\ \A i \in 1 .. Len(s) - 1 : t[i] = s[i]
<1>1. PICK n : n = Len(s)
  OBVIOUS
<1>2. n \in Nat \ {0} /\ s \in [1 .. n -> S]
  BY <1>1, EmptySeq, LenProperties
<1>3. PICK m \in Nat : m = n - 1
  BY <1>2
<1>4. n = m + 1 /\ 1 \in Int /\ m \in Int /\ m - 1 + 1 = m
  BY <1>2, <1>3
<1>5. PICK b : b = SubSeq(s, 1, m)
  OBVIOUS
<1>6. b \in Seq(S) /\ Len(b) = m /\ \A i \in 1 .. m : b[i] = s[i]
  <2>1. \A i \in 1 .. m : s[i] \in S
    BY <1>2, <1>3
  <2>2. /\ b \in Seq(S) /\ Len(b) = IF 1 <= m THEN m - 1 + 1 ELSE 0
        /\ \A i \in 1 .. m - 1 + 1 : b[i] = s[1 + i - 1]
    BY <1>4, <1>5, <2>1, SubSeqProperties
  <2> QED
    BY <1>3, <1>4, <2>2
<1>7. PICK t : t = Append(b, e)
  OBVIOUS
<1>8. t \in Seq(S) /\ Len(t) = m + 1 /\ t[m + 1] = e /\ \A i \in 1 .. m : t[i] = b[i]
  BY <1>6, <1>7, AppendProperties
<1> QED
  BY <1>1, <1>3, <1>4, <1>5, <1>6, <1>7, <1>8

LEMMA StackedLength ==
  ASSUME NEW p, NEW fs, NEW acts, NEW o, Stacked(p, fs, acts, o)
  PROVE  /\ Len(acts) \in Nat /\ o \in Nat /\ Len(fs) = o + Len(acts) /\ Len(fs) \in Nat
         /\ acts \in Seq(Activation) /\ \A k \in 1 .. Len(acts) : acts[k] \in Activation
         /\ acts # <<>> => Len(acts) # 0
<1>1. acts \in Seq(Activation) /\ o \in Nat /\ Len(fs) = o + Len(acts)
  BY DEF Stacked
<1>2. PICK S : S = Activation
  OBVIOUS
<1>3. acts \in Seq(S)
  BY <1>1, <1>2
<1>4. Len(acts) \in Nat /\ \A k \in 1 .. Len(acts) : acts[k] \in S
  BY <1>3
<1>5. acts # <<>> => Len(acts) # 0
  BY <1>3, EmptySeq
<1>6. PICK n : n = Len(acts)
  OBVIOUS
<1>7. Len(fs) \in Nat
  <2>1. n \in Nat /\ o \in Nat /\ Len(fs) = o + n
    BY <1>1, <1>4, <1>6
  <2> QED
    BY <2>1
<1> QED
  BY <1>1, <1>2, <1>4, <1>5, <1>7

LEMMA StackedChanged ==
  ASSUME NEW p, NEW fs, NEW acts, NEW o, Stacked(p, fs, acts, o), acts # <<>>,
         NEW gs, SameFrames(fs, gs), \A i \in 1 .. Len(fs) : Len(fs[i].values) \in Nat,
         NEW a \in Activation, Placed(p, a, gs[Len(fs)], Len(fs)),
         acts[Len(acts)].block = 0 => a.block = 0
  PROVE  Stacked(p, gs, Append(SubSeq(acts, 1, Len(acts) - 1), a), o)
<1>1. PICK n, d : n = Len(acts) /\ d = Len(fs)
  OBVIOUS
<1>2. n \in Nat \ {0} /\ o \in Nat /\ d = o + n /\ acts \in Seq(Activation)
  <2>1. /\ Len(acts) \in Nat /\ o \in Nat /\ Len(fs) = o + Len(acts) /\ acts \in Seq(Activation)
        /\ Len(acts) # 0
    BY StackedLength
  <2> QED
    BY <1>1, <2>1
<1>3. PICK bs : bs = Append(SubSeq(acts, 1, Len(acts) - 1), a)
  OBVIOUS
<1>4. /\ bs \in Seq(Activation) /\ Len(bs) = n /\ bs[n] = a
      /\ \A k \in 1 .. n - 1 : bs[k] = acts[k]
  <2>1. PICK S : S = Activation
    OBVIOUS
  <2>2. acts \in Seq(S) /\ a \in S
    BY <1>2, <2>1
  <2>3. /\ bs \in Seq(S) /\ Len(bs) = Len(acts) /\ bs[Len(acts)] = a
        /\ \A k \in 1 .. Len(acts) - 1 : bs[k] = acts[k]
    BY <1>3, <2>2, LastSet
  <2> QED
    BY <1>1, <2>1, <2>3
<1>5. /\ \A i \in 1 .. o : fs[i].parent = NoFrame
      /\ \A k \in 1 .. n : Placed(p, acts[k], fs[o + k], o + k)
      /\ \A k \in 2 .. n : Waits(acts[k - 1], fs[o + k])
      /\ acts[1].block = 0
  BY <1>1 DEF Stacked
<1>6. /\ Len(gs) = d
      /\ \A i \in 1 .. d : /\ gs[i].parent = fs[i].parent
                           /\ Len(gs[i].values) \in Nat /\ Len(fs[i].values) \in Nat
                           /\ Len(fs[i].values) <= Len(gs[i].values)
  BY <1>1 DEF SameFrames
<1>7. ASSUME NEW k \in 1 .. n  PROVE Placed(p, bs[k], gs[o + k], o + k)
  <2>1. CASE k = n
    BY <1>1, <1>2, <1>4, <2>1
  <2>2. CASE k # n
    <3>1. k \in 1 .. n - 1 /\ o + k \in 1 .. d
      BY <1>2, <2>2
    <3>2. bs[k] = acts[k] /\ Placed(p, acts[k], fs[o + k], o + k)
      BY <1>4, <1>5, <3>1
    <3>3. /\ gs[o + k].parent = fs[o + k].parent
          /\ Len(fs[o + k].values) # 0 => Len(gs[o + k].values) # 0
      <4> DEFINE x == Len(fs[o + k].values)
                 y == Len(gs[o + k].values)
      <4>1. gs[o + k].parent = fs[o + k].parent /\ x \in Nat /\ y \in Nat /\ x <= y
        BY <1>6, <3>1
      <4> HIDE DEF x, y
      <4>2. x # 0 => y # 0
        BY <4>1
      <4> QED
        BY <4>1, <4>2 DEF x, y
    <3> QED
      BY <3>2, <3>3 DEF Placed
  <2> QED
    BY <2>1, <2>2
<1>8. \A i \in 1 .. o : gs[i].parent = NoFrame
  <2>1. \A i \in 1 .. o : i \in 1 .. d
    BY <1>2
  <2> QED
    BY <1>5, <1>6, <2>1
<1>9. ASSUME NEW k \in 2 .. n
      PROVE  Waits(bs[k - 1], gs[o + k])
  <2>1. k - 1 \in 1 .. n - 1 /\ o + k \in 1 .. d
    BY <1>2
  <2> QED
    BY <1>4, <1>5, <1>6, <2>1 DEF Waits
<1>10. bs[1].block = 0
  <2>1. CASE n = 1
    BY <1>1, <1>4, <1>5, <2>1
  <2>2. CASE n # 1
    <3>1. 1 \in 1 .. n - 1
      BY <1>2, <2>2
    <3> QED
      BY <1>4, <1>5, <3>1
  <2> QED
    BY <2>1, <2>2
<1> QED
  BY <1>2, <1>3, <1>4, <1>6, <1>7, <1>8, <1>9, <1>10 DEF Stacked

LEMMA StackedAppended ==
  ASSUME NEW p, NEW fs, NEW acts, NEW o, Stacked(p, fs, acts, o), acts # <<>>,
         NEW gs, Len(gs) = Len(fs) + 1, \A i \in 1 .. Len(fs) : gs[i] = fs[i],
         NEW a \in Activation, Placed(p, a, gs[Len(fs) + 1], Len(fs) + 1),
         Waits(acts[Len(acts)], gs[Len(fs) + 1])
  PROVE  Stacked(p, gs, Append(acts, a), o)
<1>1. PICK n, d : n = Len(acts) /\ d = Len(fs)
  OBVIOUS
<1>2. n \in Nat \ {0} /\ o \in Nat /\ d = o + n /\ acts \in Seq(Activation)
  <2>1. /\ Len(acts) \in Nat /\ o \in Nat /\ Len(fs) = o + Len(acts) /\ acts \in Seq(Activation)
        /\ Len(acts) # 0
    BY StackedLength
  <2> QED
    BY <1>1, <2>1
<1>3. PICK bs : bs = Append(acts, a)
  OBVIOUS
<1>4. /\ bs \in Seq(Activation) /\ Len(bs) = n + 1 /\ bs[n + 1] = a
      /\ \A k \in 1 .. n : bs[k] = acts[k]
  <2>1. PICK S : S = Activation
    OBVIOUS
  <2>2. acts \in Seq(S) /\ a \in S
    BY <1>2, <2>1
  <2>3. /\ bs \in Seq(S) /\ Len(bs) = Len(acts) + 1 /\ bs[Len(acts) + 1] = a
        /\ \A k \in 1 .. Len(acts) : bs[k] = acts[k]
    BY <1>3, <2>2, AppendProperties
  <2> QED
    BY <1>1, <2>1, <2>3
<1>5. /\ \A i \in 1 .. o : fs[i].parent = NoFrame
      /\ \A k \in 1 .. n : Placed(p, acts[k], fs[o + k], o + k)
      /\ \A k \in 2 .. n : Waits(acts[k - 1], fs[o + k])
      /\ acts[1].block = 0
  BY <1>1 DEF Stacked
<1>6. Len(gs) = d + 1 /\ \A i \in 1 .. d : gs[i] = fs[i]
  BY <1>1
<1>7. ASSUME NEW k \in 1 .. n + 1  PROVE Placed(p, bs[k], gs[o + k], o + k)
  <2>1. CASE k = n + 1
    <3>1. o + k = d + 1
      BY <1>2, <2>1
    <3> QED
      BY <1>1, <1>4, <2>1, <3>1
  <2>2. CASE k # n + 1
    <3>1. k \in 1 .. n /\ o + k \in 1 .. d
      BY <1>2, <2>2
    <3> QED
      BY <1>4, <1>5, <1>6, <3>1
  <2> QED
    BY <2>1, <2>2
<1>8. \A i \in 1 .. o : gs[i].parent = NoFrame
  <2>1. \A i \in 1 .. o : i \in 1 .. d
    BY <1>2
  <2> QED
    BY <1>5, <1>6, <2>1
<1>9. ASSUME NEW k \in 2 .. n + 1
      PROVE  Waits(bs[k - 1], gs[o + k])
  <2>1. CASE k = n + 1
    <3>1. o + k = d + 1 /\ k - 1 = n /\ n \in 1 .. n
      BY <1>2, <2>1
    <3> QED
      BY <1>1, <1>4, <3>1
  <2>2. CASE k # n + 1
    <3>1. k - 1 \in 1 .. n /\ k \in 2 .. n /\ o + k \in 1 .. d
      BY <1>2, <2>2
    <3> QED
      BY <1>4, <1>5, <1>6, <3>1
  <2> QED
    BY <2>1, <2>2
<1>10. bs[1].block = 0
  <2>1. 1 \in 1 .. n
    BY <1>2
  <2> QED
    BY <1>4, <1>5, <2>1
<1>11. Len(gs) = o + Len(bs)
  BY <1>2, <1>4, <1>6
<1> QED
  BY <1>2, <1>3, <1>4, <1>7, <1>8, <1>9, <1>10, <1>11 DEF Stacked

LEMMA StackedPopped ==
  ASSUME NEW p, NEW fs, NEW acts, NEW o, Stacked(p, fs, acts, o), acts # <<>>,
         NEW gs, Len(gs) = Len(fs) - 1, \A i \in 1 .. Len(fs) - 1 : gs[i] = fs[i]
  PROVE  LET bs == SubSeq(acts, 1, Len(acts) - 1)
         IN /\ Stacked(p, gs, bs, o) /\ Len(bs) = Len(acts) - 1
            /\ \A k \in 1 .. Len(acts) - 1 : bs[k] = acts[k]
<1>1. PICK n, d : n = Len(acts) /\ d = Len(fs)
  OBVIOUS
<1>2. n \in Nat \ {0} /\ o \in Nat /\ d = o + n /\ acts \in Seq(Activation)
  <2>1. /\ Len(acts) \in Nat /\ o \in Nat /\ Len(fs) = o + Len(acts) /\ acts \in Seq(Activation)
        /\ Len(acts) # 0
    BY StackedLength
  <2> QED
    BY <1>1, <2>1
<1>3. PICK m \in Nat : m = n - 1
  BY <1>2
<1>4. PICK bs : bs = SubSeq(acts, 1, m)
  OBVIOUS
<1>5. bs \in Seq(Activation) /\ Len(bs) = m /\ \A k \in 1 .. m : bs[k] = acts[k]
  <2>1. PICK S : S = Activation
    OBVIOUS
  <2>2. acts \in Seq(S)
    BY <1>2, <2>1
  <2>3. \A i \in 1 .. n : acts[i] \in S
    BY <1>1, <2>2
  <2>4. 1 \in Int /\ m \in Int /\ \A i \in 1 .. m : acts[i] \in S
    BY <1>2, <1>3, <2>3
  <2>5. /\ bs \in Seq(S) /\ Len(bs) = IF 1 <= m THEN m - 1 + 1 ELSE 0
        /\ \A i \in 1 .. m - 1 + 1 : bs[i] = acts[1 + i - 1]
    BY <1>4, <2>4, SubSeqProperties
  <2>6. (IF 1 <= m THEN m - 1 + 1 ELSE 0) = m /\ m - 1 + 1 = m
    BY <1>3
  <2>7. \A i \in 1 .. m : 1 + i - 1 = i
    OBVIOUS
  <2> QED
    BY <2>1, <2>5, <2>6, <2>7
<1>6. /\ \A i \in 1 .. o : fs[i].parent = NoFrame
      /\ \A k \in 1 .. n : Placed(p, acts[k], fs[o + k], o + k)
      /\ \A k \in 2 .. n : Waits(acts[k - 1], fs[o + k])
      /\ acts[1].block = 0
  BY <1>1 DEF Stacked
<1>7. Len(gs) = o + m /\ \A i \in 1 .. o + m : gs[i] = fs[i]
  <2>1. d - 1 = o + m
    BY <1>2, <1>3
  <2>2. Len(gs) = d - 1 /\ \A i \in 1 .. d - 1 : gs[i] = fs[i]
    BY <1>1
  <2> QED
    BY <2>1, <2>2
<1>8. \A k \in 1 .. m : Placed(p, bs[k], gs[o + k], o + k)
  <2>1. \A k \in 1 .. m : k \in 1 .. n /\ o + k \in 1 .. o + m
    BY <1>2, <1>3
  <2> QED
    BY <1>5, <1>6, <1>7, <2>1
<1>9. \A i \in 1 .. o : gs[i].parent = NoFrame
  <2>1. \A i \in 1 .. o : i \in 1 .. o + m
    BY <1>2
  <2> QED
    BY <1>6, <1>7, <2>1
<1>10. \A k \in 2 .. m : Waits(bs[k - 1], gs[o + k])
  <2>1. \A k \in 2 .. m : k \in 2 .. n /\ o + k \in 1 .. o + m /\ k - 1 \in 1 .. m
    BY <1>2, <1>3
  <2> QED
    BY <1>5, <1>6, <1>7, <2>1
<1>11. bs # <<>> => bs[1].block = 0
  <2>1. bs # <<>> => 1 \in 1 .. m
    BY <1>3, <1>5, EmptySeq
  <2> QED
    BY <1>5, <1>6, <2>1
<1> QED
  BY <1>1, <1>2, <1>3, <1>4, <1>5, <1>7, <1>8, <1>9, <1>10, <1>11 DEF Stacked
-------------------------------------------------------------------------------
(* What holds while an evaluation runs.                                      *)
LEMMA Current ==
  ASSUME Evaluating, Running
  PROVE  /\ Depth \in Nat \ {0} /\ Len(activations) \in Nat \ {0} /\ activations # <<>>
         /\ Depth = Len(call_stack) /\ Depth = OuterDepth + Len(activations)
         /\ Stacked(program, call_stack, activations, OuterDepth)
         /\ Top \in Activation /\ Top = activations[Len(activations)]
         /\ Placed(program, Top, call_stack[Depth], Depth)
         /\ GoodMemory(Memory, resolved) /\ GoodFrames(call_stack, Len(heap))
         /\ Backward /\ Len(heap) \in Nat
         /\ SameFrames(call_stack, call_stack)
         /\ \A i \in 1 .. Len(call_stack) : Len(call_stack[i].values) \in Nat
<1>1. /\ activations # <<>> /\ Stacked(program, call_stack, activations, OuterDepth)
      /\ GoodMemory(Memory, resolved) /\ Depth = Len(call_stack)
  BY DEF Evaluating, Depth
<1>2. PICK n, o : n = Len(activations) /\ o = OuterDepth
  OBVIOUS
<1>3. /\ n \in Nat \ {0} /\ o \in Nat /\ Depth = o + n
      /\ \A k \in 1 .. n : activations[k] \in Activation
  <2>1. /\ Len(activations) \in Nat /\ OuterDepth \in Nat
        /\ Len(call_stack) = OuterDepth + Len(activations) /\ Len(activations) # 0
        /\ \A k \in 1 .. Len(activations) : activations[k] \in Activation
    BY <1>1, StackedLength
  <2> QED
    BY <1>1, <1>2, <2>1
<1>4. n \in 1 .. n /\ Depth \in Nat \ {0}
  BY <1>3
<1>5. Top = activations[n] /\ Top \in Activation
  BY <1>2, <1>3, <1>4 DEF Top
<1>6. Placed(program, Top, call_stack[Depth], Depth)
  BY <1>1, <1>2, <1>3, <1>4, <1>5 DEF Stacked
<1>7. Backward
  BY <1>1, StackedBackward
<1>8. GoodFrames(call_stack, Len(heap))
  BY <1>1 DEF GoodMemory, Memory
<1>9. /\ SameFrames(call_stack, call_stack)
      /\ \A i \in 1 .. Len(call_stack) : Len(call_stack[i].values) \in Nat
  BY <1>8, SameFramesSelf
<1>10. Len(heap) \in Nat
  BY <1>8 DEF GoodFrames
<1> QED
  BY <1>1, <1>2, <1>3, <1>4, <1>5, <1>6, <1>7, <1>8, <1>9, <1>10

(* The instruction to be executed is one of the program.                     *)
Proper(p, inst) ==
  /\ inst \in Instruction
  /\ \A t \in DOMAIN inst.to : inst.to[t] \in DOMAIN p.blocks
  /\ inst.op \in {"call", "comptime", "br"} => Len(inst.to) = 1
  /\ inst.op = "condbr" => Len(inst.to) = 2
  /\ inst.op \in Binary \cup {"store"} => Len(inst.args) = 2
  /\ inst.op \in {"local", "load", "condbr", "arg", "typeof"} => inst.args # <<>>
  /\ inst.value.kind \notin Pointers /\ inst.value # Freed

LEMMA ProgramFields ==
  ASSUME NEW p \in Program
  PROVE  /\ p.blocks \in Seq(Seq(Instruction)) /\ p.globals \in Seq(Nat) /\ p.globals # <<>>
         /\ 1 \in DOMAIN p.globals /\ DOMAIN p.globals \subseteq Nat
         /\ 0 \notin DOMAIN p.blocks /\ DOMAIN p.blocks \subseteq Nat
         /\ \A g \in DOMAIN p.globals : p.globals[g] \in DOMAIN p.blocks
         /\ \A b \in DOMAIN p.blocks :
              /\ p.blocks[b] \in Seq(Instruction)
              /\ \A i \in DOMAIN p.blocks[b] : Proper(p, p.blocks[b][i])
<1>1. /\ p.blocks \in Seq(Seq(Instruction)) /\ p.globals \in Seq(Nat) /\ p.globals # <<>>
      /\ \A g \in DOMAIN p.globals : p.globals[g] \in DOMAIN p.blocks
  BY ProgramAssumption DEF Blocks, Globals
<1>2. Len(p.globals) \in Nat \ {0} /\ DOMAIN p.globals = 1 .. Len(p.globals)
  BY <1>1, EmptySeq, LenProperties
<1>3. PICK S : S = Instruction
  OBVIOUS
<1>4. p.blocks \in Seq(Seq(S))
  BY <1>1, <1>3
<1>5. /\ DOMAIN p.blocks = 1 .. Len(p.blocks) /\ Len(p.blocks) \in Nat
      /\ \A b \in DOMAIN p.blocks : p.blocks[b] \in Seq(S)
  BY <1>4
<1>6. \A b \in DOMAIN p.blocks : \A i \in DOMAIN p.blocks[b] : p.blocks[b][i] \in S
  BY <1>5
<1>7. ASSUME NEW b \in DOMAIN p.blocks, NEW i \in DOMAIN p.blocks[b]
      PROVE  Proper(p, p.blocks[b][i])
  <2>1. p.blocks[b][i] \in Instruction
    BY <1>3, <1>6
  <2>2. p.blocks[b][i].value.kind \notin Pointers /\ p.blocks[b][i].value # Freed
    BY ProgramAssumption DEF Pointers, Freed
  <2> QED
    BY <2>1, <2>2, ProgramAssumption DEF Proper
<1> QED
  BY <1>1, <1>2, <1>3, <1>5, <1>7

LEMMA CurrentInst ==
  ASSUME Evaluating, Running, ~Finished
  PROVE  /\ Proper(program, Inst) /\ InstId \in ValueId
         /\ Here \in Pointer /\ Here.index = Depth /\ Here # NoFrame
         /\ Inst.op # "comptime" => Top.block # 0
         /\ Top.block = 0 => Top.pc = 0 /\ Inst.args = <<>>
<1>1. /\ Top \in Activation /\ Placed(program, Top, call_stack[Depth], Depth)
      /\ Depth \in Nat \ {0} /\ program \in Program /\ table \in Nat
  BY Current DEF Evaluating
<1>2. Top.block \in Nat /\ Top.pc \in Nat /\ Top.home \in Pointer /\ Top.frame \in Pointer
  BY <1>1 DEF Activation
<1>3. InstId \in ValueId
  BY <1>2 DEF InstId, ValueId
<1>4. ASSUME Top.block = 0
      PROVE  /\ Proper(program, Inst) /\ Inst.op = "comptime"
             /\ Top.pc = 0 /\ Inst.args = <<>>
  <2>1. Top.pc = 0 /\ Top.global \in DOMAIN program.globals
    BY <1>1, <1>4 DEF Placed, Finished
  <2>2. Inst = Constant(Top.global)
    BY <1>4 DEF Inst
  <2>3. PICK b : b = program.globals[Top.global]
    OBVIOUS
  <2>4. b \in DOMAIN program.blocks /\ b \in Nat
    BY <1>1, <2>1, <2>3, ProgramFields
  <2>5. Inst = [op |-> "comptime", args |-> <<>>, value |-> Void, to |-> <<b>>]
    BY <2>2, <2>3 DEF Constant
  <2>6. /\ <<b>> \in Seq(Nat) /\ Len(<<b>>) = 1
        /\ \A t \in DOMAIN <<b>> : <<b>>[t] \in DOMAIN program.blocks
    BY <2>4
  <2>7. Void \in Value /\ Void.kind \notin Pointers /\ Void # Freed
    BY DEF Void, Freed, Value, Kinds, Pointers
  <2>8. Inst \in Instruction
    <3>1. <<>> \in Seq(ValueId)
      BY EmptySeq
    <3>2. "comptime" \in Ops
      BY DEF Ops
    <3> QED
      BY <2>5, <2>6, <2>7, <3>1, <3>2 DEF Instruction
  <2>9. Proper(program, Inst)
    BY <2>5, <2>6, <2>7, <2>8 DEF Proper, Binary
  <2>10. Inst.op = "comptime" /\ Inst.args = <<>>
    BY <2>5
  <2> QED
    BY <2>1, <2>9, <2>10
<1>5. ASSUME Top.block # 0  PROVE Proper(program, Inst)
  <2>1. PICK b : b = Top.block
    OBVIOUS
  <2>2. b \in DOMAIN program.blocks /\ Top.pc # 0
    BY <1>1, <1>5, <2>1 DEF Placed
  <2>3. ~(Top.pc > Len(program.blocks[b]))
    BY <1>5, <2>1 DEF Finished
  <2>4. /\ program.blocks[b] \in Seq(Instruction)
        /\ \A i \in DOMAIN program.blocks[b] : Proper(program, program.blocks[b][i])
    BY <1>1, <2>2, ProgramFields
  <2>5. Len(program.blocks[b]) \in Nat /\ DOMAIN program.blocks[b] = 1 .. Len(program.blocks[b])
    BY <2>4, LenProperties
  <2>6. Top.pc \in DOMAIN program.blocks[b]
    BY <1>2, <2>2, <2>3, <2>5
  <2>7. Inst = program.blocks[b][Top.pc]
    BY <1>5, <2>1 DEF Inst
  <2> QED
    BY <1>5, <2>4, <2>6, <2>7
<1>6. Here \in Pointer /\ Here.index = Depth
  <2>1. CASE Inst.op = "condbr"
    <3>1. Top.block # 0
      BY <2>1, <1>4
    <3>2. Here = Top.home
      BY <2>1 DEF Here
    <3> QED
      BY <1>1, <1>2, <3>1, <3>2 DEF Placed
  <2>2. CASE Inst.op # "condbr" /\ Top.frame # NoFrame
    <3>1. Here = Top.frame
      BY <2>2 DEF Here
    <3> QED
      BY <1>1, <1>2, <2>2, <3>1 DEF Placed
  <2>3. CASE Inst.op # "condbr" /\ Top.frame = NoFrame
    <3>1. Here = [index |-> Depth, table |-> table]
      BY <2>3 DEF Here, CurrentStack
    <3> QED
      BY <1>1, <3>1 DEF Pointer
  <2> QED
    BY <2>1, <2>2, <2>3
<1>7. Here # NoFrame
  BY <1>1, <1>6 DEF NoFrame
<1> QED
  BY <1>3, <1>4, <1>5, <1>6, <1>7
-------------------------------------------------------------------------------
(* Operands that can be read are sound.                                      *)
LEMMA OperandSound ==
  ASSUME Evaluating, NEW op, Ready(op), NEW k \in DOMAIN Inst.args
  PROVE  Sound(Arg(k), Len(heap), resolved) /\ Arg(k) \in Value
<1>1. PICK id : id = Inst.args[k]
  OBVIOUS
<1>2. Evaluating /\ Running /\ ~Finished
  BY DEF Ready
<1>3. id \in ValueId
  <2>1. Inst \in Instruction
    BY <1>2, CurrentInst DEF Proper
  <2>2. Inst.args \in Seq(ValueId)
    BY <2>1 DEF Instruction
  <2> QED
    BY <1>1, <2>2, LenProperties
<1>4. id[2] \in Nat
  BY <1>3 DEF ValueId
<1>5. Holder(Here, id) # -1
  BY <1>1 DEF Ready, Lost
<1>6. ASSUME Holder(Here, id) = 0
      PROVE  id[2] \in DOMAIN resolved /\ resolved[id[2]] \in Value
  <2>1. id[2] \in Needed
    BY <1>1, <1>6 DEF Needed
  <2> QED
    BY <2>1 DEF Ready
<1>7. Here.index \in 0 .. Depth /\ Depth \in Nat /\ Backward /\ GoodMemory(Memory, resolved)
  <2>1. Here.index = Depth /\ Depth \in Nat \ {0}
    BY <1>2, Current, CurrentInst
  <2> QED
    BY <1>2, <2>1, Current
<1>8. Sound(Get(Here, id), Len(heap), resolved)
  BY <1>4, <1>5, <1>6, <1>7, GetSound
<1>9. Arg(k) = Get(Here, id)
  BY <1>1 DEF Arg
<1> QED
  BY <1>8, <1>9 DEF Sound

LEMMA PointedSound ==
  ASSUME Evaluating, NEW op, Ready(op), 1 \in DOMAIN Inst.args, Arg(1).kind \in Pointers
  PROVE  /\ Sound(Pointed, Len(heap), resolved)
         /\ Arg(1).kind = "ptr" => Arg(1).n \in 1 .. Len(heap)
<1>1. Sound(Arg(1), Len(heap), resolved)
  BY OperandSound
<1>2. KnownSound(resolved, Len(heap)) /\ GoodHeap(heap, resolved)
  BY DEF Evaluating, GoodMemory, Memory
<1>3. CASE Arg(1).kind = "ptr"
  <2>1. Arg(1).n \in 1 .. Len(heap)
    BY <1>1, <1>3 DEF Sound
  <2>2. Pointed = heap[Arg(1).n]
    BY <1>3 DEF Pointed
  <2> QED
    BY <1>2, <1>3, <2>1, <2>2 DEF GoodHeap
<1>4. CASE Arg(1).kind = "global"
  <2>1. Arg(1).n \in DOMAIN resolved /\ resolved[Arg(1).n] \in Value
    BY <1>1, <1>4 DEF Sound
  <2>2. Pointed = resolved[Arg(1).n]
    BY <1>4 DEF Pointed
  <2> QED
    BY <1>2, <1>4, <2>1, <2>2 DEF KnownSound
<1> QED
  BY <1>3, <1>4 DEF Pointers

(* The parts of the invariant after a step.                                  *)
LEMMA NextEvaluating ==
  ASSUME Evaluating,
         Stacked(program, call_stack', activations', OuterDepth),
         GoodMemory([frames |-> call_stack', heap |-> heap'], resolved'),
         resolved' \in [DOMAIN program.globals -> Value \cup {Unresolved, Pending}],
         KnownSound(resolved', Len(heap')),
         Len(call_stack') <= capacity', capacity' \in Nat \ {0}, table' \in Nat,
         program' = program, status' \in {"run", "done", "aborted", "undefined"},
         result' \in Value, status' = "run" => activations' # <<>>
  PROVE  Evaluating'
<1>1. PICK n, o : n = Len(activations') /\ o = OuterDepth
  OBVIOUS
<1>2. n \in Nat /\ o \in Nat /\ Len(call_stack') = o + n
  BY <1>1, StackedLength
<1>3. OuterDepth' = o
  <2>1. OuterDepth' = Len(call_stack') - n
    BY <1>1 DEF OuterDepth, Depth
  <2> QED
    BY <1>2, <2>1
<1>4. (Stacked(program, call_stack, activations, OuterDepth))'
  BY <1>1, <1>3
<1>5. (GoodMemory(Memory, resolved))'
  BY DEF Memory
<1>6. Depth' <= capacity'
  BY DEF Depth
<1>7. o \in Outer /\ program' \in Program
  BY <1>1 DEF Evaluating
<1>8. (resolved \in [DOMAIN program.globals -> Value \cup {Unresolved, Pending}])'
  BY DEF Unresolved, Pending
<1>9. (KnownSound(resolved, Len(heap)))'
  BY DEF KnownSound, Sound
<1> QED
  BY <1>3, <1>4, <1>5, <1>6, <1>7, <1>8, <1>9 DEF Evaluating, Running

LEMMA StillEvaluating ==
  ASSUME Evaluating, Running,
         Stacked(program, call_stack', activations', OuterDepth), activations' # <<>>,
         GoodMemory([frames |-> call_stack', heap |-> heap'], resolved'),
         resolved' \in [DOMAIN program.globals -> Value \cup {Unresolved, Pending}],
         KnownSound(resolved', Len(heap')),
         Len(call_stack') <= capacity', capacity' \in Nat \ {0}, table' \in Nat,
         UNCHANGED <<program, status, result>>
  PROVE  Evaluating'
<1>1. status' \in {"run", "done", "aborted", "undefined"} /\ result' \in Value
  BY DEF Evaluating
<1> QED
  BY <1>1, NextEvaluating

(* An instruction was executed, in the frame of its activation.              *)
LEMMA ExecutedStep ==
  ASSUME Evaluating, Running, ~Finished, Top.block # 0,
         NEW m, GoodMemory(m, resolved), SameFrames(call_stack, m.frames),
         Len(heap) <= Len(m.heap), Executed(m)
  PROVE  Evaluating'
<1>1. /\ call_stack' = m.frames /\ heap' = m.heap
      /\ activations' = WithTop([Top EXCEPT !.pc = @ + 1, !.frame = NoFrame])
      /\ UNCHANGED <<program, resolved, status, result, capacity, table>>
  BY DEF Executed, Becomes, Go
<1>2. PICK a : a = [Top EXCEPT !.pc = @ + 1, !.frame = NoFrame]
  OBVIOUS
<1>3. /\ Top \in Activation /\ Placed(program, Top, call_stack[Depth], Depth)
      /\ Depth \in Nat \ {0} /\ Depth = Len(call_stack)
      /\ Stacked(program, call_stack, activations, OuterDepth) /\ activations # <<>>
      /\ \A i \in 1 .. Len(call_stack) : Len(call_stack[i].values) \in Nat
      /\ Top = activations[Len(activations)]
  BY Current
<1>4. /\ a \in Activation /\ a.block = Top.block /\ a.pc = Top.pc + 1
      /\ a.frame = NoFrame /\ a.home = Top.home
  <2>1. PICK t : t = Top
    OBVIOUS
  <2>2. t \in [block : Nat, pc : Nat, home : Pointer, frame : Pointer, global : Nat]
    BY <1>3, <2>1 DEF Activation
  <2>3. NoFrame \in Pointer
    BY DEF NoFrame, Pointer
  <2>4. PICK x : x = NoFrame
    OBVIOUS
  <2>5. PICK n \in Nat : n = t.pc + 1
    BY <2>2
  <2>6. a = [t EXCEPT !.pc = n, !.frame = x]
    BY <1>2, <2>1, <2>4, <2>5
  <2>7. x \in Pointer
    BY <2>3, <2>4
  <2>8. /\ a \in [block : Nat, pc : Nat, home : Pointer, frame : Pointer, global : Nat]
        /\ a.block = t.block /\ a.pc = n /\ a.frame = x /\ a.home = t.home
    BY <2>2, <2>6, <2>7
  <2> QED
    BY <2>1, <2>4, <2>5, <2>8 DEF Activation
<1>5. Placed(program, a, m.frames[Depth], Depth)
  <2>1. m.frames[Depth].parent = call_stack[Depth].parent
    BY <1>3 DEF SameFrames
  <2>2. Top.pc \in Nat
    BY <1>3 DEF Activation
  <2> QED
    BY <1>3, <1>4, <2>1, <2>2 DEF Placed
<1>6. Stacked(program, m.frames, Append(SubSeq(activations, 1, Len(activations) - 1), a), OuterDepth)
  BY <1>3, <1>4, <1>5, StackedChanged
<1>7. activations' = Append(SubSeq(activations, 1, Len(activations) - 1), a)
  BY <1>1, <1>2 DEF WithTop, Below
<1>8. activations' # <<>>
  <2>1. activations' \in Seq(Activation) /\ Len(activations') = Len(activations)
    BY <1>3, <1>4, <1>7, StackedLength, LastSet
  <2> QED
    BY <2>1, Current
<1>9. Stacked(program, call_stack', activations', OuterDepth)
  BY <1>1, <1>6, <1>7
<1>10. GoodMemory([frames |-> call_stack', heap |-> heap'], resolved')
  <2>1. m = [frames |-> m.frames, heap |-> m.heap]
    BY DEF GoodMemory
  <2> QED
    BY <1>1, <2>1
<1>11. KnownSound(resolved', Len(heap'))
  <2>1. Len(heap) \in Nat /\ Len(m.heap) \in Nat /\ KnownSound(resolved, Len(heap))
    BY Current DEF Evaluating, GoodMemory, GoodFrames
  <2>2. KnownSound(resolved, Len(m.heap))
    BY <2>1, SoundOn DEF KnownSound
  <2> QED
    BY <1>1, <2>2
<1>12. /\ Len(call_stack') <= capacity' /\ capacity' \in Nat \ {0} /\ table' \in Nat
       /\ resolved' \in [DOMAIN program.globals -> Value \cup {Unresolved, Pending}]
  <2>1. Len(call_stack') = Len(call_stack)
    BY <1>1 DEF SameFrames
  <2> QED
    BY <1>1, <2>1 DEF Evaluating, Depth
<1> QED
  BY <1>1, <1>8, <1>9, <1>10, <1>11, <1>12, StillEvaluating

LEMMA YieldsStep ==
  ASSUME Evaluating, Running, ~Finished, Top.block # 0, NEW v, Sound(v, Len(heap), resolved),
         Yields(v)
  PROVE  Evaluating'
<1>1. PICK m : m = Added(Memory, Here.index, InstId, v)
  OBVIOUS
<1>2. Executed(m)
  BY <1>1 DEF Yields
<1>3. /\ GoodMemory(Memory, resolved) /\ Depth \in Nat \ {0} /\ Depth = Len(call_stack)
      /\ InstId \in ValueId /\ Here.index = Depth
  BY Current, CurrentInst
<1>4. Memory.frames = call_stack /\ Memory.heap = heap
  BY DEF Memory
<1>5. PICK i : i = Here.index
  OBVIOUS
<1>6. i \in 1 .. Len(Memory.frames) /\ Sound(v, Len(Memory.heap), resolved)
  BY <1>3, <1>4, <1>5
<1>7. PICK id : id = InstId
  OBVIOUS
<1>8. id \in ValueId /\ m = Added(Memory, i, id, v)
  BY <1>1, <1>3, <1>5, <1>7
<1>9. /\ GoodMemory(m, resolved) /\ SameFrames(Memory.frames, m.frames)
      /\ Len(Memory.heap) <= Len(m.heap)
  BY <1>3, <1>6, <1>8, AddedGood
<1> QED
  BY <1>2, <1>4, <1>9, ExecutedStep

LEMMA ReadyHere ==
  ASSUME Evaluating, NEW op, Ready(op), op # "comptime"
  PROVE  /\ Running /\ ~Finished /\ Top.block # 0 /\ Inst.op = op /\ Proper(program, Inst)
         /\ Here.index = Depth /\ InstId \in ValueId
         /\ GoodMemory(Memory, resolved) /\ Depth \in Nat \ {0} /\ Depth = Len(call_stack)
<1>1. Running /\ ~Finished /\ Inst.op = op
  BY DEF Ready
<1> QED
  BY <1>1, Current, CurrentInst

LEMMA Operands ==
  ASSUME NEW p, NEW inst, Proper(p, inst)
  PROVE  /\ inst.args \in Seq(ValueId) /\ Len(inst.args) \in Nat
         /\ DOMAIN inst.args = 1 .. Len(inst.args)
         /\ inst.args # <<>> => 1 \in DOMAIN inst.args
         /\ Len(inst.args) = 2 => 1 \in DOMAIN inst.args /\ 2 \in DOMAIN inst.args
         /\ inst.to \in Seq(Nat) /\ inst.value \in Value
<1>1. inst.args \in Seq(ValueId) /\ inst.to \in Seq(Nat) /\ inst.value \in Value
  BY DEF Proper, Instruction
<1>2. PICK S, s : S = ValueId /\ s = inst.args
  OBVIOUS
<1>3. s \in Seq(S)
  BY <1>1, <1>2
<1>4. /\ Len(s) \in Nat /\ DOMAIN s = 1 .. Len(s) /\ (s # <<>> => 1 \in DOMAIN s)
      /\ (Len(s) = 2 => 1 \in DOMAIN s /\ 2 \in DOMAIN s)
  BY <1>3
<1> QED
  BY <1>1, <1>2, <1>4
-------------------------------------------------------------------------------
(* The instructions.                                                         *)
LEMMA LiteralStep == Evaluating /\ Literal => Evaluating'
<1> SUFFICES ASSUME Evaluating, Literal PROVE Evaluating'
  OBVIOUS
<1>1. Ready("literal") /\ Yields(Inst.value)
  BY DEF Literal
<1>2. Running /\ ~Finished /\ Top.block # 0 /\ Proper(program, Inst)
  BY <1>1, ReadyHere
<1>3. PICK v : v = Inst.value
  OBVIOUS
<1>4. v \in Value /\ v.kind \notin Pointers
  BY <1>2, <1>3, Operands DEF Proper
<1>5. Sound(v, Len(heap), resolved)
  BY <1>4, SoundParts
<1> QED
  BY <1>1, <1>2, <1>3, <1>5, YieldsStep

LEMMA TypeOfStep == Evaluating /\ TypeOf => Evaluating'
<1> SUFFICES ASSUME Evaluating, TypeOf PROVE Evaluating'
  OBVIOUS
<1>1. Ready("typeof") /\ Yields(Type)
  BY DEF TypeOf
<1>2. Running /\ ~Finished /\ Top.block # 0
  BY <1>1, ReadyHere
<1>3. Type \in Value /\ Type.kind \notin Pointers
  BY DEF Type, Value, Kinds, Pointers
<1>4. Sound(Type, Len(heap), resolved)
  BY <1>3, SoundParts
<1> QED
  BY <1>1, <1>2, <1>4, YieldsStep

LEMMA ReturnStep == Evaluating /\ Return => Evaluating'
<1> SUFFICES ASSUME Evaluating, Return PROVE Evaluating'
  OBVIOUS
<1>1. PICK v : v = IF Inst.args = <<>> THEN Void ELSE Arg(1)
  OBVIOUS
<1>2. Ready("return") /\ Yields(v)
  BY <1>1 DEF Return
<1>3. Running /\ ~Finished /\ Top.block # 0 /\ Proper(program, Inst)
  BY <1>2, ReadyHere
<1>4. Sound(v, Len(heap), resolved)
  <2>1. CASE Inst.args = <<>>
    <3>1. v = Void
      BY <1>1, <2>1
    <3>2. v \in Value /\ v.kind \notin Pointers
      BY <3>1 DEF Void, Value, Kinds, Pointers
    <3> QED
      BY <3>2, SoundParts
  <2>2. CASE Inst.args # <<>>
    <3>1. v = Arg(1) /\ 1 \in DOMAIN Inst.args
      BY <1>1, <1>3, <2>2, Operands
    <3> QED
      BY <1>2, <3>1, OperandSound
  <2> QED
    BY <2>1, <2>2
<1> QED
  BY <1>2, <1>3, <1>4, YieldsStep

LEMMA LoadStep == Evaluating /\ Load => Evaluating'
<1> SUFFICES ASSUME Evaluating, Load PROVE Evaluating'
  OBVIOUS
<1>1. PICK v : v = Pointed
  OBVIOUS
<1>2. Ready("load") /\ Arg(1).kind \in Pointers /\ Yields(v)
  BY <1>1 DEF Load
<1>3. Running /\ ~Finished /\ Top.block # 0 /\ Inst.op = "load" /\ Proper(program, Inst)
  BY <1>2, ReadyHere
<1>4. 1 \in DOMAIN Inst.args
  BY <1>3, Operands DEF Proper
<1>5. Sound(v, Len(heap), resolved)
  BY <1>1, <1>2, <1>4, PointedSound
<1> QED
  BY <1>2, <1>3, <1>5, YieldsStep

LEMMA BinOpStep == Evaluating /\ BinOp => Evaluating'
<1> SUFFICES ASSUME Evaluating, BinOp PROVE Evaluating'
  OBVIOUS
<1>1. PICK op \in Binary : Ready(op) /\ Operates(op, Arg(1), Arg(2))
  BY DEF BinOp
<1>2. PICK x, y, v : x = Arg(1) /\ y = Arg(2) /\ v = Computed(Inst.op, x, y)
  OBVIOUS
<1>3. Yields(v)
  BY <1>2 DEF BinOp
<1>4. Running /\ ~Finished /\ Top.block # 0 /\ Inst.op = op /\ Proper(program, Inst)
  <2>1. op # "comptime"
    BY DEF Binary
  <2> QED
    BY <1>1, <2>1, ReadyHere
<1>5. 1 \in DOMAIN Inst.args /\ 2 \in DOMAIN Inst.args
  BY <1>4, Operands DEF Proper
<1>6. x \in Value /\ y \in Value
  BY <1>1, <1>2, <1>5, OperandSound
<1>7. x.n \in Int /\ y.n \in Int
  BY <1>6 DEF Value
<1>8. v \in Value /\ v.kind \notin Pointers
  <2>1. /\ Number(x.n + y.n) \in Value /\ Number(x.n - y.n) \in Value
        /\ Number(x.n + y.n).kind = "int" /\ Number(x.n - y.n).kind = "int"
    BY <1>7 DEF Number, Value, Kinds
  <2>2. \A b \in BOOLEAN : Bool(b) \in Value /\ Bool(b).kind = "bool"
    BY DEF Bool, Value, Kinds
  <2>3. (x.n < y.n) \in BOOLEAN /\ (x = y) \in BOOLEAN
    BY <1>7
  <2>4. Bool(x.n < y.n) \in Value /\ Bool(x.n < y.n).kind = "bool"
    BY <2>2, <2>3
  <2>5. Bool(x = y) \in Value /\ Bool(x = y).kind = "bool"
    BY <2>2, <2>3
  <2>6. v = Computed(op, x, y)
    BY <1>2, <1>4
  <2>7. CASE op = "add"
    BY <2>1, <2>6, <2>7 DEF Computed, Pointers
  <2>8. CASE op = "sub"
    BY <2>1, <2>6, <2>8 DEF Computed, Pointers
  <2>9. CASE op = "less"
    BY <2>4, <2>6, <2>9 DEF Computed, Pointers
  <2>10. CASE op = "equal"
    BY <2>5, <2>6, <2>10 DEF Computed, Pointers
  <2> QED
    BY <2>7, <2>8, <2>9, <2>10 DEF Binary
<1>9. Sound(v, Len(heap), resolved)
  BY <1>8, SoundParts
<1> QED
  BY <1>3, <1>4, <1>9, YieldsStep

LEMMA RetTypeStep == Evaluating /\ RetType => Evaluating'
<1> SUFFICES ASSUME Evaluating, RetType PROVE Evaluating'
  OBVIOUS
<1>1. PICK m : m = Memory
  OBVIOUS
<1>2. Ready("rettype") /\ Executed(m)
  BY <1>1 DEF RetType
<1>3. /\ Running /\ ~Finished /\ Top.block # 0 /\ GoodMemory(m, resolved)
      /\ SameFrames(call_stack, m.frames) /\ m.heap = heap /\ Len(heap) \in Nat
  BY <1>1, <1>2, ReadyHere, Current DEF Memory
<1> QED
  BY <1>2, <1>3, ExecutedStep

LEMMA StoreStep == Evaluating /\ Store => Evaluating'
<1> SUFFICES ASSUME Evaluating, Store PROVE Evaluating'
  OBVIOUS
<1>1. PICK c, v : c = Arg(1).n /\ v = Arg(2)
  OBVIOUS
<1>2. PICK m : m = SetCell(Memory, c, v)
  OBVIOUS
<1>3. Ready("store") /\ Arg(1).kind = "ptr" /\ Executed(m)
  BY <1>1, <1>2 DEF Store, SetCell
<1>4. /\ Running /\ ~Finished /\ Top.block # 0 /\ Inst.op = "store" /\ Proper(program, Inst)
      /\ GoodMemory(Memory, resolved) /\ SameFrames(call_stack, call_stack)
      /\ Len(heap) \in Nat
  BY <1>3, ReadyHere, Current
<1>5. 1 \in DOMAIN Inst.args /\ 2 \in DOMAIN Inst.args
  BY <1>4, Operands DEF Proper
<1>6. c \in 1 .. Len(heap) /\ Sound(v, Len(heap), resolved)
  BY <1>1, <1>3, <1>5, OperandSound, PointedSound DEF Pointers
<1>7. Memory.frames = call_stack /\ Memory.heap = heap
  BY DEF Memory
<1>8. GoodMemory(m, resolved) /\ m.frames = call_stack /\ Len(m.heap) = Len(heap)
  BY <1>2, <1>4, <1>6, <1>7, SetCellGood
<1> QED
  BY <1>3, <1>4, <1>8, ExecutedStep

(* What is added leaves the count of the arguments.                          *)
LEMMA AddedCounts ==
  ASSUME NEW m, NEW res, GoodMemory(m, res), NEW i \in 1 .. Len(m.frames), NEW id, NEW v
  PROVE  Added(m, i, id, v).frames[i].arg_count = m.frames[i].arg_count
<1>1. PICK fs, hp : m = [frames |-> fs, heap |-> hp]
  BY DEF GoodMemory
<1>2. PICK h : h = Len(m.heap)
  OBVIOUS
<1>3. GoodFrames(m.frames, h)
  BY <1>2 DEF GoodMemory
<1>4. h \in Nat /\ fs \in Seq(Frame(h)) /\ i \in 1 .. Len(fs)
  BY <1>1, <1>3 DEF GoodFrames
<1>5. fs[i] \in Frame(h) /\ DOMAIN fs = 1 .. Len(fs)
  BY <1>4
<1>6. fs[i] \in [lookup : Lookups, values : Seq(1 .. h), arg_count : Nat, parent : Pointer]
  BY <1>5 DEF Frame
<1>7. CASE id \in DOMAIN m.frames[i].lookup
  <2>1. Added(m, i, id, v).frames = fs
    BY <1>1, <1>7 DEF Added
  <2> QED
    BY <1>1, <2>1
<1>8. CASE id \notin DOMAIN m.frames[i].lookup
  <2>1. PICK a : a = Allocated(m, i, v)
    OBVIOUS
  <2>2. a.frames = [fs EXCEPT ![i] = Holding(fs[i], h + 1)] /\ a = [frames |-> a.frames, heap |-> a.heap]
    BY <1>1, <1>2, <2>1 DEF Allocated, Holding
  <2>3. PICK g : g = Holding(fs[i], h + 1)
    OBVIOUS
  <2>4. /\ a.frames[i] = g /\ DOMAIN a.frames = 1 .. Len(fs)
        /\ g.arg_count = fs[i].arg_count /\ "arg_count" \in DOMAIN g
    BY <1>4, <1>5, <1>6, <2>2, <2>3 DEF Holding
  <2>5. PICK k : k = Len(m.frames[i].values) + 1
    OBVIOUS
  <2>6. Added(m, i, id, v).frames = [a.frames EXCEPT ![i] = Finding(g, id, k)]
    <3>1. Added(m, i, id, v) = [a EXCEPT !.frames[i].lookup =
               [x \in DOMAIN @ \cup {id} |-> IF x = id THEN k ELSE @[x]]]
      BY <1>8, <2>1, <2>5 DEF Added, AddedNew
    <3> QED
      BY <2>2, <2>4, <3>1 DEF Finding
  <2>7. Finding(g, id, k).arg_count = g.arg_count
    BY <2>4 DEF Finding
  <2> QED
    BY <1>1, <1>4, <2>4, <2>6, <2>7
<1> QED
  BY <1>7, <1>8

LEMMA CountedGood ==
  ASSUME NEW m, NEW res, GoodMemory(m, res), NEW i \in 1 .. Len(m.frames),
         m.frames[i].arg_count < Len(m.frames[i].values)
  PROVE  LET c == [m EXCEPT !.frames[i].arg_count = @ + 1]
         IN GoodMemory(c, res) /\ SameFrames(m.frames, c.frames) /\ c.heap = m.heap
<1>1. PICK fs, hp : m = [frames |-> fs, heap |-> hp]
  BY DEF GoodMemory
<1>2. PICK h, f : h = Len(hp) /\ f = fs[i]
  OBVIOUS
<1>3. GoodFrames(fs, h)
  BY <1>1, <1>2 DEF GoodMemory
<1>4. h \in Nat /\ fs \in Seq(Frame(h)) /\ i \in 1 .. Len(fs)
  BY <1>1, <1>3 DEF GoodFrames
<1>5. f \in Frame(h)
  BY <1>2, <1>4
<1>6. /\ f \in [lookup : Lookups, values : Seq(1 .. h), arg_count : Nat, parent : Pointer]
      /\ f.arg_count \in Nat /\ Len(f.values) \in Nat /\ f.arg_count < Len(f.values)
      /\ \A id \in DOMAIN f.lookup : f.lookup[id] \in 1 .. Len(f.values)
  BY <1>1, <1>2, <1>4, <1>5, FrameFields DEF Frame
<1>7. PICK k \in Nat : k = f.arg_count + 1
  BY <1>6
<1>8. PICK g : g = [f EXCEPT !.arg_count = k]
  OBVIOUS
<1>9. /\ g \in [lookup : Lookups, values : Seq(1 .. h), arg_count : Nat, parent : Pointer]
      /\ g.lookup = f.lookup /\ g.values = f.values /\ g.parent = f.parent /\ g.arg_count = k
  BY <1>6, <1>8
<1>10. g \in Frame(h)
  <2>1. k <= Len(g.values)
    BY <1>6, <1>7, <1>9
  <2> QED
    BY <1>6, <1>9, <2>1 DEF Frame
<1>11. Cells(g) = Cells(f) /\ Len(f.values) <= Len(g.values)
  BY <1>6, <1>9 DEF Cells
<1>12. \A j \in 1 .. Len(fs) : j # i => Cells(g) \cap Cells(fs[j]) = {}
  BY <1>2, <1>3, <1>4, <1>11 DEF GoodFrames
<1>13. PICK c : c = [m EXCEPT !.frames[i].arg_count = @ + 1]
  OBVIOUS
<1>14. c.frames = [fs EXCEPT ![i] = g] /\ c.heap = hp /\ c = [frames |-> c.frames, heap |-> c.heap]
  BY <1>1, <1>2, <1>7, <1>8, <1>13
<1>15. GoodFrames(c.frames, h) /\ SameFrames(fs, c.frames)
  <2>1. g.parent = fs[i].parent /\ Len(fs[i].values) <= Len(g.values)
    BY <1>2, <1>9, <1>11
  <2>2. GoodFrames([fs EXCEPT ![i] = g], h) /\ SameFrames(fs, [fs EXCEPT ![i] = g])
    BY <1>3, <1>4, <1>10, <1>12, <2>1, FrameChanged
  <2> QED
    BY <1>14, <2>2
<1> QED
  BY <1>1, <1>2, <1>13, <1>14, <1>15 DEF GoodMemory

(* The pointer to the next argument is added, and then the argument counted. *)
LEMMA ArgumentAdded ==
  ASSUME Evaluating, TakeArg
  PROVE  \E a, i : /\ \E v : v # Freed /\ a = Added(Memory, i, InstId, v)
                  /\ i = Here.index /\ i \in 1 .. Len(a.frames)
                  /\ GoodMemory(a, resolved) /\ SameFrames(call_stack, a.frames)
                  /\ Len(heap) <= Len(a.heap)
                  /\ a.frames[i].arg_count < Len(a.frames[i].values)
                  /\ Executed([a EXCEPT !.frames[i].arg_count = @ + 1])
<1>1. PICK i, f : i = Here.index /\ f = call_stack[i]
  OBVIOUS
<1>2. PICK v, id : v = [kind |-> "ptr", n |-> f.values[f.arg_count + 1]] /\ id = InstId
  OBVIOUS
<1>3. PICK a : a = Added(Memory, i, id, v)
  OBVIOUS
<1>4. v # Freed
  BY <1>2 DEF Freed
<1>5. /\ Ready("arg") /\ f.arg_count < Len(f.values)
      /\ Executed([a EXCEPT !.frames[i].arg_count = @ + 1])
  BY <1>1, <1>2, <1>3 DEF TakeArg
<1>6. /\ Running /\ ~Finished /\ Top.block # 0 /\ i = Depth /\ id \in ValueId
      /\ GoodMemory(Memory, resolved) /\ Depth \in Nat \ {0} /\ Depth = Len(call_stack)
  BY <1>1, <1>2, <1>5, ReadyHere
<1>7. Memory.frames = call_stack /\ Memory.heap = heap
  BY DEF Memory
<1>8. i \in 1 .. Len(Memory.frames)
  BY <1>6, <1>7
<1>9. PICK h : h = Len(heap)
  OBVIOUS
<1>10. GoodFrames(call_stack, h) /\ h \in Nat
  BY <1>6, <1>7, <1>9 DEF GoodMemory, GoodFrames
<1>11. f \in Frame(h)
  <2>1. call_stack \in Seq(Frame(h))
    BY <1>10 DEF GoodFrames
  <2> QED
    BY <1>1, <1>7, <1>8, <2>1
<1>12. f.values \in Seq(1 .. h) /\ Len(f.values) \in Nat /\ f.arg_count \in Nat
  BY <1>10, <1>11, FrameFields
<1>13. f.values[f.arg_count + 1] \in 1 .. h
  <2>1. PICK k : k = f.arg_count + 1
    OBVIOUS
  <2>2. k \in 1 .. Len(f.values)
    BY <1>5, <1>12, <2>1
  <2>3. PICK s : s = f.values
    OBVIOUS
  <2>4. s \in [1 .. Len(s) -> 1 .. h] /\ k \in 1 .. Len(s)
    BY <1>12, <2>2, <2>3, LenProperties
  <2>5. s[k] \in 1 .. h
    BY <2>4
  <2> QED
    BY <2>1, <2>3, <2>5
<1>14. Sound(v, Len(Memory.heap), resolved)
  <2>1. v.kind = "ptr" /\ v.n \in 1 .. h /\ v \in Value
    BY <1>2, <1>10, <1>13 DEF Value, Kinds
  <2> QED
    BY <1>7, <1>9, <2>1 DEF Sound
<1>15. /\ GoodMemory(a, resolved) /\ SameFrames(call_stack, a.frames)
       /\ Len(heap) <= Len(a.heap)
  BY <1>3, <1>6, <1>7, <1>8, <1>14, AddedGood
<1>16. a.frames[i].arg_count = f.arg_count
  BY <1>1, <1>3, <1>6, <1>7, <1>8, AddedCounts
<1>17. i \in 1 .. Len(a.frames) /\ a.frames[i].arg_count < Len(a.frames[i].values)
  <2>1. /\ Len(a.frames) = Len(call_stack) /\ Len(a.frames[i].values) \in Nat
        /\ Len(f.values) <= Len(a.frames[i].values)
    BY <1>1, <1>7, <1>8, <1>15 DEF SameFrames
  <2> QED
    BY <1>5, <1>7, <1>8, <1>12, <1>16, <2>1
<1>18. \E value : value # Freed /\ a = Added(Memory, i, InstId, value)
  BY <1>2, <1>3, <1>4, Zenon
<1> QED
  BY <1>1, <1>5, <1>15, <1>17, <1>18, Zenon

LEMMA TakeArgStep == Evaluating /\ TakeArg => Evaluating'
<1> SUFFICES ASSUME Evaluating, TakeArg PROVE Evaluating'
  OBVIOUS
<1>1. PICK a, i :
        /\ i \in 1 .. Len(a.frames)
        /\ GoodMemory(a, resolved) /\ SameFrames(call_stack, a.frames)
        /\ Len(heap) <= Len(a.heap)
        /\ a.frames[i].arg_count < Len(a.frames[i].values)
        /\ Executed([a EXCEPT !.frames[i].arg_count = @ + 1])
  BY ArgumentAdded
<1>2. PICK m : m = [a EXCEPT !.frames[i].arg_count = @ + 1]
  OBVIOUS
<1>3. GoodMemory(m, resolved) /\ SameFrames(a.frames, m.frames) /\ m.heap = a.heap
  BY <1>1, <1>2, CountedGood
<1>4. /\ Running /\ ~Finished /\ Top.block # 0 /\ Depth \in Nat \ {0} /\ Depth = Len(call_stack)
  BY ReadyHere DEF TakeArg
<1>5. SameFrames(call_stack, m.frames)
  <2>1. \A j \in 1 .. Len(call_stack) : Len(call_stack[j].values) \in Nat
    BY <1>4, Current
  <2> QED
    BY <1>1, <1>3, <1>4, <2>1, SameFramesOn
<1> QED
  BY <1>1, <1>2, <1>3, <1>4, <1>5, ExecutedStep

(* A local that is new: its value is allocated, and then its pointer added.  *)
LEMMA LocalAllocated ==
  ASSUME Evaluating, LocalVariable, InstId \notin DOMAIN call_stack[Here.index].lookup
  PROVE  \E a, v, i, w :
           /\ i = Here.index /\ i \in 1 .. Len(a.frames)
           /\ v = (IF Len(Inst.args) = 2 THEN Arg(2) ELSE Number(0))
           /\ a = Allocated(Memory, i, v)
           /\ GoodMemory(a, resolved) /\ SameFrames(call_stack, a.frames)
           /\ Len(a.heap) = Len(heap) + 1
           /\ w # Freed /\ Sound(w, Len(a.heap), resolved)
           /\ Executed(Added(a, i, InstId, w))
<1>1. PICK i, h : i = Here.index /\ h = Len(heap)
  OBVIOUS
<1>2. PICK v, w : v = (IF Len(Inst.args) = 2 THEN Arg(2) ELSE Number(0))
                  /\ w = [kind |-> "ptr", n |-> h + 1]
  OBVIOUS
<1>3. PICK a : a = Allocated(Memory, i, v)
  OBVIOUS
<1>4. Ready("local") /\ Executed(Added(a, i, InstId, w))
  BY <1>1, <1>2, <1>3 DEF LocalVariable
<1>5. /\ Running /\ ~Finished /\ i = Depth
      /\ GoodMemory(Memory, resolved) /\ Depth \in Nat \ {0} /\ Depth = Len(call_stack)
      /\ Proper(program, Inst)
  BY <1>1, <1>4, ReadyHere
<1>6. Memory.frames = call_stack /\ Memory.heap = heap
  BY DEF Memory
<1>7. i \in 1 .. Len(Memory.frames)
  BY <1>5, <1>6
<1>8. h \in Nat
  BY <1>1, <1>5, Current
<1>9. Sound(v, h, resolved)
  <2>1. CASE Len(Inst.args) = 2
    <3>1. v = Arg(2) /\ 2 \in DOMAIN Inst.args
      BY <1>2, <1>5, <2>1, Operands
    <3> QED
      BY <1>1, <1>4, <3>1, OperandSound
  <2>2. CASE Len(Inst.args) # 2
    <3>1. v = Number(0)
      BY <1>2, <2>2
    <3>2. v \in Value /\ v.kind \notin Pointers
      BY <3>1 DEF Number, Value, Kinds, Pointers
    <3> QED
      BY <3>2, SoundParts
  <2> QED
    BY <2>1, <2>2
<1>10. h + 1 \in Nat /\ h <= h + 1 /\ h + 1 \in 1 .. h + 1 /\ h + 1 \in Int
  BY <1>8
<1>11. Sound(v, Len(Memory.heap) + 1, resolved)
  BY <1>1, <1>6, <1>8, <1>9, <1>10, SoundOn
<1>12. GoodMemory(a, resolved) /\ SameFrames(call_stack, a.frames) /\ Len(a.heap) = h + 1
  BY <1>1, <1>3, <1>5, <1>6, <1>7, <1>11, AllocatedGood
<1>13. Sound(w, Len(a.heap), resolved) /\ w # Freed
  <2>1. w \in Value /\ w.kind = "ptr" /\ w.n \in 1 .. h + 1
    BY <1>2, <1>10 DEF Value, Kinds
  <2> QED
    BY <1>12, <2>1 DEF Sound, Freed
<1>14. i \in 1 .. Len(a.frames)
  BY <1>6, <1>7, <1>12 DEF SameFrames
<1>15. Len(a.heap) = Len(heap) + 1
  BY <1>1, <1>12
<1> QED
  BY <1>1, <1>2, <1>3, <1>4, <1>12, <1>13, <1>14, <1>15

LEMMA LocalVariableStep == Evaluating /\ LocalVariable => Evaluating'
<1> SUFFICES ASSUME Evaluating, LocalVariable PROVE Evaluating'
  OBVIOUS
<1>1. /\ Running /\ ~Finished /\ Top.block # 0 /\ InstId \in ValueId
      /\ GoodMemory(Memory, resolved) /\ Depth \in Nat \ {0} /\ Depth = Len(call_stack)
  BY ReadyHere DEF LocalVariable
<1>2. /\ SameFrames(call_stack, call_stack) /\ Len(heap) \in Nat
      /\ \A j \in 1 .. Len(call_stack) : Len(call_stack[j].values) \in Nat
  BY <1>1, Current
<1>3. CASE InstId \in DOMAIN call_stack[Here.index].lookup
  <2>1. PICK m : m = Memory
    OBVIOUS
  <2>2. Executed(m)
    BY <1>3, <2>1 DEF LocalVariable
  <2>3. SameFrames(call_stack, m.frames) /\ Len(heap) <= Len(m.heap)
    BY <1>2, <2>1 DEF Memory
  <2> QED
    BY <1>1, <2>1, <2>2, <2>3, ExecutedStep
<1>4. CASE InstId \notin DOMAIN call_stack[Here.index].lookup
  <2>1. PICK a, v, i, w :
          /\ i \in 1 .. Len(a.frames)
          /\ GoodMemory(a, resolved) /\ SameFrames(call_stack, a.frames)
          /\ Len(a.heap) = Len(heap) + 1
          /\ Sound(w, Len(a.heap), resolved)
          /\ Executed(Added(a, i, InstId, w))
    BY <1>4, LocalAllocated
  <2>2. PICK m, id : m = Added(a, i, InstId, w) /\ id = InstId
    OBVIOUS
  <2>3. m = Added(a, i, id, w) /\ id \in ValueId
    BY <1>1, <2>2
  <2>4. /\ GoodMemory(m, resolved) /\ SameFrames(a.frames, m.frames)
        /\ Len(a.heap) <= Len(m.heap)
    BY <2>1, <2>3, AddedGood
  <2>5. Len(m.heap) \in Nat
    BY <2>4 DEF GoodMemory, GoodFrames
  <2>6. SameFrames(call_stack, m.frames)
    BY <1>1, <1>2, <2>1, <2>4, SameFramesOn
  <2>7. Len(heap) <= Len(m.heap)
    BY <1>2, <2>1, <2>4, <2>5
  <2> QED
    BY <1>1, <2>1, <2>2, <2>4, <2>6, <2>7, ExecutedStep
<1> QED
  BY <1>3, <1>4

LEMMA JumpStep ==
  ASSUME Evaluating, NEW op, Ready(op), op # "comptime", NEW b \in DOMAIN program.blocks,
         JumpTo(b)
  PROVE  Evaluating'
<1>1. PICK t, a : t = Top /\ a = [t EXCEPT !.block = b, !.pc = 1]
  OBVIOUS
<1>2. /\ activations' = Append(SubSeq(activations, 1, Len(activations) - 1), a)
      /\ UNCHANGED <<program, resolved, status, result, call_stack, capacity, table, heap>>
  BY <1>1 DEF JumpTo, Go, memory, WithTop, Below
<1>3. /\ Running /\ Top.block # 0 /\ Top \in Activation /\ activations # <<>>
      /\ Placed(program, Top, call_stack[Depth], Depth)
      /\ Depth \in Nat \ {0} /\ Depth = Len(call_stack)
      /\ Stacked(program, call_stack, activations, OuterDepth)
      /\ SameFrames(call_stack, call_stack) /\ GoodMemory(Memory, resolved)
      /\ \A i \in 1 .. Len(call_stack) : Len(call_stack[i].values) \in Nat
      /\ Top = activations[Len(activations)] /\ Len(activations) \in Nat \ {0}
  BY ReadyHere, Current
<1>4. b \in Nat /\ b # 0
  <2>1. program \in Program
    BY DEF Evaluating
  <2> QED
    BY <2>1, ProgramFields
<1>5. t \in [block : Nat, pc : Nat, home : Pointer, frame : Pointer, global : Nat]
  BY <1>1, <1>3 DEF Activation
<1>6. /\ a \in Activation /\ a.block = b /\ a.pc = 1 /\ a.home = t.home /\ a.frame = t.frame
  BY <1>1, <1>4, <1>5 DEF Activation
<1>7. Placed(program, a, call_stack[Depth], Depth)
  BY <1>1, <1>3, <1>4, <1>6 DEF Placed
<1>8. Stacked(program, call_stack, activations', OuterDepth)
  BY <1>2, <1>3, <1>6, <1>7, StackedChanged
<1>9. activations' # <<>>
  <2>1. activations \in Seq(Activation)
    BY <1>3, StackedLength
  <2>2. activations' \in Seq(Activation) /\ Len(activations') = Len(activations)
    BY <1>2, <1>3, <1>6, <2>1, LastSet
  <2> QED
    BY <1>3, <2>2
<1>10. GoodMemory([frames |-> call_stack', heap |-> heap'], resolved')
  BY <1>2, <1>3 DEF Memory
<1>11. /\ resolved' \in [DOMAIN program.globals -> Value \cup {Unresolved, Pending}]
       /\ KnownSound(resolved', Len(heap'))
       /\ Len(call_stack') <= capacity' /\ capacity' \in Nat \ {0} /\ table' \in Nat
  BY <1>2 DEF Evaluating, Depth
<1>12. Stacked(program, call_stack', activations', OuterDepth)
  BY <1>2, <1>8
<1> QED
  BY <1>2, <1>3, <1>9, <1>10, <1>11, <1>12, StillEvaluating

LEMMA BranchStep == Evaluating /\ Branch => Evaluating'
<1> SUFFICES ASSUME Evaluating, Branch PROVE Evaluating'
  OBVIOUS
<1>1. PICK b : b = Inst.to[1]
  OBVIOUS
<1>2. Ready("br") /\ JumpTo(b)
  BY <1>1 DEF Branch
<1>3. Inst.op = "br" /\ Proper(program, Inst)
  BY <1>2, ReadyHere
<1>4. Len(Inst.to) = 1 /\ Inst.to \in Seq(Nat)
  BY <1>3, Operands DEF Proper
<1>5. b \in DOMAIN program.blocks
  BY <1>1, <1>3, <1>4 DEF Proper
<1> QED
  BY <1>2, <1>5, JumpStep

LEMMA CondBranchStep == Evaluating /\ CondBranch => Evaluating'
<1> SUFFICES ASSUME Evaluating, CondBranch PROVE Evaluating'
  OBVIOUS
<1>1. PICK k \in {1, 2} : k = IF Arg(1).n = 1 THEN 1 ELSE 2
  OBVIOUS
<1>2. PICK b : b = Inst.to[k]
  OBVIOUS
<1>3. Ready("condbr") /\ JumpTo(b)
  BY <1>1, <1>2 DEF CondBranch
<1>4. Inst.op = "condbr" /\ Proper(program, Inst)
  BY <1>3, ReadyHere
<1>5. Len(Inst.to) = 2 /\ Inst.to \in Seq(Nat)
  BY <1>4, Operands DEF Proper
<1>6. b \in DOMAIN program.blocks
  BY <1>2, <1>4, <1>5 DEF Proper
<1> QED
  BY <1>3, <1>6, JumpStep
-------------------------------------------------------------------------------
(* Evaluations, calls and comptime blocks: a frame is pushed.                *)
LEMMA EmptyFrameGood ==
  ASSUME NEW parent \in Pointer, NEW h \in Nat
  PROVE  /\ EmptyFrame(parent) \in Frame(h) /\ Cells(EmptyFrame(parent)) = {}
         /\ EmptyFrame(parent).parent = parent
<1>1. PICK e : e = <<>>
  OBVIOUS
<1>2. DOMAIN e = {} /\ Len(e) = 0
  BY <1>1, EmptyListed
<1>3. e \in Seq(1 .. h)
  BY <1>1, EmptySeq
<1>4. e \in [{} -> Nat]
  <2>1. e \in [1 .. Len(e) -> 1 .. h] /\ 1 .. 0 = {}
    BY <1>3, LenProperties
  <2> QED
    BY <1>2, <2>1
<1>5. e \in Lookups
  BY <1>4, Zenon DEF Lookups
<1>6. PICK f : f = EmptyFrame(parent)
  OBVIOUS
<1>7. f = [lookup |-> e, values |-> e, arg_count |-> 0, parent |-> parent]
  BY <1>1, <1>6 DEF EmptyFrame
<1>8. f \in Frame(h)
  BY <1>2, <1>3, <1>5, <1>7 DEF Frame
<1> QED
  BY <1>2, <1>6, <1>7, <1>8 DEF Cells

LEMMA PushStep ==
  ASSUME Evaluating, Running, ~Finished, Grow,
         NEW a \in Activation, activations' = Entered(a),
         NEW f, f \in Frame(Len(heap')), call_stack' = Append(call_stack, f),
         \A c \in Cells(f) : c > Len(heap),
         GoodHeap(heap', resolved'), Len(heap) <= Len(heap'),
         resolved' \in [DOMAIN program.globals -> Value \cup {Unresolved, Pending}],
         KnownSound(resolved', Len(heap')),
         Placed(program, a, f, Depth + 1), Top.block = 0 => f.parent # NoFrame,
         UNCHANGED <<program, status, result>>
  PROVE  Evaluating'
<1>1. /\ Depth \in Nat \ {0} /\ Len(activations) \in Nat \ {0} /\ activations # <<>>
      /\ Depth = Len(call_stack) /\ GoodFrames(call_stack, Len(heap))
      /\ Stacked(program, call_stack, activations, OuterDepth)
      /\ Top \in Activation /\ Top = activations[Len(activations)]
      /\ Placed(program, Top, call_stack[Depth], Depth)
      /\ SameFrames(call_stack, call_stack)
      /\ \A i \in 1 .. Len(call_stack) : Len(call_stack[i].values) \in Nat
  BY Current
<1>2. Here \in Pointer /\ Here.index = Depth /\ Here # NoFrame /\ (Top.block = 0 => Top.pc = 0)
  BY CurrentInst
<1>3. PICK t, b, x : t = Top /\ x = Here /\ b = [t EXCEPT !.frame = x]
  OBVIOUS
<1>4. t \in [block : Nat, pc : Nat, home : Pointer, frame : Pointer, global : Nat]
  BY <1>1, <1>3 DEF Activation
<1>5. x \in Pointer /\ x.index = Depth /\ x # NoFrame
  BY <1>2, <1>3
<1>6. /\ b \in Activation /\ b.frame = x /\ b.block = t.block /\ b.pc = t.pc
      /\ b.home = t.home /\ b.global = t.global
  BY <1>3, <1>4, <1>5 DEF Activation
<1>7. Placed(program, b, call_stack[Depth], Depth)
  BY <1>1, <1>3, <1>5, <1>6 DEF Placed
<1>8. PICK bs : bs = Append(SubSeq(activations, 1, Len(activations) - 1), b)
  OBVIOUS
<1>9. Stacked(program, call_stack, bs, OuterDepth)
  BY <1>1, <1>3, <1>6, <1>7, <1>8, StackedChanged
<1>10. Len(bs) = Len(activations) /\ bs[Len(activations)] = b /\ bs # <<>>
  <2>1. activations \in Seq(Activation)
    BY <1>1, StackedLength
  <2>2. bs \in Seq(Activation) /\ Len(bs) = Len(activations) /\ bs[Len(activations)] = b
    BY <1>1, <1>6, <1>8, <2>1, LastSet
  <2> QED
    BY <1>1, <2>2
<1>11. activations' = Append(bs, a)
  BY <1>3, <1>8 DEF Entered, WithTop, Below
<1>12. Len(heap') \in Nat
  BY DEF GoodHeap
<1>13. /\ GoodFrames(call_stack', Len(heap'))
       /\ Len(call_stack') = Depth + 1 /\ call_stack'[Depth + 1] = f
       /\ \A i \in 1 .. Depth : call_stack'[i] = call_stack[i]
  BY <1>1, <1>12, FramePushed
<1>14. Stacked(program, call_stack', activations', OuterDepth)
  <2>1. Waits(bs[Len(bs)], f)
    BY <1>2, <1>3, <1>5, <1>6, <1>10 DEF Waits
  <2>2. PICK gs : gs = call_stack'
    OBVIOUS
  <2>3. /\ Len(gs) = Len(call_stack) + 1 /\ gs[Len(call_stack) + 1] = f
        /\ \A i \in 1 .. Len(call_stack) : gs[i] = call_stack[i]
    BY <1>1, <1>13, <2>2
  <2>4. /\ Placed(program, a, gs[Len(call_stack) + 1], Len(call_stack) + 1)
        /\ Waits(bs[Len(bs)], gs[Len(call_stack) + 1])
    BY <1>1, <2>1, <2>3
  <2>5. Stacked(program, gs, Append(bs, a), OuterDepth)
    BY <1>9, <1>10, <2>1, <2>3, <2>4, StackedAppended
  <2> QED
    BY <1>11, <2>2, <2>5
<1>15. activations' # <<>>
  <2>1. bs \in Seq(Activation)
    BY <1>9, StackedLength
  <2> QED
    BY <1>11, <2>1, AppendProperties
<1>16. GoodMemory([frames |-> call_stack', heap |-> heap'], resolved')
  BY <1>13 DEF GoodMemory
<1>17. Len(call_stack') <= capacity' /\ capacity' \in Nat \ {0} /\ table' \in Nat
  <2>1. Depth <= capacity /\ capacity \in Nat \ {0} /\ table \in Nat
    BY DEF Evaluating
  <2>2. /\ capacity' = IF Depth = capacity THEN 2 * capacity ELSE capacity
        /\ table' \in {table, table + 1}
    BY DEF Grow
  <2>3. Depth + 1 <= capacity' /\ capacity' \in Nat \ {0}
    BY <1>1, <2>1, <2>2
  <2>4. table' \in Nat
    BY <2>1, <2>2
  <2> QED
    BY <1>13, <2>3, <2>4
<1> QED
  BY <1>14, <1>15, <1>16, <1>17, StillEvaluating

(* The frame of a program is the one that was pushed for it.                 *)
LEMMA ProgramPlaced ==
  ASSUME Evaluating, table' \in Nat, Depth \in Nat, NEW b \in DOMAIN program.blocks, NEW f,
         f.parent = NoFrame \/ f.parent.index = Depth
  PROVE  ProgramOf(b) \in Activation /\ Placed(program, ProgramOf(b), f, Depth + 1)
<1>1. b \in Nat /\ b # 0
  <2>1. program \in Program
    BY DEF Evaluating
  <2> QED
    BY <2>1, ProgramFields
<1>2. PICK d, t : d = Depth + 1 /\ t = table'
  OBVIOUS
<1>3. d \in Nat /\ t \in Nat /\ d - 1 = Depth
  BY <1>2
<1>4. PICK h : h = [index |-> d, table |-> t]
  OBVIOUS
<1>5. h \in Pointer /\ h.index = d /\ NoFrame \in Pointer
  BY <1>3, <1>4 DEF Pointer, NoFrame
<1>6. PICK a : a = [block |-> b, pc |-> 1, home |-> h, frame |-> NoFrame, global |-> 0]
  OBVIOUS
<1>7. a \in Activation /\ a.block = b /\ a.pc = 1 /\ a.home = h /\ a.frame = NoFrame
  BY <1>1, <1>5, <1>6 DEF Activation
<1>8. Placed(program, a, f, d)
  BY <1>1, <1>3, <1>5, <1>7 DEF Placed
<1>9. ProgramOf(b) = a
  BY <1>2, <1>4, <1>6 DEF ProgramOf
<1> QED
  BY <1>2, <1>7, <1>8, <1>9

LEMMA GrowTable == ASSUME Evaluating, Grow PROVE table' \in Nat
BY DEF Evaluating, Grow

LEMMA ComptimeStep == Evaluating /\ Comptime => Evaluating'
<1> SUFFICES ASSUME Evaluating, Comptime PROVE Evaluating'
  OBVIOUS
<1>1. PICK b, x, f : b = Inst.to[1] /\ x = Here /\ f = EmptyFrame(x)
  OBVIOUS
<1>2. PICK a : a = ProgramOf(b)
  OBVIOUS
<1>3. /\ Ready("comptime") /\ Grow /\ call_stack' = Append(call_stack, f)
      /\ activations' = Entered(a) /\ heap' = heap
      /\ UNCHANGED <<program, resolved, status, result>>
  BY <1>1, <1>2 DEF Comptime, Go
<1>4. Running /\ ~Finished /\ Inst.op = "comptime"
  BY <1>3 DEF Ready
<1>5. /\ Proper(program, Inst) /\ Here \in Pointer /\ Here.index = Depth /\ Here # NoFrame
      /\ Depth \in Nat \ {0} /\ GoodMemory(Memory, resolved)
      /\ Len(heap) \in Nat
  BY <1>4, Current, CurrentInst
<1>6. b \in DOMAIN program.blocks
  <2>1. Len(Inst.to) = 1 /\ Inst.to \in Seq(Nat)
    BY <1>4, <1>5, Operands DEF Proper
  <2> QED
    BY <1>1, <1>5, <2>1 DEF Proper
<1>7. f \in Frame(Len(heap)) /\ Cells(f) = {} /\ f.parent = x
  BY <1>1, <1>5, EmptyFrameGood
<1>8. a \in Activation /\ Placed(program, a, f, Depth + 1)
  <2>1. table' \in Nat
    BY <1>3, GrowTable
  <2> QED
    BY <1>1, <1>2, <1>5, <1>6, <1>7, <2>1, ProgramPlaced
<1>9. GoodHeap(heap', resolved') /\ Len(heap) <= Len(heap')
  BY <1>3, <1>5 DEF GoodMemory, Memory
<1>10. /\ resolved' \in [DOMAIN program.globals -> Value \cup {Unresolved, Pending}]
       /\ KnownSound(resolved', Len(heap'))
  BY <1>3 DEF Evaluating
<1>11. f \in Frame(Len(heap')) /\ f.parent # NoFrame
  BY <1>1, <1>3, <1>5, <1>7
<1> QED
  BY <1>3, <1>4, <1>7, <1>8, <1>9, <1>10, <1>11, PushStep

LEMMA HeapConcat ==
  ASSUME NEW hp, NEW res, GoodHeap(hp, res), NEW s \in Seq(Value),
         \A k \in 1 .. Len(s) : Sound(s[k], Len(hp), res)
  PROVE  GoodHeap(hp \o s, res) /\ Len(hp \o s) = Len(hp) + Len(s)
<1>1. PICK h, n : h = Len(hp) /\ n = Len(s)
  OBVIOUS
<1>2. hp \in Seq(Value) /\ \A c \in 1 .. h : Sound(hp[c], h, res)
  BY <1>1 DEF GoodHeap
<1>3. h \in Nat /\ n \in Nat
  BY <1>1, <1>2, LenProperties
<1>4. PICK t : t = hp \o s
  OBVIOUS
<1>5. /\ t \in Seq(Value) /\ Len(t) = h + n
      /\ \A i \in 1 .. h + n : t[i] = IF i <= h THEN hp[i] ELSE s[i - h]
  BY <1>1, <1>2, <1>4, ConcatProperties
<1>6. ASSUME NEW i \in 1 .. h + n  PROVE Sound(t[i], h + n, res)
  <2>1. h + n \in Nat /\ h <= h + n
    BY <1>3
  <2>2. CASE i <= h
    <3>1. i \in 1 .. h /\ t[i] = hp[i]
      BY <1>3, <1>5, <2>2
    <3> QED
      BY <1>2, <1>3, <2>1, <3>1, SoundOn
  <2>3. CASE ~(i <= h)
    <3>1. i - h \in 1 .. n /\ t[i] = s[i - h]
      BY <1>3, <1>5, <2>3
    <3>2. Sound(s[i - h], h, res)
      BY <1>1, <3>1
    <3> QED
      BY <1>3, <2>1, <3>1, <3>2, SoundOn
  <2> QED
    BY <2>2, <2>3
<1> QED
  BY <1>1, <1>4, <1>5, <1>6 DEF GoodHeap

(* The frame of a call holds its arguments, which were made for it.          *)
LEMMA CallFrame ==
  ASSUME NEW h \in Nat, NEW n \in Nat, NEW k \in Nat, k = h + n
  PROVE  LET f == [EmptyFrame(NoFrame) EXCEPT !.values = [j \in 1 .. n |-> h + j]]
         IN f \in Frame(k) /\ f.parent = NoFrame /\ \A c \in Cells(f) : c > h
<1>1. PICK e : e = EmptyFrame(NoFrame)
  OBVIOUS
<1>2. NoFrame \in Pointer
  BY DEF NoFrame, Pointer
<1>3. e \in Frame(k) /\ e.parent = NoFrame
  BY <1>1, <1>2, EmptyFrameGood
<1>4. e \in [lookup : Lookups, values : Seq(1 .. k), arg_count : Nat, parent : Pointer]
  BY <1>3 DEF Frame
<1>5. e.arg_count = 0 /\ DOMAIN e.lookup = {}
  BY <1>1, EmptyListed DEF EmptyFrame
<1>6. PICK s : s = [j \in 1 .. n |-> h + j]
  OBVIOUS
<1>7. s \in [1 .. n -> 1 .. k] /\ \A j \in 1 .. n : s[j] > h
  <2>1. \A j \in 1 .. n : h + j \in 1 .. k /\ h + j > h
    OBVIOUS
  <2> QED
    BY <1>6, <2>1
<1>8. s \in Seq(1 .. k) /\ Len(s) = n /\ DOMAIN s = 1 .. n
  BY <1>7
<1>9. PICK f : f = [e EXCEPT !.values = s]
  OBVIOUS
<1>10. /\ f \in [lookup : Lookups, values : Seq(1 .. k), arg_count : Nat, parent : Pointer]
       /\ f.values = s /\ f.parent = e.parent /\ f.arg_count = 0 /\ DOMAIN f.lookup = {}
  BY <1>4, <1>5, <1>8, <1>9
<1>11. f \in Frame(k)
  BY <1>8, <1>10 DEF Frame
<1>12. \A c \in Cells(f) : c > h
  BY <1>7, <1>8, <1>10 DEF Cells
<1> QED
  BY <1>1, <1>3, <1>6, <1>9, <1>10, <1>11, <1>12

LEMMA CallStep == Evaluating /\ Call => Evaluating'
<1> SUFFICES ASSUME Evaluating, Call PROVE Evaluating'
  OBVIOUS
<1>1. PICK n, h, b : n = Len(Inst.args) /\ h = Len(heap) /\ b = Inst.to[1]
  OBVIOUS
<1>2. PICK s, f : /\ s = [k \in 1 .. n |-> Arg(k)]
                  /\ f = [EmptyFrame(NoFrame) EXCEPT !.values = [k \in 1 .. n |-> h + k]]
  OBVIOUS
<1>3. PICK a : a = ProgramOf(b)
  OBVIOUS
<1>4. /\ Ready("call") /\ Grow /\ call_stack' = Append(call_stack, f)
      /\ activations' = Entered(a) /\ heap' = heap \o s
      /\ UNCHANGED <<program, resolved, status, result>>
  BY <1>1, <1>2, <1>3 DEF Call, Go
<1>5. /\ Running /\ ~Finished /\ Inst.op = "call" /\ Proper(program, Inst) /\ Top.block # 0
      /\ Depth \in Nat /\ GoodMemory(Memory, resolved)
  BY <1>4, ReadyHere
<1>6. h \in Nat /\ n \in Nat /\ DOMAIN Inst.args = 1 .. n
  BY <1>1, <1>5, Operands, Current
<1>7. b \in DOMAIN program.blocks
  <2>1. Len(Inst.to) = 1 /\ Inst.to \in Seq(Nat)
    BY <1>5, Operands DEF Proper
  <2> QED
    BY <1>1, <1>5, <2>1 DEF Proper
<1>8. \A k \in 1 .. n : s[k] \in Value /\ Sound(s[k], h, resolved)
  BY <1>1, <1>2, <1>4, <1>6, OperandSound
<1>9. s \in Seq(Value) /\ Len(s) = n
  <2>1. s = [k \in 1 .. n |-> s[k]]
    BY <1>2
  <2>2. s \in [1 .. n -> Value]
    BY <1>8, <2>1
  <2> QED
    BY <1>6, <2>2
<1>10. GoodHeap(heap', resolved') /\ Len(heap') = h + n
  <2>1. GoodHeap(heap, resolved)
    BY <1>5 DEF GoodMemory, Memory
  <2>2. GoodHeap(heap \o s, resolved) /\ Len(heap \o s) = h + n
    BY <1>1, <1>8, <1>9, <2>1, HeapConcat
  <2> QED
    BY <1>4, <2>2
<1>11. PICK k \in Nat : k = h + n
  BY <1>6
<1>12. f \in Frame(k) /\ f.parent = NoFrame /\ \A c \in Cells(f) : c > h
  BY <1>2, <1>6, <1>11, CallFrame
<1>13. a \in Activation /\ Placed(program, a, f, Depth + 1)
  <2>1. table' \in Nat
    BY <1>4, GrowTable
  <2> QED
    BY <1>3, <1>5, <1>7, <1>12, <2>1, ProgramPlaced
<1>14. Len(heap) <= Len(heap') /\ f \in Frame(Len(heap'))
  <2>1. h <= k
    BY <1>6, <1>11
  <2> QED
    BY <1>1, <1>10, <1>11, <1>12, <2>1
<1>15. KnownSound(resolved', Len(heap'))
  <2>1. KnownSound(resolved, h) /\ h <= k
    BY <1>1, <1>6, <1>11 DEF Evaluating
  <2>2. KnownSound(resolved, k)
    BY <1>6, <2>1, SoundOn DEF KnownSound
  <2> QED
    BY <1>4, <1>10, <1>11, <2>2
<1>16. resolved' \in [DOMAIN program.globals -> Value \cup {Unresolved, Pending}]
  BY <1>4 DEF Evaluating
<1>17. \A c \in Cells(f) : c > Len(heap)
  BY <1>1, <1>12
<1> QED
  BY <1>4, <1>5, <1>10, <1>13, <1>14, <1>15, <1>16, <1>17, PushStep

(* What is known of the globals stays known.                                 *)
LEMMA KnownOn ==
  ASSUME NEW v, NEW h, NEW res, NEW known, Sound(v, h, res),
         \A g \in DOMAIN res : res[g] \in Value => g \in DOMAIN known /\ known[g] \in Value
  PROVE  Sound(v, h, known)
BY DEF Sound

LEMMA DemandStep == Evaluating /\ Demand => Evaluating'
<1> SUFFICES ASSUME Evaluating, Demand PROVE Evaluating'
  OBVIOUS
<1>1. PICK g \in DOMAIN resolved : /\ Asks(g, Unresolved)
                                  /\ resolved' = [resolved EXCEPT ![g] = Pending]
                                  /\ activations' = Entered(Evaluation(g))
  BY DEF Demand
<1>2. PICK a, f : a = Evaluation(g) /\ f = EmptyFrame(NoFrame)
  OBVIOUS
<1>3. /\ Grow /\ call_stack' = Append(call_stack, f) /\ heap' = heap
      /\ activations' = Entered(a) /\ UNCHANGED <<program, status, result>>
  BY <1>1, <1>2 DEF Demand
<1>4. Running /\ ~Finished /\ resolved[g] = Unresolved /\ Inst.args # <<>>
  <2>1. Running /\ ~Finished /\ \E k \in DOMAIN Inst.args : resolved[g] = Unresolved
    BY <1>1 DEF Asks
  <2> QED
    BY <2>1, EmptyListed
<1>5. Top.block # 0 /\ Depth \in Nat /\ GoodMemory(Memory, resolved) /\ Len(heap) \in Nat
  BY <1>4, Current, CurrentInst
<1>6. NoFrame \in Pointer
  BY DEF NoFrame, Pointer
<1>7. f \in Frame(Len(heap')) /\ Cells(f) = {} /\ f.parent = NoFrame
  BY <1>2, <1>3, <1>5, <1>6, EmptyFrameGood
<1>8. /\ resolved \in [DOMAIN program.globals -> Value \cup {Unresolved, Pending}]
      /\ KnownSound(resolved, Len(heap)) /\ GoodHeap(heap, resolved)
  BY <1>5 DEF Evaluating, GoodMemory, Memory
<1>9. g \in DOMAIN program.globals /\ g \in Nat
  <2>1. program \in Program
    BY DEF Evaluating
  <2> QED
    BY <1>8, <2>1, ProgramFields
<1>10. a \in Activation /\ Placed(program, a, f, Depth + 1)
  <2>1. a = [block |-> 0, pc |-> 0, home |-> NoFrame, frame |-> NoFrame, global |-> g]
    BY <1>2 DEF Evaluation
  <2> QED
    BY <1>6, <1>7, <1>9, <2>1 DEF Activation, Placed
<1>11. resolved' \in [DOMAIN program.globals -> Value \cup {Unresolved, Pending}]
  BY <1>1, <1>8
<1>12. PICK res : res = resolved'
  OBVIOUS
<1>13. /\ DOMAIN res = DOMAIN resolved
       /\ \A x \in DOMAIN resolved : res[x] = IF x = g THEN Pending ELSE resolved[x]
  BY <1>1, <1>8, <1>12
<1>14. Unresolved \notin Value /\ Pending \notin Value
  BY DEF Unresolved, Pending, Value, Kinds
<1>15. \A x \in DOMAIN resolved :
         /\ resolved[x] \in Value => res[x] \in Value
         /\ res[x] \in Value => res[x] = resolved[x]
  BY <1>4, <1>13, <1>14
<1>16. \A v : Sound(v, Len(heap), resolved) => Sound(v, Len(heap), res)
  BY <1>13, <1>15, KnownOn
<1>17. GoodHeap(heap', resolved') /\ KnownSound(resolved', Len(heap'))
  <2>1. GoodHeap(heap, res)
    BY <1>8, <1>16 DEF GoodHeap
  <2>2. KnownSound(res, Len(heap))
    BY <1>8, <1>13, <1>15, <1>16 DEF KnownSound
  <2> QED
    BY <1>3, <1>12, <2>1, <2>2
<1>18. Len(heap) <= Len(heap') /\ \A c \in Cells(f) : c > Len(heap)
  BY <1>3, <1>5, <1>7
<1> QED
  BY <1>3, <1>4, <1>5, <1>7, <1>10, <1>11, <1>17, <1>18, PushStep
-------------------------------------------------------------------------------
(* The end of a program and of an evaluation: a frame is popped.             *)
LEMMA LastValueSound ==
  ASSUME Evaluating, Running, Len(call_stack[Depth].values) # 0
  PROVE  Sound(LastValue, Len(heap), resolved) /\ LastValue \in Value
<1>1. PICK h, f : h = Len(heap) /\ f = call_stack[Depth]
  OBVIOUS
<1>2. /\ GoodFrames(call_stack, h) /\ h \in Nat /\ Depth \in Nat \ {0} /\ Depth = Len(call_stack)
      /\ GoodMemory(Memory, resolved)
  BY <1>1, Current
<1>3. f \in Frame(h)
  <2>1. call_stack \in Seq(Frame(h))
    BY <1>2 DEF GoodFrames
  <2> QED
    BY <1>1, <1>2, <2>1
<1>4. PICK s, k : s = f.values /\ k = Len(s)
  OBVIOUS
<1>5. s \in [1 .. k -> 1 .. h] /\ k \in Nat /\ k # 0
  <2>1. s \in Seq(1 .. h)
    BY <1>2, <1>3, <1>4, FrameFields
  <2> QED
    BY <1>1, <1>4, <2>1, LenProperties
<1>6. PICK c : c = s[k]
  OBVIOUS
<1>7. c \in 1 .. h
  <2>1. k \in 1 .. k
    BY <1>5
  <2> QED
    BY <1>5, <1>6, <2>1
<1>8. LastValue = heap[c]
  BY <1>1, <1>4, <1>6 DEF LastValue
<1>9. Sound(heap[c], h, resolved)
  BY <1>1, <1>2, <1>7 DEF GoodMemory, Memory, GoodHeap
<1> QED
  BY <1>1, <1>8, <1>9 DEF Sound

LEMMA BelowBelow ==
  ASSUME NEW S, NEW s \in Seq(S), NEW n \in Nat, n = Len(s), n # 0, n # 1
  PROVE  LET t == SubSeq(s, 1, n - 1)
         IN SubSeq(t, 1, Len(t) - 1) = SubSeq(s, 1, n - 2)
<1>1. PICK m \in Nat : m = n - 1
  OBVIOUS
<1>2. PICK l \in Nat : l = n - 2
  OBVIOUS
<1>3. m = l + 1 /\ m - 1 = l /\ m - 1 + 1 = m /\ l - 1 + 1 = l /\ 1 <= m /\ n = m + 1
  BY <1>1, <1>2
<1>4. 1 \in Int /\ m \in Int /\ l \in Int
  OBVIOUS
<1>5. \A i \in 1 .. n : s[i] \in S
  BY LenProperties
<1>6. PICK t, u, v : t = SubSeq(s, 1, m) /\ u = SubSeq(t, 1, l) /\ v = SubSeq(s, 1, l)
  OBVIOUS
<1>7. Len(t) = m /\ \A i \in 1 .. m : t[i] = s[i] /\ t[i] \in S
  <2>1. \A i \in 1 .. m : s[i] \in S /\ 1 + i - 1 = i
    BY <1>3, <1>5
  <2>2. /\ Len(t) = IF 1 <= m THEN m - 1 + 1 ELSE 0
        /\ \A i \in 1 .. m - 1 + 1 : t[i] = s[1 + i - 1]
    BY <1>4, <1>6, <2>1, SubSeqProperties
  <2> QED
    BY <1>3, <2>1, <2>2
<1>8. (IF 1 <= l THEN l - 1 + 1 ELSE 0) = l
  BY <1>2
<1>9. u \in Seq(S) /\ Len(u) = l /\ \A i \in 1 .. l : u[i] = t[i]
  <2>1. (\A i \in 1 .. l : t[i] \in S) /\ (\A i \in 1 .. l : 1 + i - 1 = i)
    BY <1>3, <1>7
  <2>2. /\ u \in Seq(S) /\ Len(u) = IF 1 <= l THEN l - 1 + 1 ELSE 0
        /\ \A i \in 1 .. l - 1 + 1 : u[i] = t[1 + i - 1]
    <3>1. u = SubSeq(t, 1, l)
      BY <1>6
    <3>2. \A i \in 1 .. l : t[i] \in S
      BY <2>1
    <3> QED
      BY <1>4, <3>1, <3>2, SubSeqProperties
  <2> QED
    BY <1>3, <1>8, <2>1, <2>2
<1>10. v \in Seq(S) /\ Len(v) = l /\ \A i \in 1 .. l : v[i] = s[i]
  <2>1. \A i \in 1 .. l : s[i] \in S /\ 1 + i - 1 = i
    BY <1>3, <1>5
  <2>2. /\ v \in Seq(S) /\ Len(v) = IF 1 <= l THEN l - 1 + 1 ELSE 0
        /\ \A i \in 1 .. l - 1 + 1 : v[i] = s[1 + i - 1]
    BY <1>4, <1>6, <2>1, SubSeqProperties
  <2> QED
    BY <1>3, <1>8, <2>1, <2>2
<1>11. \A i \in 1 .. l : u[i] = v[i]
  <2>1. \A i \in 1 .. l : i \in 1 .. m
    BY <1>3
  <2> QED
    BY <1>7, <1>9, <1>10, <2>1
<1>12. u = v
  BY <1>9, <1>10, <1>11, SeqEqual
<1> QED
  BY <1>1, <1>2, <1>3, <1>6, <1>7, <1>12

LEMMA EndProgramStep == Evaluating /\ EndProgram => Evaluating'
<1> SUFFICES ASSUME Evaluating, EndProgram PROVE Evaluating'
  OBVIOUS
<1>1. PICK n, d, o : n = Len(activations) /\ d = Depth - 1 /\ o = OuterDepth
  OBVIOUS
<1>2. PICK t, v : t = Caller /\ v = LastValue
  OBVIOUS
<1>3. PICK m, id : id = <<t.block, t.pc>> /\ m = Added(Popped, t.frame.index, id, v)
  OBVIOUS
<1>4. PICK a : a = [t EXCEPT !.pc = @ + 1, !.frame = NoFrame]
  OBVIOUS
<1>5. /\ Running /\ Top.block # 0 /\ HasValue
      /\ call_stack' = m.frames /\ heap' = m.heap
      /\ activations' = Append(SubSeq(activations, 1, n - 2), a)
      /\ UNCHANGED <<program, resolved, status, result, capacity, table>>
  BY <1>1, <1>2, <1>3, <1>4 DEF EndProgram, Becomes, Go
<1>6. /\ Depth \in Nat \ {0} /\ n \in Nat \ {0} /\ Depth = o + n
      /\ Stacked(program, call_stack, activations, o) /\ Depth = Len(call_stack)
      /\ activations # <<>> /\ Top = activations[n]
      /\ GoodMemory(Memory, resolved) /\ GoodFrames(call_stack, Len(heap))
      /\ Len(heap) \in Nat
      /\ \A i \in 1 .. Len(call_stack) : Len(call_stack[i].values) \in Nat
  BY <1>1, <1>5, Current
<1>7. /\ o \in Nat /\ activations \in Seq(Activation)
      /\ \A k \in 1 .. n : activations[k] \in Activation
  BY <1>1, <1>6, StackedLength
<1>8. /\ activations[1].block = 0
      /\ \A k \in 1 .. n : Placed(program, activations[k], call_stack[o + k], o + k)
      /\ \A k \in 2 .. n : Waits(activations[k - 1], call_stack[o + k])
  BY <1>1, <1>6 DEF Stacked
<1>9. n # 1
  BY <1>5, <1>6, <1>8
<1>10. /\ n - 1 \in 1 .. n /\ n \in 2 .. n /\ o + (n - 1) = d /\ o + n = Depth
       /\ d \in Nat \ {0} /\ d \in 1 .. Depth
  BY <1>1, <1>6, <1>7, <1>9
<1>11. t = activations[n - 1]
  BY <1>1, <1>2 DEF Caller
<1>12. /\ t \in Activation /\ Placed(program, t, call_stack[d], d)
       /\ t.frame # NoFrame /\ (t.block = 0 => t.pc = 0)
  BY <1>7, <1>8, <1>10, <1>11 DEF Waits
<1>13. t \in [block : Nat, pc : Nat, home : Pointer, frame : Pointer, global : Nat]
  BY <1>12 DEF Activation
<1>14. t.frame.index = d /\ id \in ValueId
  BY <1>3, <1>12, <1>13 DEF Placed, ValueId
<1>15. /\ GoodMemory(Popped, resolved) /\ Len(Popped.heap) = Len(heap)
       /\ Len(Popped.frames) = d
       /\ \A i \in 1 .. d : Popped.frames[i] = call_stack[i]
  BY <1>1, <1>6, PoppedGood
<1>16. Sound(v, Len(Popped.heap), resolved)
  <2>1. Len(call_stack[Depth].values) # 0
    <3>1. call_stack[Depth].values # <<>>
      BY <1>5 DEF HasValue
    <3>2. call_stack \in Seq(Frame(Len(heap)))
      BY <1>6 DEF GoodFrames
    <3>3. call_stack[Depth] \in Frame(Len(heap))
      BY <1>6, <3>2
    <3>4. call_stack[Depth].values \in Seq(1 .. Len(heap))
      BY <1>6, <3>3, FrameFields
    <3> QED
      BY <3>1, <3>4, EmptySeq
  <2> QED
    BY <1>2, <1>5, <1>15, <2>1, LastValueSound
<1>17. d \in 1 .. Len(Popped.frames) /\ m = Added(Popped, d, id, v)
  BY <1>3, <1>10, <1>14, <1>15
<1>18. /\ GoodMemory(m, resolved) /\ SameFrames(Popped.frames, m.frames)
       /\ Len(heap) <= Len(m.heap) /\ Len(m.frames[d].values) \in Nat \ {0}
  BY <1>14, <1>15, <1>16, <1>17, AddedGood
<1>19. PICK k \in Nat : k = t.pc + 1
  BY <1>13
<1>20. PICK x : x = NoFrame
  OBVIOUS
<1>21. x \in Pointer
  BY <1>20 DEF NoFrame, Pointer
<1>22. a = [t EXCEPT !.pc = k, !.frame = x]
  BY <1>4, <1>19, <1>20
<1>23. /\ a \in Activation /\ a.block = t.block /\ a.pc = k /\ a.frame = x /\ a.home = t.home
       /\ a.global = t.global
  BY <1>13, <1>21, <1>22 DEF Activation
<1>24. Placed(program, a, m.frames[d], d)
  <2>1. m.frames[d].parent = call_stack[d].parent
    BY <1>10, <1>15, <1>17, <1>18 DEF SameFrames
  <2>2. k # 0 /\ (t.pc = 0 => k = 1)
    BY <1>13, <1>19
  <2> QED
    BY <1>12, <1>18, <1>20, <1>23, <2>1, <2>2 DEF Placed
<1>25. PICK bs : bs = SubSeq(activations, 1, n - 1)
  OBVIOUS
<1>26. /\ Stacked(program, Popped.frames, bs, o) /\ Len(bs) = n - 1
       /\ \A j \in 1 .. n - 1 : bs[j] = activations[j]
  <2>1. /\ Len(Popped.frames) = Len(call_stack) - 1
        /\ \A i \in 1 .. Len(call_stack) - 1 : Popped.frames[i] = call_stack[i]
    BY <1>1, <1>6, <1>15
  <2>2. PICK fs, gs : fs = call_stack /\ gs = Popped.frames
    OBVIOUS
  <2>3. PICK acts : acts = activations
    OBVIOUS
  <2>4. /\ Stacked(program, fs, acts, o) /\ acts # <<>>
        /\ Len(gs) = Len(fs) - 1 /\ \A i \in 1 .. Len(fs) - 1 : gs[i] = fs[i]
    BY <1>6, <2>1, <2>2, <2>3
  <2>5. /\ Stacked(program, gs, SubSeq(acts, 1, Len(acts) - 1), o)
        /\ Len(SubSeq(acts, 1, Len(acts) - 1)) = Len(acts) - 1
        /\ \A j \in 1 .. Len(acts) - 1 : SubSeq(acts, 1, Len(acts) - 1)[j] = acts[j]
    BY <2>4, StackedPopped
  <2> QED
    BY <1>1, <1>25, <2>2, <2>3, <2>5
<1>27. bs # <<>> /\ bs[Len(bs)] = t
  <2>1. n - 1 \in 1 .. n - 1
    BY <1>6, <1>9
  <2> QED
    BY <1>11, <1>26, <2>1, EmptySeq
<1>28. \A i \in 1 .. Len(Popped.frames) : Len(Popped.frames[i].values) \in Nat
  BY <1>6, <1>10, <1>15
<1>29. PICK gs : gs = m.frames
  OBVIOUS
<1>30. Stacked(program, gs, Append(SubSeq(bs, 1, Len(bs) - 1), a), o)
  <2>1. Placed(program, a, gs[Len(Popped.frames)], Len(Popped.frames)) /\ SameFrames(Popped.frames, gs)
    BY <1>15, <1>18, <1>24, <1>29
  <2>2. bs[Len(bs)].block = 0 => a.block = 0
    BY <1>23, <1>27
  <2> QED
    BY <1>23, <1>26, <1>27, <1>28, <2>1, <2>2, StackedChanged
<1>31. SubSeq(bs, 1, Len(bs) - 1) = SubSeq(activations, 1, n - 2)
  BY <1>1, <1>6, <1>7, <1>9, <1>25, BelowBelow
<1>32. Stacked(program, call_stack', activations', OuterDepth)
  BY <1>1, <1>5, <1>29, <1>30, <1>31
<1>33. activations' # <<>>
  <2>1. /\ Len(call_stack') = o + Len(activations') /\ Len(call_stack') = d
    BY <1>1, <1>5, <1>15, <1>18, <1>32 DEF Stacked, SameFrames
  <2>2. Len(activations') = n - 1
    <3>1. Len(activations') \in Nat
      BY <1>32, StackedLength
    <3> QED
      BY <1>7, <1>10, <2>1, <3>1
  <2> QED
    BY <1>6, <1>9, <2>2, EmptySeq
<1>34. GoodMemory([frames |-> call_stack', heap |-> heap'], resolved')
  <2>1. m = [frames |-> m.frames, heap |-> m.heap]
    BY <1>18 DEF GoodMemory
  <2> QED
    BY <1>5, <1>18, <2>1
<1>35. KnownSound(resolved', Len(heap'))
  <2>1. Len(m.heap) \in Nat /\ KnownSound(resolved, Len(heap))
    BY <1>18 DEF Evaluating, GoodMemory, GoodFrames
  <2>2. KnownSound(resolved, Len(m.heap))
    BY <1>6, <1>18, <2>1, SoundOn DEF KnownSound
  <2> QED
    BY <1>5, <2>2
<1>36. /\ Len(call_stack') <= capacity' /\ capacity' \in Nat \ {0} /\ table' \in Nat
       /\ resolved' \in [DOMAIN program.globals -> Value \cup {Unresolved, Pending}]
  <2>1. Len(call_stack') = Depth - 1
    BY <1>1, <1>5, <1>15, <1>18 DEF SameFrames
  <2>2. Depth <= capacity /\ capacity \in Nat \ {0}
    BY DEF Evaluating
  <2>3. Depth - 1 <= capacity
    BY <1>6, <2>2
  <2> QED
    BY <1>5, <2>1, <2>2, <2>3 DEF Evaluating
<1> QED
  BY <1>5, <1>32, <1>33, <1>34, <1>35, <1>36, StillEvaluating

LEMMA ExecuteReturnsStep == Evaluating /\ ExecuteReturns => Evaluating'
<1> SUFFICES ASSUME Evaluating, ExecuteReturns PROVE Evaluating'
  OBVIOUS
<1>1. PICK g, v, res : g = Top.global /\ v = LastValue /\ res = resolved'
  OBVIOUS
<1>2. /\ Running /\ Finished /\ Top.block = 0 /\ call_stack' = Popped.frames
      /\ heap' = Popped.heap /\ activations' = Below
      /\ res = [resolved EXCEPT ![g] = v]
      /\ UNCHANGED <<program, capacity, table>>
  BY <1>1 DEF ExecuteReturns, Becomes
<1>3. IF Below = <<>> THEN status' = "done" /\ result' = v ELSE UNCHANGED <<status, result>>
  BY <1>1 DEF ExecuteReturns
<1>4. /\ Depth \in Nat \ {0} /\ Depth = Len(call_stack) /\ activations # <<>>
      /\ Stacked(program, call_stack, activations, OuterDepth)
      /\ Placed(program, Top, call_stack[Depth], Depth)
      /\ GoodMemory(Memory, resolved) /\ Len(heap) \in Nat
  BY <1>2, Current
<1>5. /\ Top.pc = 1 /\ g \in DOMAIN program.globals /\ Len(call_stack[Depth].values) # 0
  BY <1>1, <1>2, <1>4 DEF Placed, Finished
<1>6. Sound(v, Len(heap), resolved) /\ v \in Value
  BY <1>1, <1>2, <1>5, LastValueSound
<1>7. /\ resolved \in [DOMAIN program.globals -> Value \cup {Unresolved, Pending}]
      /\ KnownSound(resolved, Len(heap))
  BY DEF Evaluating
<1>8. /\ res \in [DOMAIN program.globals -> Value \cup {Unresolved, Pending}]
      /\ DOMAIN res = DOMAIN resolved
      /\ \A x \in DOMAIN resolved : res[x] = IF x = g THEN v ELSE resolved[x]
  <2>1. v \in Value \cup {Unresolved, Pending}
    BY <1>6
  <2> QED
    BY <1>2, <1>5, <1>7, <2>1
<1>9. \A x \in DOMAIN resolved : resolved[x] \in Value => x \in DOMAIN res /\ res[x] \in Value
  BY <1>6, <1>8
<1>10. \A w : Sound(w, Len(heap), resolved) => Sound(w, Len(heap), res)
  BY <1>9, KnownOn
<1>11. /\ GoodMemory(Popped, resolved) /\ Len(Popped.heap) = Len(heap)
       /\ Len(Popped.frames) = Depth - 1
       /\ \A i \in 1 .. Depth - 1 : Popped.frames[i] = call_stack[i]
  BY <1>4, PoppedGood
<1>12. GoodMemory(Popped, res)
  BY <1>10, <1>11 DEF GoodMemory, GoodHeap
<1>13. KnownSound(res, Len(heap))
  BY <1>6, <1>7, <1>8, <1>10 DEF KnownSound
<1>14. Stacked(program, Popped.frames, Below, OuterDepth)
  <2>1. PICK gs : gs = Popped.frames
    OBVIOUS
  <2>2. Len(gs) = Len(call_stack) - 1 /\ \A i \in 1 .. Len(call_stack) - 1 : gs[i] = call_stack[i]
    BY <1>4, <1>11, <2>1
  <2>3. Stacked(program, gs, SubSeq(activations, 1, Len(activations) - 1), OuterDepth)
    BY <1>4, <2>2, StackedPopped
  <2> QED
    BY <2>1, <2>3 DEF Below
<1>15. GoodMemory([frames |-> call_stack', heap |-> heap'], resolved')
  <2>1. Popped = [frames |-> Popped.frames, heap |-> Popped.heap]
    BY <1>12 DEF GoodMemory
  <2> QED
    BY <1>1, <1>2, <1>12, <2>1
<1>16. KnownSound(resolved', Len(heap'))
  BY <1>1, <1>2, <1>11, <1>13
<1>17. resolved' \in [DOMAIN program.globals -> Value \cup {Unresolved, Pending}]
  BY <1>1, <1>8
<1>18. Len(call_stack') <= capacity' /\ capacity' \in Nat \ {0} /\ table' \in Nat
  <2>1. Depth <= capacity /\ capacity \in Nat \ {0} /\ table \in Nat
    BY DEF Evaluating
  <2>2. Depth - 1 <= capacity
    BY <1>4, <2>1
  <2> QED
    BY <1>2, <1>11, <2>1, <2>2
<1>19. /\ status' \in {"run", "done", "aborted", "undefined"} /\ result' \in Value
       /\ status' = "run" => activations' # <<>>
  BY <1>2, <1>3, <1>6 DEF Evaluating
<1>20. Stacked(program, call_stack', activations', OuterDepth)
  BY <1>2, <1>14
<1> QED
  BY <1>2, <1>15, <1>16, <1>17, <1>18, <1>19, <1>20, NextEvaluating
-------------------------------------------------------------------------------
(* An evaluation that stops.                                                 *)
LEMMA StopStep ==
  ASSUME Evaluating, NEW how \in {"aborted", "undefined"}, Stop(how)
  PROVE  Evaluating'
<1>1. /\ status' = how
      /\ UNCHANGED <<program, call_stack, capacity, table, heap, activations, resolved, result>>
  BY DEF Stop, memory
<1>2. /\ Stacked(program, call_stack, activations, OuterDepth) /\ GoodMemory(Memory, resolved)
      /\ resolved \in [DOMAIN program.globals -> Value \cup {Unresolved, Pending}]
      /\ KnownSound(resolved, Len(heap))
      /\ Len(call_stack) <= capacity /\ capacity \in Nat \ {0} /\ table \in Nat
      /\ result \in Value
  BY DEF Evaluating, Depth
<1>3. GoodMemory([frames |-> call_stack', heap |-> heap'], resolved')
  BY <1>1, <1>2 DEF Memory
<1> QED
  BY <1>1, <1>2, <1>3, NextEvaluating

LEMMA InitEvaluating == Init => Evaluating
<1> SUFFICES ASSUME Init PROVE Evaluating
  OBVIOUS
<1>1. PICK o \in Outer : call_stack = [i \in 1 .. o + 1 |-> EmptyFrame(NoFrame)]
  BY DEF Init
<1>2. o \in Nat /\ o + 1 <= InitialCapacity /\ InitialCapacity \in Nat \ {0}
  BY OuterAssumption, CapacityAssumption
<1>3. NoFrame \in Pointer /\ 0 \in Nat
  BY DEF NoFrame, Pointer
<1>4. PICK e : e = EmptyFrame(NoFrame)
  OBVIOUS
<1>5. e \in Frame(0) /\ Cells(e) = {} /\ e.parent = NoFrame
  BY <1>3, <1>4, EmptyFrameGood
<1>6. PICK n \in Nat : n = o + 1
  BY <1>2
<1>7. /\ call_stack \in Seq(Frame(0)) /\ Len(call_stack) = n
      /\ \A i \in 1 .. n : call_stack[i] = e
  <2>1. call_stack = [i \in 1 .. n |-> e]
    BY <1>1, <1>4, <1>6
  <2>2. call_stack \in [1 .. n -> Frame(0)]
    BY <1>5, <2>1
  <2>3. call_stack \in Seq(Frame(0)) /\ Len(call_stack) = n
    BY <1>6, <2>2
  <2> QED
    BY <2>1, <2>3
<1>8. GoodFrames(call_stack, 0)
  BY <1>5, <1>7 DEF GoodFrames
<1>9. heap = <<>> /\ Len(heap) = 0 /\ heap \in Seq(Value)
  BY EmptySeq DEF Init
<1>10. GoodHeap(heap, resolved)
  BY <1>9 DEF GoodHeap
<1>11. GoodMemory(Memory, resolved)
  BY <1>8, <1>9, <1>10 DEF GoodMemory, Memory
<1>12. /\ program \in Program /\ capacity = InitialCapacity /\ table = 1
       /\ status = "run" /\ result = Void
       /\ resolved = [g \in DOMAIN program.globals |-> IF g = 1 THEN Pending ELSE Unresolved]
  BY DEF Init
<1>13. /\ 1 \in DOMAIN program.globals
       /\ resolved \in [DOMAIN program.globals -> Value \cup {Unresolved, Pending}]
       /\ \A g \in DOMAIN resolved : resolved[g] \in {Unresolved, Pending}
  BY <1>12, ProgramFields
<1>14. Unresolved \notin Value /\ Pending \notin Value /\ Void \in Value
  BY DEF Unresolved, Pending, Void, Value, Kinds
<1>15. KnownSound(resolved, Len(heap))
  BY <1>13, <1>14 DEF KnownSound
<1>16. PICK a : a = Evaluation(1)
  OBVIOUS
<1>17. /\ a \in Activation /\ a.block = 0 /\ a.pc = 0 /\ a.global = 1 /\ a.frame = NoFrame
  BY <1>3, <1>16 DEF Evaluation, Activation
<1>18. activations = <<a>> /\ Len(activations) = 1 /\ activations[1] = a
  BY <1>16 DEF Init
<1>19. activations \in Seq(Activation)
  BY <1>17, <1>18
<1>20. Placed(program, a, call_stack[n], n)
  <2>1. n \in 1 .. n
    BY <1>2, <1>6
  <2> QED
    BY <1>5, <1>7, <1>13, <1>17, <2>1 DEF Placed
<1>21. Stacked(program, call_stack, activations, o)
  <2>1. \A i \in 1 .. o : call_stack[i].parent = NoFrame
    BY <1>2, <1>5, <1>6, <1>7
  <2>2. \A k \in 1 .. 1 : Placed(program, activations[k], call_stack[o + k], o + k)
    BY <1>6, <1>18, <1>20
  <2> QED
    BY <1>2, <1>6, <1>7, <1>17, <1>18, <1>19, <2>1, <2>2 DEF Stacked
<1>22. OuterDepth = o /\ Depth = n
  BY <1>2, <1>6, <1>7, <1>18 DEF OuterDepth, Depth
<1>23. Depth <= capacity /\ capacity \in Nat \ {0} /\ table \in Nat
  BY <1>2, <1>6, <1>12, <1>22
<1>24. Running => activations # <<>>
  BY <1>18
<1> QED
  BY <1>11, <1>12, <1>13, <1>14, <1>15, <1>21, <1>22, <1>23, <1>24 DEF Evaluating
-------------------------------------------------------------------------------
LEMMA NextEvaluates == Evaluating /\ [Next]_vars => Evaluating'
<1> SUFFICES ASSUME Evaluating, [Next]_vars PROVE Evaluating'
  OBVIOUS
<1>1. CASE UNCHANGED vars
  <2>1. /\ Stacked(program, call_stack, activations, OuterDepth) /\ GoodMemory(Memory, resolved)
        /\ resolved \in [DOMAIN program.globals -> Value \cup {Unresolved, Pending}]
        /\ KnownSound(resolved, Len(heap))
        /\ Len(call_stack) <= capacity /\ capacity \in Nat \ {0} /\ table \in Nat
        /\ status \in {"run", "done", "aborted", "undefined"} /\ result \in Value
        /\ status = "run" => activations # <<>>
    BY DEF Evaluating, Depth, Running
  <2>2. UNCHANGED <<program, call_stack, capacity, table, heap, activations, resolved, status, result>>
    BY <1>1 DEF vars
  <2>3. GoodMemory([frames |-> call_stack', heap |-> heap'], resolved')
    BY <2>1, <2>2 DEF Memory
  <2> QED
    BY <2>1, <2>2, <2>3, NextEvaluating
<1>2. CASE Demand
  BY <1>2, DemandStep
<1>3. CASE Literal
  BY <1>3, LiteralStep
<1>4. CASE LocalVariable
  BY <1>4, LocalVariableStep
<1>5. CASE Load
  BY <1>5, LoadStep
<1>6. CASE Store
  BY <1>6, StoreStep
<1>7. CASE TakeArg
  BY <1>7, TakeArgStep
<1>8. CASE RetType
  BY <1>8, RetTypeStep
<1>9. CASE TypeOf
  BY <1>9, TypeOfStep
<1>10. CASE BinOp
  BY <1>10, BinOpStep
<1>11. CASE Return
  BY <1>11, ReturnStep
<1>12. CASE Branch
  BY <1>12, BranchStep
<1>13. CASE CondBranch
  BY <1>13, CondBranchStep
<1>14. CASE Call
  BY <1>14, CallStep
<1>15. CASE Comptime
  BY <1>15, ComptimeStep
<1>16. CASE EndProgram
  BY <1>16, EndProgramStep
<1>17. CASE ExecuteReturns
  BY <1>17, ExecuteReturnsStep
<1>18. CASE Cycle \/ NoPlace \/ CannotOperate \/ NoCondition
  <2>1. Stop("aborted")
    BY <1>18 DEF Cycle, NoPlace, CannotOperate, NoCondition
  <2> QED
    BY <2>1, StopStep
<1>19. CASE UseFreed \/ WildStore \/ Dangling \/ CallMoves \/ EndInFreed
  <2>1. Stop("undefined")
    BY <1>19 DEF UseFreed, WildStore, Dangling, CallMoves, EndInFreed
  <2> QED
    BY <2>1, StopStep
<1> QED
  BY <1>1, <1>2, <1>3, <1>4, <1>5, <1>6, <1>7, <1>8, <1>9, <1>10, <1>11, <1>12, <1>13,
     <1>14, <1>15, <1>16, <1>17, <1>18, <1>19 DEF Next

LEMMA EvaluatingTyped == Evaluating => TypeOK
<1> SUFFICES ASSUME Evaluating PROVE TypeOK
  OBVIOUS
<1>1. PICK h : h = Len(heap)
  OBVIOUS
<1>2. /\ GoodFrames(call_stack, h) /\ heap \in Seq(Value)
      /\ Stacked(program, call_stack, activations, OuterDepth)
  BY <1>1 DEF Evaluating, GoodMemory, Memory, GoodHeap
<1>3. h \in Nat /\ call_stack \in Seq(Frame(h)) /\ activations \in Seq(Activation)
  BY <1>2 DEF GoodFrames, Stacked
<1>4. DOMAIN heap = 1 .. h
  BY <1>1, <1>2, LenProperties
<1>5. ASSUME NEW i \in DOMAIN call_stack  PROVE FrameOK(call_stack[i])
  <2>1. PICK f : f = call_stack[i]
    OBVIOUS
  <2>2. f \in Frame(h)
    BY <1>3, <2>1
  <2>3. /\ f.values \in Seq(1 .. h) /\ f.parent \in Pointer /\ f.lookup \in Lookups
        /\ DOMAIN f.values = 1 .. Len(f.values) /\ f.arg_count \in Nat
        /\ \A id \in DOMAIN f.lookup : f.lookup[id] \in 1 .. Len(f.values)
    BY <1>3, <2>2, FrameFields
  <2>4. DOMAIN f.lookup \subseteq ValueId
    BY <2>3, Zenon DEF Lookups
  <2> QED
    BY <1>4, <2>1, <2>3, <2>4 DEF FrameOK
<1> QED
  BY <1>2, <1>3, <1>5 DEF Evaluating, TypeOK

LEMMA EvaluatingNests == Evaluating /\ Alive => FramesNest
<1> SUFFICES ASSUME Evaluating, Alive PROVE FramesNest
  OBVIOUS
<1>1. PICK n, o, h : n = Len(activations) /\ o = OuterDepth /\ h = Len(heap)
  OBVIOUS
<1>2. /\ Stacked(program, call_stack, activations, o) /\ o \in Outer
      /\ GoodFrames(call_stack, h)
  BY <1>1 DEF Evaluating, GoodMemory, Memory
<1>3. /\ n \in Nat /\ o \in Nat /\ Len(call_stack) = o + n
      /\ activations \in Seq(Activation)
  BY <1>1, <1>2, StackedLength
<1>4. DOMAIN activations = 1 .. n
  BY <1>1, <1>3, LenProperties
<1>5. h \in Nat /\ call_stack \in Seq(Frame(h))
  BY <1>2 DEF GoodFrames
<1>6. DOMAIN call_stack = 1 .. o + n /\ \A i \in 1 .. o + n : call_stack[i] \in Frame(h)
  BY <1>3, <1>5
<1>7. /\ \A k \in 1 .. n : Placed(program, activations[k], call_stack[o + k], o + k)
      /\ \A k \in 2 .. n : Waits(activations[k - 1], call_stack[o + k])
  BY <1>1, <1>2 DEF Stacked
<1>8. ASSUME NEW k \in 1 .. n
      PROVE  LET frame == call_stack[o + k]
             IN /\ activations[k].block # 0 => activations[k].home.index = o + k
                /\ activations[k].frame.index \in {0, o + k}
                /\ frame.parent.index \in {0, o + k - 1}
                /\ activations[k].block = 0 => frame.parent = NoFrame
                /\ k > 1 /\ activations[k - 1].block = 0 => frame.parent # NoFrame
                /\ frame.arg_count <= Len(frame.values)
  <2>1. Placed(program, activations[k], call_stack[o + k], o + k)
    BY <1>7
  <2>2. NoFrame.index = 0
    BY DEF NoFrame
  <2>3. o + k \in 1 .. o + n
    BY <1>3
  <2>4. call_stack[o + k] \in Frame(h)
    BY <1>6, <2>3
  <2>5. call_stack[o + k].arg_count <= Len(call_stack[o + k].values)
    BY <1>5, <2>4, FrameFields
  <2>6. k > 1 => Waits(activations[k - 1], call_stack[o + k])
    BY <1>3, <1>7
  <2>7. activations[k].block # 0 => activations[k].home.index = o + k
    BY <2>1 DEF Placed
  <2>8. activations[k].frame.index \in {0, o + k}
    BY <2>1, <2>2 DEF Placed
  <2>9. call_stack[o + k].parent.index \in {0, o + k - 1}
    <3>1. (o + k) - 1 = o + k - 1
      BY <1>3
    <3>2. call_stack[o + k].parent = NoFrame \/ call_stack[o + k].parent.index = o + k - 1
      BY <2>1, <3>1 DEF Placed
    <3> QED
      BY <2>2, <3>2
  <2>10. activations[k].block = 0 => call_stack[o + k].parent = NoFrame
    BY <2>1 DEF Placed
  <2>11. k > 1 /\ activations[k - 1].block = 0 => call_stack[o + k].parent # NoFrame
    BY <2>6 DEF Waits
  <2> QED
    BY <2>5, <2>7, <2>8, <2>9, <2>10, <2>11
<1>9. \A i, j \in DOMAIN call_stack : i # j => Cells(call_stack[i]) \cap Cells(call_stack[j]) = {}
  BY <1>2, <1>3, <1>6 DEF GoodFrames
<1>10. \A k \in DOMAIN activations :
       LET frame == call_stack[OuterDepth + k]
       IN /\ activations[k].block # 0 => activations[k].home.index = OuterDepth + k
          /\ activations[k].frame.index \in {0, OuterDepth + k}
          /\ frame.parent.index \in {0, OuterDepth + k - 1}
          /\ activations[k].block = 0 => frame.parent = NoFrame
          /\ k > 1 /\ activations[k - 1].block = 0 => frame.parent # NoFrame
          /\ frame.arg_count <= Len(frame.values)
  BY <1>1, <1>4, <1>8
<1>11. OuterDepth \in Outer
  BY <1>1, <1>2
<1> QED
  BY <1>9, <1>10, <1>11, Zenon DEF FramesNest

LEMMA AlwaysEvaluating == Spec => []Evaluating
BY InitEvaluating, NextEvaluates, PTL DEF Spec

(* Every frame finds the literals it looks up among its own, those were made *)
(* by an arena and are typed, and no frame is pushed beyond the memory of    *)
(* call_stack, whatever the program and whatever it evaluates.               *)
THEOREM EvaluationTyped == Spec => []TypeOK
<1>1. Evaluating => TypeOK
  BY EvaluatingTyped
<1> QED
  BY <1>1, AlwaysEvaluating, PTL

-------------------------------------------------------------------------------
(* As long as call_stack has not moved, every pointer into it is good.       *)
Unmoved(pointer) == pointer = NoFrame \/ pointer.table = 1
ParentsUnmoved(fs) == \A i \in 1 .. Len(fs) : Unmoved(fs[i].parent)
KeepsUnmoved(a) == Unmoved(a.frame) /\ (a.block # 0 => a.home.table = 1)
AllUnmoved(fs, acts) ==
  ParentsUnmoved(fs) /\ \A k \in 1 .. Len(acts) : KeepsUnmoved(acts[k])

PointersGood ==
  /\ table # 0 /\ capacity >= InitialCapacity
  /\ table > 1 => capacity >= 2 * InitialCapacity
  /\ table = 1 => AllUnmoved(call_stack, activations)

(* What allocating and adding do to frames leaves the parents as they are.   *)
SameParents(fs, gs) ==
  /\ DOMAIN gs = DOMAIN fs
  /\ \A i \in DOMAIN fs : "parent" \in DOMAIN fs[i] =>
       "parent" \in DOMAIN gs[i] /\ gs[i].parent = fs[i].parent

LEMMA FieldSet ==
  ASSUME NEW fs, NEW i, NEW field, field # "parent", NEW x
  PROVE  SameParents(fs, [fs EXCEPT ![i] = [@ EXCEPT ![field] = x]])
<1>1. PICK gs : gs = [fs EXCEPT ![i] = [@ EXCEPT ![field] = x]]
  OBVIOUS
<1>2. DOMAIN gs = DOMAIN fs
  BY <1>1
<1>3. ASSUME NEW j \in DOMAIN fs, "parent" \in DOMAIN fs[j]
      PROVE  "parent" \in DOMAIN gs[j] /\ gs[j].parent = fs[j].parent
  <2>1. CASE j = i
    <3>1. PICK f : f = fs[i]
      OBVIOUS
    <3>2. PICK g : g = [f EXCEPT ![field] = x]
      OBVIOUS
    <3>3. gs[j] = g
      BY <1>1, <2>1, <3>1, <3>2
    <3>4. "parent" \in DOMAIN f
      BY <1>3, <2>1, <3>1
    <3>5. "parent" \in DOMAIN g /\ g["parent"] = f["parent"]
      BY <3>2, <3>4
    <3> QED
      BY <2>1, <3>1, <3>3, <3>5
  <2>2. CASE j # i
    BY <1>1, <1>3, <2>2
  <2> QED
    BY <2>1, <2>2
<1> QED
  BY <1>1, <1>2, <1>3 DEF SameParents

LEMMA SameParentsOn ==
  ASSUME NEW fs, NEW gs, NEW hs, SameParents(fs, gs), SameParents(gs, hs)
  PROVE  SameParents(fs, hs)
BY DEF SameParents

LEMMA AllocatedParents ==
  ASSUME NEW m, NEW i, NEW v
  PROVE  /\ SameParents(m.frames, Allocated(m, i, v).frames)
         /\ Allocated(m, i, v) = [frames |-> Allocated(m, i, v).frames,
                                  heap |-> Allocated(m, i, v).heap]
<1>1. PICK fs, gs, x : fs = m.frames /\ gs = Allocated(m, i, v).frames
                       /\ x = Append(fs[i].values, Len(m.heap) + 1)
  OBVIOUS
<1>2. gs = [fs EXCEPT ![i] = [@ EXCEPT !["values"] = x]]
  BY <1>1 DEF Allocated
<1>3. SameParents(fs, gs)
  BY <1>2, FieldSet
<1> QED
  BY <1>1, <1>3 DEF Allocated

LEMMA AddedParents ==
  ASSUME NEW m, m = [frames |-> m.frames, heap |-> m.heap], NEW i, NEW id, NEW v
  PROVE  /\ SameParents(m.frames, Added(m, i, id, v).frames)
         /\ Added(m, i, id, v) = [frames |-> Added(m, i, id, v).frames,
                                  heap |-> Added(m, i, id, v).heap]
<1>1. CASE id \in DOMAIN m.frames[i].lookup
  <2>1. PICK c : c = m.frames[i].values[m.frames[i].lookup[id]]
    OBVIOUS
  <2>2. Added(m, i, id, v) = [m EXCEPT !.heap[c] = v]
    BY <1>1, <2>1 DEF Added
  <2>3. PICK fs, hp : fs = m.frames /\ hp = m.heap
    OBVIOUS
  <2>4. m = [frames |-> fs, heap |-> hp]
    BY <2>3
  <2>5. Added(m, i, id, v) = [frames |-> fs, heap |-> [hp EXCEPT ![c] = v]]
    BY <2>2, <2>4
  <2>6. SameParents(fs, fs)
    BY DEF SameParents
  <2> QED
    BY <2>3, <2>5, <2>6
<1>2. CASE id \notin DOMAIN m.frames[i].lookup
  <2>1. PICK a, k : a = Allocated(m, i, v) /\ k = Len(m.frames[i].values) + 1
    OBVIOUS
  <2>2. PICK fs, hp : fs = a.frames /\ a = [frames |-> fs, heap |-> hp]
    BY <2>1, AllocatedParents
  <2>3. PICK l : l = [x \in DOMAIN fs[i].lookup \cup {id} |-> IF x = id THEN k ELSE fs[i].lookup[x]]
    OBVIOUS
  <2>4. PICK gs : gs = [fs EXCEPT ![i] = [@ EXCEPT !["lookup"] = l]]
    OBVIOUS
  <2>5. Added(m, i, id, v) =
          [a EXCEPT !.frames[i].lookup = [x \in DOMAIN @ \cup {id} |-> IF x = id THEN k ELSE @[x]]]
    BY <1>2, <2>1 DEF Added, AddedNew
  <2>6. Added(m, i, id, v) = [frames |-> gs, heap |-> hp]
    BY <2>2, <2>3, <2>4, <2>5
  <2>7. SameParents(fs, gs)
    BY <2>4, FieldSet
  <2>8. SameParents(m.frames, fs)
    BY <2>1, <2>2, AllocatedParents
  <2>9. SameParents(m.frames, gs)
    BY <2>7, <2>8, SameParentsOn
  <2> QED
    BY <2>6, <2>9
<1> QED
  BY <1>1, <1>2
-------------------------------------------------------------------------------
(* getValue finds its way as long as nothing has moved.                      *)
LEMMA HereUnmoved ==
  ASSUME Evaluating, Running, ~Finished, PointersGood, table = 1
  PROVE  Good(Here) /\ Here.table = 1
<1>1. PICK n : n = Len(activations)
  OBVIOUS
<1>2. n \in Nat \ {0} /\ Top = activations[n] /\ (Inst.op # "comptime" => Top.block # 0)
  BY <1>1, Current, CurrentInst
<1>3. KeepsUnmoved(Top)
  <2>1. n \in 1 .. n
    BY <1>2
  <2> QED
    BY <1>1, <1>2, <2>1 DEF PointersGood, AllUnmoved
<1>4. CASE Inst.op = "condbr"
  <2>1. Here = Top.home /\ Top.block # 0
    BY <1>2, <1>4 DEF Here
  <2> QED
    BY <1>3, <2>1 DEF KeepsUnmoved, Good
<1>5. CASE Inst.op # "condbr" /\ Top.frame # NoFrame
  <2>1. Here = Top.frame
    BY <1>5 DEF Here
  <2> QED
    BY <1>3, <1>5, <2>1 DEF KeepsUnmoved, Unmoved, Good
<1>6. CASE Inst.op # "condbr" /\ Top.frame = NoFrame
  <2>1. Here = [index |-> Depth, table |-> table]
    BY <1>6 DEF Here, CurrentStack
  <2> QED
    BY <2>1 DEF Good
<1> QED
  BY <1>4, <1>5, <1>6

LEMMA HoldersReached ==
  ASSUME Backward, Depth \in Nat, ParentsUnmoved(call_stack), table = 1,
         NEW id, NEW i \in 0 .. Depth
  PROVE  Holders(id)[i] # -1
<1> DEFINE H == Holders(id)
           T == {k \in 0 .. Depth : H[k] = -1}
<1>1. \A k \in 0 .. Depth : H[k] = Held(id, k, H)
  <2>1. H = [k \in 0 .. Depth |-> Held(id, k, H)]
    BY HoldersDefined, Zenon DEF Solves
  <2> HIDE DEF H, Held
  <2> QED
    BY <2>1
<1> HIDE DEF H
<1>2. ASSUME T # {} PROVE FALSE
  <2>1. PICK k \in T : \A j \in T : k <= j
    <3>1. T \subseteq Nat
      OBVIOUS
    <3> QED
      BY <1>2, <3>1, LeastElement
  <2>2. k \in 0 .. Depth /\ H[k] = -1
    OBVIOUS
  <2>3. CASE k = 0
    BY <1>1, <2>2, <2>3 DEF Held
  <2>4. CASE k # 0
    <3>1. k \in 1 .. Depth /\ k - 1 \in 0 .. Depth /\ ~(k <= k - 1)
      BY <2>2, <2>4
    <3>2. H[k - 1] # -1
      BY <2>1, <3>1
    <3>3. call_stack[k].parent = NoFrame \/ call_stack[k].parent.index = k - 1
      BY <3>1 DEF Backward
    <3>4. call_stack[k].parent = NoFrame \/ Good(call_stack[k].parent)
      BY <3>1 DEF ParentsUnmoved, Unmoved, Good, Depth
    <3>5. H[k] = Held(id, k, H)
      BY <1>1, <2>2
    <3>6. Held(id, k, H) # -1
      BY <3>1, <3>2, <3>3, <3>4 DEF Held
    <3> QED
      BY <2>2, <3>5, <3>6
  <2> QED
    BY <2>3, <2>4
<1> QED
  BY <1>2 DEF H

LEMMA NothingLost ==
  ASSUME Evaluating, Running, ~Finished, PointersGood, table = 1
  PROVE  ~Lost
<1>1. /\ Backward /\ Depth \in Nat \ {0} /\ Here.index = Depth /\ Good(Here)
      /\ ParentsUnmoved(call_stack)
  BY Current, CurrentInst, HereUnmoved DEF PointersGood, AllUnmoved
<1>2. Depth \in Nat /\ Depth \in 0 .. Depth
  BY <1>1
<1>3. \A id : Holders(id)[Depth] # -1
  BY <1>1, <1>2, HoldersReached
<1>4. \A id : Holder(Here, id) # -1
  BY <1>1, <1>3 DEF Holder
<1> QED
  BY <1>4 DEF Lost

(* The frame of the caller is where it was.                                  *)
LEMMA CallerUnmoved ==
  ASSUME Evaluating, Running, Finished, Top.block # 0, PointersGood, table = 1
  PROVE  Good(Caller.frame)
<1>1. PICK n, o : n = Len(activations) /\ o = OuterDepth
  OBVIOUS
<1>2. /\ n \in Nat \ {0} /\ Top = activations[n] /\ Stacked(program, call_stack, activations, o)
      /\ activations # <<>>
  BY <1>1, Current
<1>3. /\ activations[1].block = 0
      /\ \A k \in 2 .. n : Waits(activations[k - 1], call_stack[o + k])
  BY <1>1, <1>2 DEF Stacked
<1>4. n # 1
  BY <1>2, <1>3
<1>5. n \in 2 .. n /\ n - 1 \in 1 .. n
  BY <1>2, <1>4
<1>6. Caller = activations[n - 1]
  BY <1>1 DEF Caller
<1>7. Caller.frame # NoFrame
  BY <1>3, <1>5, <1>6 DEF Waits
<1>8. KeepsUnmoved(Caller)
  BY <1>1, <1>5, <1>6 DEF PointersGood, AllUnmoved
<1> QED
  BY <1>7, <1>8 DEF KeepsUnmoved, Unmoved, Good
-------------------------------------------------------------------------------
(* A step that does not push: frames and activations keep their pointers.    *)
LEMMA SameParentsUnmoved ==
  ASSUME NEW fs, NEW h, GoodFrames(fs, h), NEW gs, SameParents(fs, gs), Len(gs) = Len(fs),
         ParentsUnmoved(fs)
  PROVE  ParentsUnmoved(gs)
<1>1. h \in Nat /\ fs \in Seq(Frame(h))
  BY DEF GoodFrames
<1>2. PICK S : S = Frame(h)
  OBVIOUS
<1>3. DOMAIN fs = 1 .. Len(fs) /\ \A i \in 1 .. Len(fs) : fs[i] \in S
  BY <1>1, <1>2
<1>4. \A f \in S : "parent" \in DOMAIN f
  BY <1>2 DEF Frame
<1> QED
  BY <1>3, <1>4 DEF SameParents, ParentsUnmoved

LEMMA TopUnmoved ==
  ASSUME NEW acts \in Seq(Activation), acts # <<>>, \A k \in 1 .. Len(acts) : KeepsUnmoved(acts[k]),
         NEW a \in Activation, KeepsUnmoved(a)
  PROVE  LET bs == Append(SubSeq(acts, 1, Len(acts) - 1), a)
         IN \A k \in 1 .. Len(bs) : KeepsUnmoved(bs[k])
<1>1. PICK n, bs : n = Len(acts) /\ bs = Append(SubSeq(acts, 1, Len(acts) - 1), a)
  OBVIOUS
<1>2. PICK S : S = Activation
  OBVIOUS
<1>3. acts \in Seq(S) /\ a \in S
  BY <1>2
<1>4. Len(bs) = n /\ bs[n] = a /\ \A k \in 1 .. n - 1 : bs[k] = acts[k]
  BY <1>1, <1>3, LastSet
<1>5. n \in Nat
  BY <1>1, <1>3
<1>6. \A k \in 1 .. n : k = n \/ k \in 1 .. n - 1
  BY <1>5
<1> QED
  BY <1>1, <1>4, <1>6

LEMMA ExecutedUnmoved ==
  ASSUME Evaluating, Running, ~Finished, PointersGood, NEW m, Executed(m),
         SameParents(call_stack, m.frames), Len(m.frames) = Len(call_stack)
  PROVE  PointersGood'
<1>1. PICK t, a : t = Top /\ a = [t EXCEPT !.pc = @ + 1, !.frame = NoFrame]
  OBVIOUS
<1>2. /\ call_stack' = m.frames /\ capacity' = capacity /\ table' = table
      /\ activations' = Append(SubSeq(activations, 1, Len(activations) - 1), a)
  BY <1>1 DEF Executed, Becomes, Go, WithTop, Below
<1>3. /\ Top \in Activation /\ activations # <<>> /\ activations \in Seq(Activation)
      /\ Top = activations[Len(activations)] /\ Len(activations) \in Nat \ {0}
      /\ GoodFrames(call_stack, Len(heap))
  BY Current, StackedLength
<1>4. CASE table = 1
  <2>1. ParentsUnmoved(call_stack) /\ \A k \in 1 .. Len(activations) : KeepsUnmoved(activations[k])
    BY <1>4 DEF PointersGood, AllUnmoved
  <2>2. KeepsUnmoved(t)
    <3>1. PICK n : n = Len(activations)
      OBVIOUS
    <3>2. n \in 1 .. n
      BY <1>3, <3>1
    <3> QED
      BY <1>1, <1>3, <2>1, <3>1, <3>2
  <2>3. a \in Activation /\ KeepsUnmoved(a)
    <3>1. t \in [block : Nat, pc : Nat, home : Pointer, frame : Pointer, global : Nat]
      BY <1>1, <1>3 DEF Activation
    <3>2. PICK x, k : x = NoFrame /\ k = t.pc + 1
      OBVIOUS
    <3>3. x \in Pointer /\ k \in Nat
      BY <3>1, <3>2 DEF NoFrame, Pointer
    <3>4. a = [t EXCEPT !.pc = k, !.frame = x]
      BY <1>1, <3>2
    <3>5. /\ a \in [block : Nat, pc : Nat, home : Pointer, frame : Pointer, global : Nat]
          /\ a.block = t.block /\ a.frame = x /\ a.home = t.home
      BY <3>1, <3>3, <3>4
    <3> QED
      BY <2>2, <3>2, <3>5 DEF Activation, KeepsUnmoved, Unmoved
  <2>4. ParentsUnmoved(m.frames)
    BY <1>3, <2>1, SameParentsUnmoved
  <2>5. PICK bs : bs = activations'
    OBVIOUS
  <2>6. \A k \in 1 .. Len(bs) : KeepsUnmoved(bs[k])
    BY <1>2, <1>3, <2>1, <2>3, <2>5, TopUnmoved
  <2>7. AllUnmoved(call_stack', activations')
    BY <1>2, <2>4, <2>5, <2>6 DEF AllUnmoved
  <2> QED
    BY <1>2, <2>7 DEF PointersGood
<1>5. CASE table # 1
  BY <1>2, <1>5 DEF PointersGood
<1> QED
  BY <1>4, <1>5

(* A frame is pushed: it moves the list, or what it keeps is good.           *)
LEMMA PushedUnmoved ==
  ASSUME Evaluating, Running, ~Finished, PointersGood, Grow,
         NEW a \in Activation, activations' = Entered(a), table' = 1 => KeepsUnmoved(a),
         NEW f, call_stack' = Append(call_stack, f), table' = 1 => Unmoved(f.parent)
  PROVE  PointersGood'
<1>1. PICK n, d, c : n = Len(activations) /\ d = Len(call_stack) /\ c = InitialCapacity
  OBVIOUS
<1>2. /\ Top \in Activation /\ activations # <<>> /\ activations \in Seq(Activation)
      /\ Top = activations[n] /\ n \in Nat \ {0} /\ d \in Nat /\ d = Depth
      /\ GoodFrames(call_stack, Len(heap))
      /\ Here \in Pointer
  BY <1>1, Current, CurrentInst, StackedLength
<1>3. /\ Depth <= capacity /\ capacity \in Nat \ {0} /\ table \in Nat /\ c \in Nat \ {0}
      /\ capacity >= c /\ table # 0 /\ (table > 1 => capacity >= 2 * c)
  BY <1>1, CapacityAssumption DEF Evaluating, PointersGood
<1>4. /\ capacity' = IF Depth = capacity THEN 2 * capacity ELSE capacity
      /\ table' \in IF Depth = capacity THEN {table, table + 1} ELSE {table}
  BY DEF Grow
<1>5. /\ table' # 0 /\ capacity' >= c /\ (table' > 1 => capacity' >= 2 * c)
      /\ (table' = 1 => table = 1)
  <2>1. CASE Depth = capacity
    BY <1>3, <1>4, <2>1
  <2>2. CASE Depth # capacity
    BY <1>3, <1>4, <2>2
  <2> QED
    BY <2>1, <2>2
<1>6. ASSUME table' = 1  PROVE AllUnmoved(call_stack', activations')
  <2>1. table = 1
    BY <1>5, <1>6
  <2>2. ParentsUnmoved(call_stack) /\ \A k \in 1 .. n : KeepsUnmoved(activations[k])
    BY <1>1, <2>1 DEF PointersGood, AllUnmoved
  <2>3. PICK t, x, b : t = Top /\ x = Here /\ b = [t EXCEPT !.frame = x]
    OBVIOUS
  <2>4. x.table = 1 /\ x \in Pointer
    BY <1>2, <2>1, <2>3, HereUnmoved
  <2>5. KeepsUnmoved(t)
    <3>1. n \in 1 .. n
      BY <1>2
    <3> QED
      BY <1>2, <2>2, <2>3, <3>1
  <2>6. b \in Activation /\ KeepsUnmoved(b)
    <3>1. t \in [block : Nat, pc : Nat, home : Pointer, frame : Pointer, global : Nat]
      BY <1>2, <2>3 DEF Activation
    <3>2. /\ b \in [block : Nat, pc : Nat, home : Pointer, frame : Pointer, global : Nat]
          /\ b.block = t.block /\ b.frame = x /\ b.home = t.home
      BY <2>3, <2>4, <3>1
    <3> QED
      BY <2>4, <2>5, <3>2 DEF Activation, KeepsUnmoved, Unmoved
  <2>7. PICK bs : bs = Append(SubSeq(activations, 1, Len(activations) - 1), b)
    OBVIOUS
  <2>8. \A k \in 1 .. Len(bs) : KeepsUnmoved(bs[k])
    BY <1>1, <1>2, <2>2, <2>6, <2>7, TopUnmoved
  <2>9. PICK S : S = Activation
    OBVIOUS
  <2>10. bs \in Seq(S) /\ a \in S
    <3>1. activations \in Seq(S) /\ b \in S
      BY <1>2, <2>6, <2>9
    <3> QED
      BY <1>2, <2>7, <2>9, <3>1, LastSet
  <2>11. PICK cs : cs = Append(bs, a)
    OBVIOUS
  <2>12. /\ Len(cs) = Len(bs) + 1 /\ cs[Len(bs) + 1] = a /\ Len(bs) \in Nat
         /\ \A k \in 1 .. Len(bs) : cs[k] = bs[k]
    BY <2>10, <2>11, AppendProperties
  <2>13. \A k \in 1 .. Len(cs) : KeepsUnmoved(cs[k])
    <3>1. PICK l : l = Len(bs)
      OBVIOUS
    <3>2. l \in Nat /\ Len(cs) = l + 1 /\ \A k \in 1 .. l + 1 : k \in 1 .. l \/ k = l + 1
      BY <2>12, <3>1
    <3> QED
      BY <1>6, <2>8, <2>12, <3>1, <3>2
  <2>14. activations' = cs
    BY <2>3, <2>7, <2>11 DEF Entered, WithTop, Below
  <2>15. ParentsUnmoved(call_stack')
    <3>1. PICK F, fs : F = Frame(Len(heap)) \cup {f} /\ fs = call_stack'
      OBVIOUS
    <3>2. call_stack \in Seq(F) /\ f \in F
      <4>1. call_stack \in Seq(Frame(Len(heap)))
        BY <1>2 DEF GoodFrames
      <4>2. Frame(Len(heap)) \subseteq F /\ f \in F
        BY <3>1
      <4> QED
        BY <4>1, <4>2
    <3>3. Len(fs) = d + 1 /\ fs[d + 1] = f /\ \A i \in 1 .. d : fs[i] = call_stack[i]
      BY <1>1, <3>1, <3>2, AppendProperties
    <3>4. \A i \in 1 .. d + 1 : i \in 1 .. d \/ i = d + 1
      BY <1>2
    <3>5. ParentsUnmoved(fs)
      BY <1>1, <1>6, <2>2, <3>3, <3>4 DEF ParentsUnmoved
    <3> QED
      BY <3>1, <3>5
  <2> QED
    BY <2>13, <2>14, <2>15 DEF AllUnmoved
<1> QED
  BY <1>1, <1>5, <1>6 DEF PointersGood

LEMMA JumpUnmoved ==
  ASSUME Evaluating, Running, ~Finished, PointersGood, Inst.op # "comptime", NEW b, b \in Nat,
         JumpTo(b)
  PROVE  PointersGood'
<1>1. PICK t, a : t = Top /\ a = [t EXCEPT !.block = b, !.pc = 1]
  OBVIOUS
<1>2. /\ call_stack' = call_stack /\ capacity' = capacity /\ table' = table
      /\ activations' = Append(SubSeq(activations, 1, Len(activations) - 1), a)
  BY <1>1 DEF JumpTo, Go, memory, WithTop, Below
<1>3. /\ Top \in Activation /\ activations # <<>> /\ activations \in Seq(Activation)
      /\ Top = activations[Len(activations)] /\ Len(activations) \in Nat \ {0}
      /\ Top.block # 0
  BY Current, CurrentInst, StackedLength
<1>4. CASE table = 1
  <2>1. ParentsUnmoved(call_stack) /\ \A k \in 1 .. Len(activations) : KeepsUnmoved(activations[k])
    BY <1>4 DEF PointersGood, AllUnmoved
  <2>2. KeepsUnmoved(t)
    <3>1. PICK n : n = Len(activations)
      OBVIOUS
    <3>2. n \in 1 .. n
      BY <1>3, <3>1
    <3> QED
      BY <1>1, <1>3, <2>1, <3>1, <3>2
  <2>3. a \in Activation /\ KeepsUnmoved(a)
    <3>1. t \in [block : Nat, pc : Nat, home : Pointer, frame : Pointer, global : Nat]
      BY <1>1, <1>3 DEF Activation
    <3>2. /\ a \in [block : Nat, pc : Nat, home : Pointer, frame : Pointer, global : Nat]
          /\ a.frame = t.frame /\ a.home = t.home
      BY <1>1, <3>1
    <3> QED
      BY <1>1, <1>3, <2>2, <3>2 DEF Activation, KeepsUnmoved
  <2>4. PICK bs : bs = activations'
    OBVIOUS
  <2>5. \A k \in 1 .. Len(bs) : KeepsUnmoved(bs[k])
    BY <1>2, <1>3, <2>1, <2>3, <2>4, TopUnmoved
  <2>6. AllUnmoved(call_stack', activations')
    BY <1>2, <2>1, <2>4, <2>5 DEF AllUnmoved
  <2> QED
    BY <1>2, <2>6 DEF PointersGood
<1>5. CASE table # 1
  BY <1>2, <1>5 DEF PointersGood
<1> QED
  BY <1>4, <1>5

(* A frame and its activation go, and nothing moves.                         *)
LEMMA PoppedUnmoved ==
  ASSUME Evaluating, Running, AllUnmoved(call_stack, activations)
  PROVE  /\ ParentsUnmoved(Popped.frames)
         /\ \A k \in 1 .. Len(Below) : KeepsUnmoved(Below[k])
         /\ Below \in Seq(Activation) /\ Len(Below) = Len(activations) - 1
<1>1. PICK n, d, gs : n = Len(activations) /\ d = Depth - 1 /\ gs = Popped.frames
  OBVIOUS
<1>2. /\ Depth \in Nat \ {0} /\ n \in Nat \ {0} /\ Depth = Len(call_stack)
      /\ Stacked(program, call_stack, activations, OuterDepth) /\ activations # <<>>
      /\ GoodMemory(Memory, resolved)
  BY <1>1, Current
<1>3. Len(gs) = Len(call_stack) - 1 /\ \A i \in 1 .. Len(call_stack) - 1 : gs[i] = call_stack[i]
  BY <1>1, <1>2, PoppedGood
<1>4. /\ Stacked(program, gs, Below, OuterDepth) /\ Len(Below) = n - 1
      /\ \A k \in 1 .. n - 1 : Below[k] = activations[k]
  BY <1>1, <1>2, <1>3, StackedPopped DEF Below
<1>5. \A i \in 1 .. d : i \in 1 .. Len(call_stack)
  BY <1>1, <1>2
<1>6. \A k \in 1 .. n - 1 : k \in 1 .. n
  BY <1>2
<1> QED
  BY <1>1, <1>2, <1>3, <1>4, <1>5, <1>6, StackedLength DEF AllUnmoved, ParentsUnmoved

LEMMA ReturnUnmoved ==
  ASSUME Evaluating, PointersGood, ExecuteReturns
  PROVE  PointersGood'
<1>1. /\ Running /\ call_stack' = Popped.frames /\ activations' = Below
      /\ capacity' = capacity /\ table' = table
  BY DEF ExecuteReturns, Becomes
<1>2. CASE table = 1
  <2>1. AllUnmoved(call_stack', activations')
    BY <1>1, <1>2, PoppedUnmoved DEF PointersGood, AllUnmoved
  <2> QED
    BY <1>1, <2>1 DEF PointersGood
<1>3. CASE table # 1
  BY <1>1, <1>3 DEF PointersGood
<1> QED
  BY <1>2, <1>3

LEMMA EndUnmoved ==
  ASSUME Evaluating, PointersGood, EndProgram
  PROVE  PointersGood'
<1>1. PICK n, t, a : /\ n = Len(activations) /\ t = Caller
                     /\ a = [t EXCEPT !.pc = @ + 1, !.frame = NoFrame]
  OBVIOUS
<1>2. PICK i, id, v : i = t.frame.index /\ id = <<t.block, t.pc>> /\ v = LastValue
  OBVIOUS
<1>3. /\ Running /\ Top.block # 0 /\ call_stack' = Added(Popped, i, id, v).frames
      /\ capacity' = capacity /\ table' = table
      /\ activations' = Append(SubSeq(activations, 1, n - 2), a)
  BY <1>1, <1>2 DEF EndProgram, Becomes, Go
<1>4. CASE table = 1
  <2>1. /\ ParentsUnmoved(Popped.frames) /\ \A k \in 1 .. Len(Below) : KeepsUnmoved(Below[k])
        /\ Below \in Seq(Activation) /\ Len(Below) = n - 1
    BY <1>1, <1>3, <1>4, PoppedUnmoved DEF PointersGood
  <2>2. /\ n \in Nat \ {0} /\ Stacked(program, call_stack, activations, OuterDepth)
        /\ activations # <<>> /\ Depth # 0 /\ GoodMemory(Memory, resolved) /\ Top = activations[n]
        /\ activations \in Seq(Activation)
    BY <1>1, <1>3, Current, StackedLength
  <2>3. n # 1
    BY <1>1, <1>3, <2>2 DEF Stacked
  <2>4. n - 1 \in 1 .. n - 1
    BY <2>2, <2>3
  <2>5. Below # <<>> /\ Below[n - 1] = t
    <3>1. \A k \in 1 .. n - 1 : SubSeq(activations, 1, n - 1)[k] = activations[k]
      <4>1. PICK gs : gs = Popped.frames
        OBVIOUS
      <4>2. /\ Depth = Len(call_stack) /\ Len(gs) = Depth - 1
            /\ \A j \in 1 .. Depth - 1 : gs[j] = call_stack[j]
        BY <2>2, <4>1, PoppedGood DEF Depth
      <4> QED
        BY <1>1, <2>2, <4>2, StackedPopped
    <3>2. Below[n - 1] = t
      BY <1>1, <2>4, <3>1 DEF Below, Caller
    <3>3. Below # <<>>
      BY <2>1, <2>2, <2>3, EmptySeq
    <3> QED
      BY <3>2, <3>3
  <2>6. t \in Activation /\ KeepsUnmoved(t)
    <3>1. PICK S, bs : S = Activation /\ bs = Below
      OBVIOUS
    <3>2. bs \in Seq(S) /\ n - 1 \in 1 .. Len(bs)
      BY <2>1, <2>4, <3>1
    <3> QED
      BY <2>1, <2>5, <3>1, <3>2
  <2>7. a \in Activation /\ KeepsUnmoved(a)
    <3>1. t \in [block : Nat, pc : Nat, home : Pointer, frame : Pointer, global : Nat]
      BY <2>6 DEF Activation
    <3>2. PICK x, k : x = NoFrame /\ k = t.pc + 1
      OBVIOUS
    <3>3. x \in Pointer /\ k \in Nat
      BY <3>1, <3>2 DEF NoFrame, Pointer
    <3>4. a = [t EXCEPT !.pc = k, !.frame = x]
      BY <1>1, <3>2
    <3>5. /\ a \in [block : Nat, pc : Nat, home : Pointer, frame : Pointer, global : Nat]
          /\ a.block = t.block /\ a.frame = x /\ a.home = t.home
      BY <3>1, <3>3, <3>4
    <3> QED
      BY <2>6, <3>2, <3>5 DEF Activation, KeepsUnmoved, Unmoved
  <2>8. PICK bs : bs = activations'
    OBVIOUS
  <2>9. SubSeq(Below, 1, Len(Below) - 1) = SubSeq(activations, 1, n - 2)
    BY <1>1, <2>2, <2>3, BelowBelow DEF Below
  <2>10. \A k \in 1 .. Len(bs) : KeepsUnmoved(bs[k])
    <3>1. bs = Append(SubSeq(Below, 1, Len(Below) - 1), a)
      BY <1>3, <2>8, <2>9
    <3> QED
      BY <2>1, <2>5, <2>7, <3>1, TopUnmoved
  <2>11. ParentsUnmoved(call_stack')
    <3>1. PICK fs, gs, h : fs = Popped.frames /\ gs = Added(Popped, i, id, v).frames
                           /\ h = Len(Popped.heap)
      OBVIOUS
    <3>2. GoodFrames(fs, h) /\ Popped = [frames |-> Popped.frames, heap |-> Popped.heap]
      BY <2>2, <3>1, PoppedGood DEF GoodMemory
    <3>3. SameParents(fs, gs)
      BY <3>1, <3>2, AddedParents
    <3>4. DOMAIN gs = DOMAIN fs
      BY <3>3 DEF SameParents
    <3>5. Len(gs) = Len(fs)
      <4>1. fs \in Seq(Frame(h))
        BY <3>2 DEF GoodFrames
      <4> QED
        BY <3>4, <4>1, LenProperties
    <3> QED
      BY <1>3, <2>1, <3>1, <3>2, <3>3, <3>5, SameParentsUnmoved
  <2>12. AllUnmoved(call_stack', activations')
    BY <2>8, <2>10, <2>11 DEF AllUnmoved
  <2> QED
    BY <1>3, <2>12 DEF PointersGood
<1>5. CASE table # 1
  BY <1>3, <1>5 DEF PointersGood
<1> QED
  BY <1>4, <1>5
-------------------------------------------------------------------------------
(* Every action keeps the pointers.                                          *)
LEMMA ExecutedKeeps ==
  ASSUME Evaluating, Running, ~Finished, PointersGood, NEW m, Executed(m),
         SameParents(call_stack, m.frames)
  PROVE  PointersGood'
<1>1. PICK fs, gs, h : fs = call_stack /\ gs = m.frames /\ h = Len(heap)
  OBVIOUS
<1>2. GoodFrames(fs, h)
  BY <1>1, Current
<1>3. fs \in Seq(Frame(h)) /\ DOMAIN gs = DOMAIN fs
  BY <1>1, <1>2 DEF GoodFrames, SameParents
<1>4. Len(gs) = Len(fs)
  BY <1>3, LenProperties
<1> QED
  BY <1>1, <1>4, ExecutedUnmoved

LEMMA YieldsKeeps ==
  ASSUME Evaluating, Running, ~Finished, PointersGood, NEW v, Yields(v)
  PROVE  PointersGood'
<1>1. PICK m : m = Added(Memory, Here.index, InstId, v)
  OBVIOUS
<1>2. Executed(m)
  BY <1>1 DEF Yields
<1>3. Memory.frames = call_stack /\ Memory = [frames |-> Memory.frames, heap |-> Memory.heap]
  BY DEF Memory
<1>4. SameParents(call_stack, m.frames)
  BY <1>1, <1>3, AddedParents
<1> QED
  BY <1>2, <1>4, ExecutedKeeps

LEMMA SameParentsSelf == ASSUME NEW fs PROVE SameParents(fs, fs)
BY DEF SameParents

LEMMA StoreKeeps == Evaluating /\ PointersGood /\ Store => PointersGood'
<1> SUFFICES ASSUME Evaluating, PointersGood, Store PROVE PointersGood'
  OBVIOUS
<1>1. PICK c, v : c = Arg(1).n /\ v = Arg(2)
  OBVIOUS
<1>2. PICK m : m = [Memory EXCEPT !.heap[c] = v]
  OBVIOUS
<1>3. Running /\ ~Finished /\ Executed(m)
  BY <1>1, <1>2 DEF Store, Ready
<1>4. m.frames = call_stack
  BY <1>2 DEF Memory
<1>5. SameParents(call_stack, m.frames)
  BY <1>4, SameParentsSelf
<1> QED
  BY <1>3, <1>5, ExecutedKeeps

LEMMA TakeArgKeeps == Evaluating /\ PointersGood /\ TakeArg => PointersGood'
<1> SUFFICES ASSUME Evaluating, PointersGood, TakeArg PROVE PointersGood'
  OBVIOUS
<1>1. PICK i, id, p : /\ i = Here.index /\ id = InstId
                      /\ p = [kind |-> "ptr",
                              n |-> call_stack[i].values[call_stack[i].arg_count + 1]]
  OBVIOUS
<1>2. PICK a : a = Added(Memory, i, id, p)
  OBVIOUS
<1>3. Running /\ ~Finished /\ Executed([a EXCEPT !.frames[i].arg_count = @ + 1])
  BY <1>1, <1>2 DEF TakeArg, Ready
<1>4. Memory.frames = call_stack /\ Memory = [frames |-> Memory.frames, heap |-> Memory.heap]
  BY DEF Memory
<1>5. PICK fs, hp : fs = a.frames /\ a = [frames |-> fs, heap |-> hp]
  BY <1>2, <1>4, AddedParents
<1>6. SameParents(call_stack, fs)
  BY <1>2, <1>4, <1>5, AddedParents
<1>7. PICK k : k = fs[i].arg_count + 1
  OBVIOUS
<1>8. PICK gs : gs = [fs EXCEPT ![i] = [@ EXCEPT !["arg_count"] = k]]
  OBVIOUS
<1>9. PICK m : m = [a EXCEPT !.frames[i].arg_count = @ + 1]
  OBVIOUS
<1>10. m.frames = gs
  BY <1>5, <1>7, <1>8, <1>9
<1>11. SameParents(fs, gs)
  BY <1>8, FieldSet
<1>12. SameParents(call_stack, m.frames)
  BY <1>6, <1>10, <1>11, SameParentsOn
<1> QED
  BY <1>3, <1>9, <1>12, ExecutedKeeps

LEMMA LocalVariableKeeps == Evaluating /\ PointersGood /\ LocalVariable => PointersGood'
<1> SUFFICES ASSUME Evaluating, PointersGood, LocalVariable PROVE PointersGood'
  OBVIOUS
<1>1. PICK i, id, v, p : /\ i = Here.index /\ id = InstId
                         /\ v = IF Len(Inst.args) = 2 THEN Arg(2) ELSE Number(0)
                         /\ p = [kind |-> "ptr", n |-> Len(heap) + 1]
  OBVIOUS
<1>2. Running /\ ~Finished
  BY DEF LocalVariable, Ready
<1>3. Memory.frames = call_stack /\ Memory = [frames |-> Memory.frames, heap |-> Memory.heap]
  BY DEF Memory
<1>4. CASE id \in DOMAIN call_stack[i].lookup
  <2>1. Executed(Memory)
    BY <1>1, <1>4 DEF LocalVariable
  <2>2. SameParents(call_stack, Memory.frames)
    BY <1>3, SameParentsSelf
  <2> QED
    BY <1>2, <2>1, <2>2, ExecutedKeeps
<1>5. CASE id \notin DOMAIN call_stack[i].lookup
  <2>1. PICK a, m : a = Allocated(Memory, i, v) /\ m = Added(a, i, id, p)
    OBVIOUS
  <2>2. Executed(m)
    BY <1>1, <1>5, <2>1 DEF LocalVariable
  <2>3. SameParents(call_stack, a.frames) /\ a = [frames |-> a.frames, heap |-> a.heap]
    BY <1>3, <2>1, AllocatedParents
  <2>4. SameParents(a.frames, m.frames)
    BY <2>1, <2>3, AddedParents
  <2>5. SameParents(call_stack, m.frames)
    BY <2>3, <2>4, SameParentsOn
  <2> QED
    BY <1>2, <2>2, <2>5, ExecutedKeeps
<1> QED
  BY <1>4, <1>5

LEMMA JumpsKeep == Evaluating /\ PointersGood /\ (Branch \/ CondBranch) => PointersGood'
<1> SUFFICES ASSUME Evaluating, PointersGood, Branch \/ CondBranch PROVE PointersGood'
  OBVIOUS
<1>1. Running /\ ~Finished /\ Inst.op \in {"br", "condbr"}
  BY DEF Branch, CondBranch, Ready
<1>2. PICK k \in 1 .. Len(Inst.to) : JumpTo(Inst.to[k])
  <2>1. Proper(program, Inst)
    BY <1>1, CurrentInst
  <2>2. CASE Branch
    <3>1. Inst.op = "br"
      BY <2>2 DEF Branch, Ready
    <3>2. Len(Inst.to) = 1 /\ 1 \in 1 .. 1
      BY <2>1, <3>1 DEF Proper
    <3> QED
      BY <2>2, <3>2 DEF Branch
  <2>3. CASE CondBranch
    <3>1. Inst.op = "condbr"
      BY <2>3 DEF CondBranch, Ready
    <3>2. Len(Inst.to) = 2 /\ 1 \in 1 .. 2 /\ 2 \in 1 .. 2
      BY <2>1, <3>1 DEF Proper
    <3> QED
      BY <2>3, <3>2 DEF CondBranch
  <2> QED
    BY <2>2, <2>3
<1>3. PICK b : b = Inst.to[k]
  OBVIOUS
<1>4. b \in Nat
  <2>1. Inst.to \in Seq(Nat)
    BY <1>1, CurrentInst, Operands
  <2> QED
    BY <1>3, <2>1
<1> QED
  BY <1>1, <1>2, <1>3, <1>4, JumpUnmoved

LEMMA PushesKeep == Evaluating /\ PointersGood /\ (Demand \/ Call \/ Comptime) => PointersGood'
<1> SUFFICES ASSUME Evaluating, PointersGood, Demand \/ Call \/ Comptime PROVE PointersGood'
  OBVIOUS
<1>1. Running /\ ~Finished /\ Grow
  BY DEF Demand, Asks, Call, Comptime, Ready
<1>2. Depth \in Nat \ {0} /\ Here \in Pointer /\ Proper(program, Inst)
  BY <1>1, Current, CurrentInst
<1>3. table' = 1 => table = 1
  BY <1>1 DEF Grow, PointersGood, Evaluating
<1>4. Unmoved(NoFrame) /\ (table' = 1 => Unmoved(Here))
  BY <1>1, <1>3, HereUnmoved DEF Unmoved
<1>5. CASE Demand
  <2>1. PICK g \in DOMAIN resolved : activations' = Entered(Evaluation(g))
    BY <1>5 DEF Demand
  <2>2. PICK a : a = Evaluation(g)
    OBVIOUS
  <2>3. g \in Nat
    <3>1. DOMAIN resolved = DOMAIN program.globals /\ program \in Program
      BY DEF Evaluating
    <3> QED
      BY <3>1, ProgramFields
  <2>4. a \in Activation /\ a.block = 0 /\ a.frame = NoFrame
    <3>1. NoFrame \in Pointer
      BY DEF NoFrame, Pointer
    <3>2. PICK x : x = NoFrame
      OBVIOUS
    <3>3. a = [block |-> 0, pc |-> 0, home |-> x, frame |-> x, global |-> g]
      BY <2>2, <3>2 DEF Evaluation
    <3> QED
      BY <2>3, <3>1, <3>2, <3>3 DEF Activation
  <2>5. KeepsUnmoved(a)
    BY <2>4 DEF KeepsUnmoved, Unmoved
  <2>6. PICK f : f = EmptyFrame(NoFrame)
    OBVIOUS
  <2>7. call_stack' = Append(call_stack, f) /\ f.parent = NoFrame
    BY <1>5, <2>6 DEF Demand, EmptyFrame
  <2> QED
    BY <1>1, <1>4, <2>1, <2>2, <2>4, <2>5, <2>7, PushedUnmoved
<1>6. CASE Call \/ Comptime
  <2>1. PICK b, a : b = Inst.to[1] /\ a = ProgramOf(b)
    OBVIOUS
  <2>2. activations' = Entered(a)
    BY <1>6, <2>1 DEF Call, Comptime
  <2>3. b \in DOMAIN program.blocks
    <3>1. Inst.op \in {"call", "comptime"}
      BY <1>6 DEF Call, Comptime, Ready
    <3>2. Len(Inst.to) = 1 /\ Inst.to \in Seq(Nat)
      BY <1>2, <3>1, Operands DEF Proper
    <3> QED
      BY <1>2, <2>1, <3>2 DEF Proper
  <2>4. table' \in Nat /\ Depth \in Nat
    BY <1>1, <1>2, GrowTable
  <2>5. a \in Activation
    <3>1. PICK f : f.parent = NoFrame
      <4>1. EmptyFrame(NoFrame).parent = NoFrame
        BY DEF EmptyFrame
      <4> QED
        BY <4>1
    <3> QED
      BY <2>1, <2>3, <2>4, <3>1, ProgramPlaced
  <2>6. a.home.table = table' /\ a.frame = NoFrame
    BY <2>1 DEF ProgramOf
  <2>7. table' = 1 => KeepsUnmoved(a)
    BY <2>6 DEF KeepsUnmoved, Unmoved
  <2>8. PICK f : call_stack' = Append(call_stack, f) /\ f.parent \in {NoFrame, Here}
    <3>1. CASE Call
      <4>1. PICK vs, f : /\ vs = [k \in 1 .. Len(Inst.args) |-> Len(heap) + k]
                         /\ f = [EmptyFrame(NoFrame) EXCEPT !.values = vs]
        OBVIOUS
      <4>2. call_stack' = Append(call_stack, f)
        BY <3>1, <4>1 DEF Call
      <4>3. f.parent = NoFrame
        BY <4>1 DEF EmptyFrame
      <4> QED
        BY <4>2, <4>3
    <3>2. CASE Comptime
      <4>1. PICK f : f = EmptyFrame(Here)
        OBVIOUS
      <4>2. call_stack' = Append(call_stack, f) /\ f.parent = Here
        BY <3>2, <4>1 DEF Comptime, EmptyFrame
      <4> QED
        BY <4>2
    <3> QED
      BY <1>6, <3>1, <3>2
  <2>9. table' = 1 => Unmoved(f.parent)
    BY <1>4, <2>8
  <2> QED
    BY <1>1, <2>2, <2>5, <2>7, <2>8, <2>9, PushedUnmoved
<1> QED
  BY <1>5, <1>6

LEMMA InitPointers == Init => PointersGood
<1> SUFFICES ASSUME Init PROVE PointersGood
  OBVIOUS
<1>1. PICK outer \in Outer : call_stack = [i \in 1 .. outer + 1 |-> EmptyFrame(NoFrame)]
  BY DEF Init
<1>2. outer \in Nat
  BY OuterAssumption, CapacityAssumption
<1>3. Len(call_stack) = outer + 1 /\ \A i \in 1 .. outer + 1 : call_stack[i].parent = NoFrame
  <2>1. PICK f : f = EmptyFrame(NoFrame)
    OBVIOUS
  <2>2. f.parent = NoFrame
    BY <2>1 DEF EmptyFrame
  <2>3. call_stack = [i \in 1 .. outer + 1 |-> f]
    BY <1>1, <2>1
  <2> QED
    BY <1>2, <2>2, <2>3
<1>4. Len(activations) = 1 /\ activations[1] = Evaluation(1)
  BY DEF Init
<1>5. KeepsUnmoved(Evaluation(1))
  BY DEF KeepsUnmoved, Unmoved, Evaluation
<1>6. \A k \in 1 .. Len(activations) : KeepsUnmoved(activations[k])
  BY <1>4, <1>5
<1>7. ParentsUnmoved(call_stack)
  BY <1>3 DEF ParentsUnmoved, Unmoved
<1>8. table = 1 /\ capacity = InitialCapacity /\ InitialCapacity \in Nat \ {0}
  BY CapacityAssumption DEF Init
<1> QED
  BY <1>6, <1>7, <1>8 DEF PointersGood, AllUnmoved

LEMMA NextKeepsPointers == Evaluating /\ PointersGood /\ [Next]_vars => PointersGood'
<1> SUFFICES ASSUME Evaluating, PointersGood, [Next]_vars PROVE PointersGood'
  OBVIOUS
<1>1. CASE UNCHANGED <<call_stack, capacity, table, activations>>
  BY <1>1 DEF PointersGood
<1>2. CASE UNCHANGED vars
  BY <1>1, <1>2 DEF vars
<1>3. CASE Demand \/ Call \/ Comptime
  BY <1>3, PushesKeep
<1>4. CASE \E v : Running /\ ~Finished /\ Yields(v)
  BY <1>4, YieldsKeeps
<1>5. CASE Literal \/ Load \/ TypeOf \/ BinOp \/ Return
  BY <1>4, <1>5 DEF Literal, Load, TypeOf, BinOp, Return, Ready
<1>6. CASE LocalVariable \/ Store \/ TakeArg
  BY <1>6, LocalVariableKeeps, StoreKeeps, TakeArgKeeps
<1>7. CASE RetType
  <2>1. Running /\ ~Finished /\ Executed(Memory)
    BY <1>7 DEF RetType, Ready
  <2>2. SameParents(call_stack, Memory.frames)
    BY SameParentsSelf DEF Memory
  <2> QED
    BY <2>1, <2>2, ExecutedKeeps
<1>8. CASE Branch \/ CondBranch
  BY <1>8, JumpsKeep
<1>9. CASE EndProgram \/ ExecuteReturns
  BY <1>9, EndUnmoved, ReturnUnmoved
<1>10. CASE \E how : Stop(how)
  BY <1>1, <1>10 DEF Stop, memory
<1>11. CASE Cycle \/ UseFreed \/ NoPlace \/ WildStore \/ Dangling \/ CannotOperate \/ NoCondition \/ CallMoves \/ EndInFreed
  BY <1>10, <1>11 DEF Cycle, UseFreed, NoPlace, WildStore, Dangling, CannotOperate, NoCondition, CallMoves, EndInFreed
<1> QED
  BY <1>2, <1>3, <1>5, <1>6, <1>7, <1>8, <1>9, <1>11 DEF Next

(* The steps into undefined behaviour.                                       *)
StaleStep ==
  Running /\ status' = "undefined" =>
    \/ table > 1 /\ capacity >= 2 * InitialCapacity
    \/ Ready("call") /\ Inst.args # <<>> /\ Depth = capacity
    \/ (Ready("load") \/ Ready("store")) /\ Arg(1).kind = "ptr" /\ Pointed = Freed
    \/ Ready("store") /\ Arg(1).kind \notin Pointers

LEMMA NextStale == Evaluating /\ PointersGood /\ [Next]_vars => StaleStep
<1> SUFFICES ASSUME Evaluating, PointersGood, [Next]_vars, Running, status' = "undefined"
             PROVE  \/ table > 1 /\ capacity >= 2 * InitialCapacity
                    \/ Ready("call") /\ Inst.args # <<>> /\ Depth = capacity
                    \/ (Ready("load") \/ Ready("store")) /\ Arg(1).kind = "ptr" /\ Pointed = Freed
                    \/ Ready("store") /\ Arg(1).kind \notin Pointers
  BY DEF StaleStep
<1>1. status = "run" /\ status' # status /\ Next
  BY DEF Running, vars
<1>2. table = 1 \/ (table > 1 /\ capacity >= 2 * InitialCapacity)
  BY DEF PointersGood, Evaluating
<1>3. ~ \E m : Executed(m)
  BY <1>1 DEF Executed, Go
<1>4. ~ \E b : JumpTo(b)
  BY <1>1 DEF JumpTo, Go
<1>5. ~ (Literal \/ Load \/ TypeOf \/ BinOp \/ Return \/ Store \/ RetType \/ Branch \/ CondBranch)
  BY <1>3, <1>4 DEF Literal, Load, TypeOf, BinOp, Return, Store, RetType, Branch, CondBranch, Yields
<1>6. ~LocalVariable /\ ~TakeArg
  BY <1>3 DEF LocalVariable, TakeArg
<1>7. ~ (Demand \/ Call \/ Comptime \/ EndProgram)
  BY <1>1 DEF Demand, Call, Comptime, EndProgram, Go
<1>8. ~ExecuteReturns
  BY <1>1 DEF ExecuteReturns
<1>9. ~ (Cycle \/ NoPlace \/ CannotOperate \/ NoCondition)
  BY <1>1 DEF Cycle, NoPlace, CannotOperate, NoCondition, Stop
<1>10. CASE UseFreed
  BY <1>2, <1>10, NothingLost DEF UseFreed
<1>11. CASE EndInFreed
  BY <1>2, <1>11, CallerUnmoved DEF EndInFreed
<1>12. CASE CallMoves
  BY <1>12 DEF CallMoves
<1>13. CASE Dangling
  BY <1>13 DEF Dangling
<1>14. CASE WildStore
  BY <1>14 DEF WildStore
<1> QED
  BY <1>1, <1>5, <1>6, <1>7, <1>8, <1>9, <1>10, <1>11, <1>12, <1>13, <1>14 DEF Next

(* Undefined behaviour begins with a call_stack that has moved, with the     *)
(* call that moves it, or with a place that the program itself has no right  *)
(* to: until the frames outgrow its first memory, every pointer that an      *)
(* activation or a comptime block keeps is good.                             *)
THEOREM StaleAfterMoving == Spec => StaleOnlyIfMoved
<1>1. Init => Evaluating /\ PointersGood
  BY InitEvaluating, InitPointers
<1>2. Evaluating /\ PointersGood /\ [Next]_vars => (Evaluating /\ PointersGood)'
  BY NextEvaluates, NextKeepsPointers
<1>3. Evaluating /\ PointersGood /\ [Next]_vars => [StaleStep]_vars
  BY NextStale
<1>4. Spec => [][StaleStep]_vars
  BY <1>1, <1>2, <1>3, PTL DEF Spec
<1> QED
  BY <1>4 DEF StaleOnlyIfMoved, StaleStep
-------------------------------------------------------------------------------
(* What a frame holds was not given back.                                    *)
AliveIn(m) == \A i \in 1 .. Len(m.frames) : \A c \in Cells(m.frames[i]) : m.heap[c] # Freed

LEMMA AliveMemory ==
  ASSUME Evaluating
  PROVE  /\ Alive <=> /\ AliveIn(Memory)
                      /\ \A g \in DOMAIN resolved : resolved[g] # Freed
                      /\ result # Freed
         /\ DOMAIN resolved = DOMAIN program.globals
<1>1. PICK h : h = Len(heap)
  OBVIOUS
<1>2. GoodFrames(call_stack, h)
  BY <1>1 DEF Evaluating, GoodMemory, Memory
<1>3. call_stack \in Seq(Frame(h))
  BY <1>2 DEF GoodFrames
<1>4. DOMAIN call_stack = 1 .. Len(call_stack)
  BY <1>3, LenProperties
<1>5. DOMAIN resolved = DOMAIN program.globals
  BY DEF Evaluating
<1> QED
  BY <1>4, <1>5 DEF Alive, AliveIn, Memory

LEMMA SetCellAlive ==
  ASSUME NEW m, NEW res, GoodMemory(m, res), AliveIn(m), NEW c \in 1 .. Len(m.heap), NEW v,
         v # Freed
  PROVE  AliveIn(SetCell(m, c, v))
<1>1. PICK fs, hp : m = [frames |-> fs, heap |-> hp]
  BY DEF GoodMemory
<1>2. PICK h : h = Len(hp)
  OBVIOUS
<1>3. PICK gp : gp = [hp EXCEPT ![c] = v]
  OBVIOUS
<1>4. SetCell(m, c, v) = [frames |-> fs, heap |-> gp]
  BY <1>1, <1>3, SMTT(30) DEF SetCell
<1>5. hp \in Seq(Value) /\ h \in Nat /\ fs \in Seq(Frame(h))
  BY <1>1, <1>2 DEF GoodMemory, GoodHeap, GoodFrames
<1>6. \A d \in 1 .. h : gp[d] = IF d = c THEN v ELSE hp[d]
  BY <1>2, <1>3, <1>5
<1>7. ASSUME NEW i \in 1 .. Len(fs), NEW d \in Cells(fs[i])  PROVE gp[d] # Freed
  <2>1. fs[i] \in Frame(h)
    BY <1>5
  <2>2. d \in 1 .. h
    BY <1>5, <2>1, FrameFields
  <2>3. hp[d] # Freed
    BY <1>1 DEF AliveIn
  <2> QED
    BY <1>6, <2>2, <2>3
<1> QED
  BY <1>4, <1>7 DEF AliveIn

(* A new literal, in the frame i.                                            *)
LEMMA AppendedAlive ==
  ASSUME NEW m, NEW res, GoodMemory(m, res), AliveIn(m), NEW i \in 1 .. Len(m.frames),
         NEW v, v # Freed, NEW h, h = Len(m.heap), NEW a, a.heap = Append(m.heap, v),
         Len(a.frames) = Len(m.frames),
         \A j \in 1 .. Len(m.frames) :
           Cells(a.frames[j]) \subseteq Cells(m.frames[j]) \cup (IF j = i THEN {h + 1} ELSE {})
  PROVE  AliveIn(a)
<1>1. PICK fs, hp : m = [frames |-> fs, heap |-> hp]
  BY DEF GoodMemory
<1>2. hp \in Seq(Value) /\ h \in Nat /\ fs \in Seq(Frame(h))
  BY <1>1 DEF GoodMemory, GoodHeap, GoodFrames
<1>3. PICK gp : gp = a.heap
  OBVIOUS
<1>4. gp[h + 1] = v /\ \A d \in 1 .. h : gp[d] = hp[d]
  BY <1>1, <1>2, <1>3
<1>5. ASSUME NEW j \in 1 .. Len(fs), NEW d \in Cells(a.frames[j])  PROVE gp[d] # Freed
  <2>1. d \in Cells(fs[j]) \/ d = h + 1
    BY <1>1
  <2>2. CASE d \in Cells(fs[j])
    <3>1. fs[j] \in Frame(h)
      BY <1>2
    <3>2. d \in 1 .. h
      BY <1>2, <2>2, <3>1, FrameFields
    <3>3. hp[d] # Freed
      BY <1>1, <2>2 DEF AliveIn
    <3> QED
      BY <1>4, <3>2, <3>3
  <2>3. CASE d = h + 1
    BY <1>4, <2>3
  <2> QED
    BY <2>1, <2>2, <2>3
<1> QED
  BY <1>1, <1>3, <1>5 DEF AliveIn

LEMMA AllocatedCells ==
  ASSUME NEW m, NEW res, GoodMemory(m, res), NEW i \in 1 .. Len(m.frames), NEW v
  PROVE  LET a == Allocated(m, i, v)
         IN /\ a = [frames |-> a.frames, heap |-> Append(m.heap, v)]
            /\ a.heap = Append(m.heap, v) /\ Len(m.heap) \in Nat
            /\ Len(a.frames) = Len(m.frames)
            /\ a.frames \in Seq(Frame(Len(m.heap) + 1))
            /\ Len(a.frames[i].values) = Len(m.frames[i].values) + 1
            /\ Len(m.frames[i].values) \in Nat
            /\ Cells(a.frames[i]) = Cells(m.frames[i]) \cup {Len(m.heap) + 1}
            /\ \A j \in 1 .. Len(m.frames) : j # i => a.frames[j] = m.frames[j]
<1>1. PICK fs, hp : m = [frames |-> fs, heap |-> hp]
  BY DEF GoodMemory
<1>2. PICK a, h : a = Allocated(m, i, v) /\ h = Len(m.heap)
  OBVIOUS
<1>3. h \in Nat /\ fs \in Seq(Frame(h)) /\ i \in 1 .. Len(fs)
  BY <1>2, <1>1 DEF GoodMemory, GoodFrames
<1>4. PICK f, g : f = fs[i] /\ g = Holding(f, h + 1)
  OBVIOUS
<1>5. f \in Frame(h) /\ h + 1 \in Nat /\ h <= h + 1 /\ h + 1 \in 1 .. h + 1
  BY <1>3, <1>4
<1>6. f \in Frame(h + 1) /\ Frame(h) \subseteq Frame(h + 1) /\ Len(f.values) \in Nat
  BY <1>3, <1>5, FrameOn, FrameFields
<1>7. /\ g \in Frame(h + 1) /\ Len(g.values) = Len(f.values) + 1
      /\ Cells(g) = Cells(f) \cup {h + 1}
  BY <1>4, <1>5, <1>6, HoldingFrame
<1>8. a = [frames |-> [fs EXCEPT ![i] = g], heap |-> Append(hp, v)]
  BY <1>2, <1>1, <1>3, <1>4 DEF Allocated, Holding
<1>9. PICK gs : gs = [fs EXCEPT ![i] = g]
  OBVIOUS
<1>10. fs \in Seq(Frame(h + 1))
  BY <1>3, <1>6
<1>11. /\ gs \in Seq(Frame(h + 1)) /\ Len(gs) = Len(fs) /\ gs[i] = g
       /\ \A j \in 1 .. Len(fs) : j # i => gs[j] = fs[j]
  BY <1>3, <1>7, <1>9, <1>10
<1>12. a.frames = gs /\ a.heap = Append(m.heap, v) /\ m.frames = fs
  <2>1. m.frames = fs /\ m.heap = hp
    BY <1>1
  <2>2. a.frames = gs /\ a.heap = Append(hp, v)
    BY <1>8, <1>9
  <2> QED
    BY <2>1, <2>2
<1>13. a = [frames |-> a.frames, heap |-> Append(m.heap, v)]
  BY <1>8, <1>12
<1> QED
  BY <1>2, <1>3, <1>4, <1>6, <1>7, <1>11, <1>12, <1>13

LEMMA AllocatedAlive ==
  ASSUME NEW m, NEW res, GoodMemory(m, res), AliveIn(m), NEW i \in 1 .. Len(m.frames), NEW v,
         v # Freed
  PROVE  AliveIn(Allocated(m, i, v))
<1>1. PICK a, h : a = Allocated(m, i, v) /\ h = Len(m.heap)
  OBVIOUS
<1>2. /\ a.heap = Append(m.heap, v) /\ Len(a.frames) = Len(m.frames)
      /\ Cells(a.frames[i]) = Cells(m.frames[i]) \cup {h + 1}
      /\ \A j \in 1 .. Len(m.frames) : j # i => a.frames[j] = m.frames[j]
  BY <1>1, AllocatedCells
<1>3. \A j \in 1 .. Len(m.frames) :
        Cells(a.frames[j]) \subseteq Cells(m.frames[j]) \cup (IF j = i THEN {h + 1} ELSE {})
  BY <1>2
<1>4. AliveIn(a)
  BY <1>1, <1>2, <1>3, AppendedAlive, ZenonT(60)
<1> QED
  BY <1>1, <1>4

LEMMA AddedAlive ==
  ASSUME NEW m, NEW res, GoodMemory(m, res), AliveIn(m), NEW i \in 1 .. Len(m.frames),
         NEW id \in ValueId, NEW v, v # Freed
  PROVE  AliveIn(Added(m, i, id, v))
<1>1. PICK f, h : f = m.frames[i] /\ h = Len(m.heap)
  OBVIOUS
<1>2. h \in Nat /\ f \in Frame(h)
  BY <1>1 DEF GoodMemory, GoodFrames
<1>3. CASE id \in DOMAIN f.lookup
  <2>1. PICK x \in 1 .. Len(f.values) : x = f.lookup[id]
    BY <1>2, <1>3, FrameFields
  <2>2. PICK c : c = f.values[x]
    OBVIOUS
  <2>3. c \in 1 .. h
    <3>1. f.values \in [1 .. Len(f.values) -> 1 .. h]
      BY <1>2, FrameFields, LenProperties
    <3> QED
      BY <2>1, <2>2, <3>1
  <2>4. Added(m, i, id, v) = SetCell(m, c, v)
    BY <1>1, <1>3, <2>1, <2>2 DEF Added, SetCell
  <2> QED
    BY <1>1, <2>3, <2>4, SetCellAlive
<1>4. CASE id \notin DOMAIN f.lookup
  <2>1. PICK a, k : a = Allocated(m, i, v) /\ k = Len(f.values) + 1
    OBVIOUS
  <2>2. PICK gs : gs = a.frames
    OBVIOUS
  <2>3. /\ a = [frames |-> gs, heap |-> Append(m.heap, v)]
        /\ Len(gs) = Len(m.frames) /\ gs \in Seq(Frame(h + 1))
        /\ Len(gs[i].values) = k /\ Len(f.values) \in Nat
        /\ Cells(gs[i]) = Cells(f) \cup {h + 1}
        /\ \A j \in 1 .. Len(m.frames) : j # i => gs[j] = m.frames[j]
    <3>1. /\ a = [frames |-> a.frames, heap |-> Append(m.heap, v)]
          /\ Len(a.frames) = Len(m.frames) /\ a.frames \in Seq(Frame(h + 1))
          /\ Len(a.frames[i].values) = Len(m.frames[i].values) + 1
          /\ Len(m.frames[i].values) \in Nat
          /\ Cells(a.frames[i]) = Cells(m.frames[i]) \cup {h + 1}
          /\ \A j \in 1 .. Len(m.frames) : j # i => a.frames[j] = m.frames[j]
      BY <1>1, <2>1, AllocatedCells, ZenonT(60)
    <3> QED
      BY <1>1, <2>1, <2>2, <3>1
  <2>4. PICK b, g : b = Added(m, i, id, v) /\ g = Finding(gs[i], id, k)
    OBVIOUS
  <2>5. b = [a EXCEPT !.frames[i].lookup = [x \in DOMAIN @ \cup {id} |-> IF x = id THEN k ELSE @[x]]]
    BY <1>1, <1>4, <2>1, <2>4 DEF Added, AddedNew
  <2>6. b = [frames |-> [gs EXCEPT ![i] = g], heap |-> Append(m.heap, v)]
    <3>1. PICK gp : gp = Append(m.heap, v)
      OBVIOUS
    <3>2. a = [frames |-> gs, heap |-> gp]
      BY <2>3, <3>1
    <3>3. b = [frames |-> [gs EXCEPT ![i] = g], heap |-> gp]
      BY <2>4, <2>5, <3>2 DEF Finding
    <3> QED
      BY <3>1, <3>3
  <2>7. Cells(g) = Cells(gs[i])
    <3>1. h + 1 \in Nat /\ gs[i] \in Frame(h + 1) /\ k \in 1 .. k
      BY <1>2, <2>1, <2>3
    <3> QED
      BY <2>3, <2>4, <3>1, FindingFrame
  <2>8. PICK es : es = [gs EXCEPT ![i] = g]
    OBVIOUS
  <2>9. Len(es) = Len(gs) /\ es[i] = g /\ \A j \in 1 .. Len(m.frames) : j # i => es[j] = gs[j]
    BY <2>3, <2>8
  <2>10. \A j \in 1 .. Len(m.frames) :
           Cells(es[j]) \subseteq Cells(m.frames[j]) \cup (IF j = i THEN {h + 1} ELSE {})
    BY <1>1, <2>3, <2>7, <2>9
  <2>11. b.heap = Append(m.heap, v) /\ b.frames = es
    BY <2>6, <2>8
  <2>12. Len(b.frames) = Len(m.frames)
    BY <2>3, <2>9, <2>11
  <2>13. \A j \in 1 .. Len(m.frames) :
           Cells(b.frames[j]) \subseteq Cells(m.frames[j]) \cup (IF j = i THEN {h + 1} ELSE {})
    BY <2>10, <2>11
  <2>14. AliveIn(b)
    BY <1>1, <2>11, <2>12, <2>13, AppendedAlive, Zenon
  <2> QED
    BY <2>4, <2>14
<1> QED
  BY <1>3, <1>4

LEMMA CountedAlive ==
  ASSUME NEW m, NEW res, GoodMemory(m, res), AliveIn(m), NEW i \in 1 .. Len(m.frames)
  PROVE  AliveIn([m EXCEPT !.frames[i].arg_count = @ + 1])
<1>1. PICK fs, hp : m = [frames |-> fs, heap |-> hp]
  BY DEF GoodMemory
<1>2. PICK h : h = Len(hp)
  OBVIOUS
<1>3. h \in Nat /\ fs \in Seq(Frame(h)) /\ i \in 1 .. Len(fs)
  BY <1>1, <1>2 DEF GoodMemory, GoodFrames
<1>4. PICK f, k : f = fs[i] /\ k = fs[i].arg_count + 1
  OBVIOUS
<1>5. f \in [lookup : Lookups, values : Seq(1 .. h), arg_count : Nat, parent : Pointer]
  BY <1>3, <1>4 DEF Frame
<1>6. PICK g : g = [f EXCEPT !.arg_count = k]
  OBVIOUS
<1>7. g.values = f.values
  BY <1>5, <1>6
<1>8. PICK gs : gs = [fs EXCEPT ![i] = g]
  OBVIOUS
<1>9. PICK b : b = [m EXCEPT !.frames[i].arg_count = @ + 1]
  OBVIOUS
<1>10. b = [frames |-> gs, heap |-> hp]
  BY <1>1, <1>4, <1>6, <1>8, <1>9
<1>11. Len(gs) = Len(fs) /\ \A j \in 1 .. Len(fs) : Cells(gs[j]) = Cells(fs[j])
  BY <1>3, <1>4, <1>7, <1>8 DEF Cells
<1> QED
  BY <1>1, <1>9, <1>10, <1>11 DEF AliveIn

(* The frames below the last one hold nothing of what it gives back.         *)
LEMMA PoppedAlive ==
  ASSUME NEW res, GoodMemory(Memory, res), AliveIn(Memory), Depth # 0
  PROVE  AliveIn(Popped)
<1>1. PICK n, h : n = Depth /\ h = Len(heap)
  OBVIOUS
<1>2. GoodFrames(call_stack, h) /\ heap \in Seq(Value)
  BY <1>1 DEF GoodMemory, Memory, GoodHeap
<1>3. h \in Nat /\ call_stack \in Seq(Frame(h)) /\ n = Len(call_stack)
  BY <1>1, <1>2 DEF GoodFrames, Depth
<1>4. /\ n \in Nat \ {0} /\ Len(Popped.frames) = n - 1
      /\ \A i \in 1 .. n - 1 : Popped.frames[i] = call_stack[i]
  BY <1>1, PoppedGood
<1>5. ASSUME NEW i \in 1 .. n - 1, NEW c \in Cells(call_stack[i])  PROVE Popped.heap[c] # Freed
  <2>1. i \in 1 .. n /\ n \in 1 .. n /\ i # n
    BY <1>4
  <2>2. Cells(call_stack[i]) \cap Cells(call_stack[n]) = {}
    BY <1>2, <1>3, <2>1 DEF GoodFrames
  <2>3. c \notin Cells(call_stack[n])
    BY <2>2
  <2>4. call_stack[i] \in Frame(h)
    BY <1>3, <2>1
  <2>5. c \in DOMAIN heap
    <3>1. c \in 1 .. h
      BY <1>3, <2>4, FrameFields
    <3> QED
      BY <1>1, <1>2, <3>1, LenProperties
  <2>6. heap[c] # Freed
    BY <1>3, <2>1 DEF AliveIn, Memory
  <2>7. PICK gone : gone = call_stack[Depth].values
    OBVIOUS
  <2>8. ~ \E x \in DOMAIN gone : gone[x] = c
    BY <1>1, <2>3, <2>7 DEF Cells
  <2>9. Popped.heap[c] = heap[c]
    BY <2>5, <2>7, <2>8 DEF Popped
  <2> QED
    BY <2>6, <2>9
<1> QED
  BY <1>4, <1>5 DEF AliveIn
-------------------------------------------------------------------------------
(* What is read was not given back.                                          *)
LEMMA ReadAlive ==
  ASSUME Evaluating, AliveIn(Memory), NEW op, Ready(op), NEW k \in DOMAIN Inst.args
  PROVE  Arg(k) # Freed
<1>1. PICK id : id = Inst.args[k]
  OBVIOUS
<1>2. PICK h, j : h = Len(heap) /\ j = Holder(Here, id)
  OBVIOUS
<1>3. Running /\ ~Finished
  BY DEF Ready
<1>4. /\ Depth \in Nat \ {0} /\ Depth = Len(call_stack) /\ Backward /\ h \in Nat
      /\ GoodFrames(call_stack, h) /\ Here.index = Depth
  BY <1>2, <1>3, Current, CurrentInst
<1>5. j # -1
  BY <1>1, <1>2 DEF Ready, Lost
<1>6. j = 0 \/ (j \in 1 .. Depth /\ id \in DOMAIN call_stack[j].lookup)
  <2>1. Here.index \in 0 .. Depth
    BY <1>4
  <2>2. j = Holders(id)[Here.index]
    BY <1>2, <1>5 DEF Holder
  <2> QED
    BY <1>4, <1>5, <2>1, <2>2, HoldersFind
<1>7. Arg(k) = Get(Here, id)
  BY <1>1 DEF Arg
<1>8. CASE j = 0
  <2>1. Get(Here, id).kind = "global"
    BY <1>2, <1>8 DEF Get
  <2> QED
    BY <1>7, <2>1 DEF Freed
<1>9. CASE j \in 1 .. Depth /\ id \in DOMAIN call_stack[j].lookup
  <2>1. PICK f : f = call_stack[j]
    OBVIOUS
  <2>2. f \in Frame(h)
    BY <1>4, <1>9, <2>1 DEF GoodFrames
  <2>3. PICK x \in 1 .. Len(f.values) : x = f.lookup[id]
    BY <1>4, <1>9, <2>1, <2>2, FrameFields
  <2>4. f.values[x] \in Cells(f)
    <3>1. DOMAIN f.values = 1 .. Len(f.values)
      BY <1>4, <2>2, FrameFields
    <3> QED
      BY <2>3, <3>1 DEF Cells
  <2>5. heap[f.values[x]] # Freed
    BY <1>4, <1>9, <2>1, <2>4 DEF AliveIn, Memory
  <2>6. Get(Here, id) = heap[f.values[x]]
    BY <1>2, <1>9, <2>1, <2>3 DEF Get
  <2> QED
    BY <1>7, <2>5, <2>6
<1> QED
  BY <1>6, <1>8, <1>9

LEMMA LastAlive ==
  ASSUME Evaluating, Running, AliveIn(Memory), Len(call_stack[Depth].values) # 0
  PROVE  LastValue # Freed
<1>1. PICK h, f, n : h = Len(heap) /\ f = call_stack[Depth] /\ n = Len(f.values)
  OBVIOUS
<1>2. /\ GoodFrames(call_stack, h) /\ h \in Nat /\ Depth \in Nat \ {0} /\ Depth = Len(call_stack)
  BY <1>1, Current
<1>3. Depth \in 1 .. Len(call_stack)
  BY <1>2
<1>4. f \in Frame(h)
  BY <1>1, <1>2, <1>3 DEF GoodFrames
<1>5. DOMAIN f.values = 1 .. n /\ n \in Nat \ {0}
  BY <1>1, <1>2, <1>4, FrameFields
<1>6. n \in 1 .. n
  BY <1>5
<1>7. f.values[n] \in Cells(f)
  BY <1>5, <1>6 DEF Cells
<1>8. heap[f.values[n]] # Freed
  BY <1>1, <1>3, <1>7 DEF AliveIn, Memory
<1>9. LastValue = heap[f.values[n]]
  BY <1>1 DEF LastValue
<1> QED
  BY <1>8, <1>9

(* The steps keep what is held.                                              *)
LEMMA AliveNext ==
  ASSUME Evaluating', AliveIn([frames |-> call_stack', heap |-> heap']),
         \A g \in DOMAIN resolved' : resolved'[g] # Freed, result' # Freed
  PROVE  Alive'
<1>1. PICK h : h = Len(heap')
  OBVIOUS
<1>2. GoodFrames(call_stack', h)
  BY <1>1 DEF Evaluating, GoodMemory, Memory
<1>3. call_stack' \in Seq(Frame(h))
  BY <1>2 DEF GoodFrames
<1>4. DOMAIN call_stack' = 1 .. Len(call_stack')
  BY <1>3, LenProperties
<1> QED
  BY <1>4 DEF Alive, AliveIn

LEMMA ExecutedAlive ==
  ASSUME Evaluating', Alive, NEW m, m = [frames |-> m.frames, heap |-> m.heap], AliveIn(m), Executed(m)
  PROVE  Alive'
<1>1. /\ call_stack' = m.frames /\ heap' = m.heap
      /\ resolved' = resolved /\ result' = result
  BY DEF Executed, Becomes, Go
<1>2. AliveIn([frames |-> call_stack', heap |-> heap'])
  BY <1>1
<1>3. (\A g \in DOMAIN resolved' : resolved'[g] # Freed) /\ result' # Freed
  BY <1>1 DEF Alive
<1> QED
  BY <1>2, <1>3, AliveNext

LEMMA MemoryGood ==
  ASSUME Evaluating, Running, ~Finished, Alive
  PROVE  /\ GoodMemory(Memory, resolved) /\ AliveIn(Memory)
         /\ Memory = [frames |-> call_stack, heap |-> heap]
         /\ Memory.frames = call_stack /\ Memory.heap = heap
         /\ Here.index \in 1 .. Len(call_stack) /\ InstId \in ValueId
         /\ Proper(program, Inst)
<1>1. Depth \in Nat \ {0} /\ Depth = Len(call_stack) /\ GoodMemory(Memory, resolved)
  BY Current
<1>2. Here.index = Depth /\ InstId \in ValueId /\ Proper(program, Inst)
  BY CurrentInst
<1>3. AliveIn(Memory)
  BY AliveMemory
<1> QED
  BY <1>1, <1>2, <1>3 DEF Memory

LEMMA YieldsAlive ==
  ASSUME Evaluating, Running, ~Finished, Alive, Evaluating', NEW v, v # Freed, Yields(v)
  PROVE  Alive'
<1>1. PICK i, id, m : i = Here.index /\ id = InstId /\ m = Added(Memory, i, id, v)
  OBVIOUS
<1>2. Executed(m)
  BY <1>1 DEF Yields
<1>3. /\ GoodMemory(Memory, resolved) /\ AliveIn(Memory) /\ Memory.frames = call_stack
      /\ i \in 1 .. Len(Memory.frames) /\ id \in ValueId
      /\ Memory = [frames |-> Memory.frames, heap |-> Memory.heap]
  BY <1>1, MemoryGood
<1>4. AliveIn(m)
  BY <1>1, <1>3, AddedAlive
<1>5. m = [frames |-> m.frames, heap |-> m.heap]
  BY <1>1, <1>3, AddedParents
<1> QED
  BY <1>2, <1>4, <1>5, ExecutedAlive
-------------------------------------------------------------------------------
LEMMA ValuesAlive ==
  ASSUME Evaluating, Alive, Evaluating', Literal \/ TypeOf \/ Load \/ BinOp \/ Return
  PROVE  Alive'
<1>1. Running /\ ~Finished
  BY DEF Literal, TypeOf, Load, BinOp, Return, Ready
<1>2. AliveIn(Memory) /\ Proper(program, Inst)
  BY <1>1, MemoryGood
<1>3. CASE Literal
  BY <1>1, <1>2, <1>3, YieldsAlive DEF Literal, Proper
<1>4. CASE TypeOf
  <2>1. Type # Freed
    BY DEF Type, Freed
  <2> QED
    BY <1>1, <1>4, <2>1, YieldsAlive DEF TypeOf
<1>5. CASE Load
  BY <1>1, <1>5, YieldsAlive DEF Load
<1>6. CASE BinOp
  <2>1. PICK op \in Binary : Ready(op)
    BY <1>6 DEF BinOp
  <2>2. PICK x, y, v : x = Arg(1) /\ y = Arg(2) /\ v = Computed(Inst.op, x, y)
    OBVIOUS
  <2>3. Inst.op = op
    BY <2>1 DEF Ready
  <2>4. \A n : Number(n).kind = "int"
    BY DEF Number
  <2>5. \A b : Bool(b).kind = "bool"
    BY DEF Bool
  <2>6. v.kind = "int" \/ v.kind = "bool"
    <3>1. CASE op = "add"
      BY <2>2, <2>3, <2>4, <3>1 DEF Computed
    <3>2. CASE op = "sub"
      BY <2>2, <2>3, <2>4, <3>2 DEF Computed
    <3>3. CASE op = "less"
      BY <2>2, <2>3, <2>5, <3>3 DEF Computed
    <3>4. CASE op = "equal"
      BY <2>2, <2>3, <2>5, <3>4 DEF Computed
    <3> QED
      BY <3>1, <3>2, <3>3, <3>4 DEF Binary
  <2>7. v # Freed
    BY <2>6 DEF Freed
  <2>8. Yields(v)
    BY <1>6, <2>2 DEF BinOp
  <2> QED
    BY <1>1, <2>7, <2>8, YieldsAlive
<1>7. CASE Return
  <2>1. PICK v : v = IF Inst.args = <<>> THEN Void ELSE Arg(1)
    OBVIOUS
  <2>2. Ready("return") /\ Yields(v)
    BY <1>7, <2>1 DEF Return
  <2>3. CASE Inst.args = <<>>
    <3>1. v # Freed
      BY <2>1, <2>3 DEF Void, Freed
    <3> QED
      BY <1>1, <2>2, <3>1, YieldsAlive
  <2>4. CASE Inst.args # <<>>
    <3>1. 1 \in DOMAIN Inst.args /\ v = Arg(1)
      BY <1>2, <2>1, <2>4, Operands
    <3>2. v # Freed
      BY <1>2, <2>2, <3>1, ReadAlive
    <3> QED
      BY <1>1, <2>2, <3>2, YieldsAlive
  <2> QED
    BY <2>3, <2>4
<1> QED
  BY <1>3, <1>4, <1>5, <1>6, <1>7

LEMMA StoreAlive ==
  ASSUME Evaluating, Alive, Evaluating', Store
  PROVE  Alive'
<1>1. PICK c, v : c = Arg(1).n /\ v = Arg(2)
  OBVIOUS
<1>2. PICK m : m = SetCell(Memory, c, v)
  OBVIOUS
<1>3. Ready("store") /\ Arg(1).kind = "ptr" /\ Executed(m)
  BY <1>1, <1>2 DEF Store, SetCell
<1>4. Running /\ ~Finished /\ Inst.op = "store"
  BY <1>3 DEF Ready
<1>5. /\ GoodMemory(Memory, resolved) /\ AliveIn(Memory) /\ Memory.heap = heap
      /\ Memory = [frames |-> call_stack, heap |-> heap] /\ Proper(program, Inst)
  BY <1>4, MemoryGood
<1>6. 1 \in DOMAIN Inst.args /\ 2 \in DOMAIN Inst.args
  BY <1>4, <1>5, Operands DEF Proper
<1>7. c \in 1 .. Len(heap)
  BY <1>1, <1>3, <1>6, PointedSound DEF Pointers
<1>8. v # Freed
  BY <1>1, <1>3, <1>5, <1>6, ReadAlive
<1>9. AliveIn(m)
  BY <1>2, <1>5, <1>7, <1>8, SetCellAlive
<1>10. m = [frames |-> m.frames, heap |-> m.heap]
  BY <1>2, <1>5 DEF SetCell
<1> QED
  BY <1>3, <1>9, <1>10, ExecutedAlive

LEMMA LocalAlive ==
  ASSUME Evaluating, Alive, Evaluating', LocalVariable
  PROVE  Alive'
<1>1. Ready("local") /\ Running /\ ~Finished
  BY DEF LocalVariable, Ready
<1>2. /\ GoodMemory(Memory, resolved) /\ AliveIn(Memory) /\ Memory.frames = call_stack
      /\ Memory = [frames |-> Memory.frames, heap |-> Memory.heap]
      /\ Here.index \in 1 .. Len(call_stack) /\ Proper(program, Inst) /\ InstId \in ValueId
  BY <1>1, MemoryGood
<1>3. CASE InstId \in DOMAIN call_stack[Here.index].lookup
  <2>1. Executed(Memory)
    BY <1>3 DEF LocalVariable
  <2> QED
    BY <1>2, <2>1, ExecutedAlive
<1>4. CASE InstId \notin DOMAIN call_stack[Here.index].lookup
  <2>1. PICK a, v, i, w :
          /\ i = Here.index /\ i \in 1 .. Len(a.frames)
          /\ v = (IF Len(Inst.args) = 2 THEN Arg(2) ELSE Number(0))
          /\ a = Allocated(Memory, i, v)
          /\ GoodMemory(a, resolved) /\ w # Freed
          /\ Executed(Added(a, i, InstId, w))
    BY <1>4, LocalAllocated
  <2>2. v # Freed
    <3>1. CASE Len(Inst.args) = 2
      <4>1. v = Arg(2) /\ 2 \in DOMAIN Inst.args
        BY <1>2, <2>1, <3>1, Operands
      <4> QED
        BY <1>1, <1>2, <4>1, ReadAlive
    <3>2. CASE Len(Inst.args) # 2
      BY <2>1, <3>2 DEF Number, Freed
    <3> QED
      BY <3>1, <3>2
  <2>3. AliveIn(a)
    <3>1. i \in 1 .. Len(Memory.frames)
      BY <1>2, <2>1
    <3> QED
      BY <1>2, <2>1, <2>2, <3>1, AllocatedAlive
  <2>4. PICK m, id : m = Added(a, i, InstId, w) /\ id = InstId
    OBVIOUS
  <2>5. m = Added(a, i, id, w) /\ id \in ValueId
    BY <1>2, <2>4
  <2>6. AliveIn(m)
    BY <2>1, <2>3, <2>5, AddedAlive
  <2>7. m = [frames |-> m.frames, heap |-> m.heap]
    BY <2>1, <2>5, AddedParents DEF GoodMemory
  <2> QED
    BY <2>1, <2>4, <2>6, <2>7, ExecutedAlive
<1> QED
  BY <1>3, <1>4

LEMMA ArgumentAlive ==
  ASSUME Evaluating, Alive, Evaluating', TakeArg
  PROVE  Alive'
<1>1. Running /\ ~Finished
  BY DEF TakeArg, Ready
<1>2. /\ GoodMemory(Memory, resolved) /\ AliveIn(Memory) /\ Memory.frames = call_stack
      /\ Here.index \in 1 .. Len(call_stack) /\ InstId \in ValueId
  BY <1>1, MemoryGood
<1>3. PICK a, i : /\ \E v : v # Freed /\ a = Added(Memory, i, InstId, v)
                  /\ i = Here.index /\ i \in 1 .. Len(a.frames)
                  /\ GoodMemory(a, resolved)
                  /\ a.frames[i].arg_count < Len(a.frames[i].values)
                  /\ Executed([a EXCEPT !.frames[i].arg_count = @ + 1])
  BY ArgumentAdded
<1>4. PICK v, id : v # Freed /\ a = Added(Memory, i, id, v) /\ id = InstId
  BY <1>3
<1>5. i \in 1 .. Len(Memory.frames) /\ id \in ValueId
  BY <1>2, <1>3, <1>4
<1>6. AliveIn(a)
  BY <1>2, <1>4, <1>5, AddedAlive
<1>7. PICK m : m = [a EXCEPT !.frames[i].arg_count = @ + 1]
  OBVIOUS
<1>8. AliveIn(m)
  BY <1>3, <1>6, <1>7, CountedAlive
<1>9. m = [frames |-> m.frames, heap |-> m.heap]
  BY <1>3, <1>7, CountedGood DEF GoodMemory
<1> QED
  BY <1>3, <1>7, <1>8, <1>9, ExecutedAlive

(* What a new frame holds was made with it.                                  *)
LEMMA PushedAlive ==
  ASSUME GoodMemory(Memory, resolved), AliveIn(Memory), NEW f, NEW s \in Seq(Value),
         \A k \in 1 .. Len(s) : s[k] # Freed,
         Cells(f) \subseteq {Len(heap) + k : k \in 1 .. Len(s)}
  PROVE  AliveIn([frames |-> Append(call_stack, f), heap |-> heap \o s])
<1>1. PICK h, n : h = Len(heap) /\ n = Len(call_stack)
  OBVIOUS
<1>2. /\ heap \in Seq(Value) /\ h \in Nat /\ GoodFrames(call_stack, h)
  BY <1>1 DEF GoodMemory, Memory, GoodHeap
<1>3. call_stack \in Seq(Frame(h)) /\ n \in Nat
  BY <1>1, <1>2 DEF GoodFrames
<1>4. PICK l \in Nat : l = Len(s)
  OBVIOUS
<1>5. PICK t : t = heap \o s
  OBVIOUS
<1>6. \A c \in 1 .. h + l : t[c] = IF c <= h THEN heap[c] ELSE s[c - h]
  BY <1>1, <1>2, <1>4, <1>5, ConcatProperties
<1>7. PICK gs : gs = Append(call_stack, f)
  OBVIOUS
<1>8. Len(gs) = n + 1 /\ gs[n + 1] = f /\ \A i \in 1 .. n : gs[i] = call_stack[i]
  <2>1. PICK fs, F : fs = call_stack /\ F = Frame(h)
    OBVIOUS
  <2>2. fs \in Seq(F) /\ gs = Append(fs, f) /\ n = Len(fs)
    BY <1>1, <1>3, <1>7, <2>1
  <2>3. Len(gs) = n + 1 /\ gs[n + 1] = f /\ \A i \in 1 .. n : gs[i] = fs[i]
    BY <1>3, <2>2
  <2> QED
    BY <2>1, <2>3
<1>9. ASSUME NEW i \in 1 .. n + 1, NEW c \in Cells(gs[i])  PROVE t[c] # Freed
  <2>1. CASE i \in 1 .. n
    <3>1. call_stack[i] \in Frame(h)
      BY <1>1, <1>3, <2>1
    <3>2. c \in Cells(call_stack[i]) /\ c \in 1 .. h
      BY <1>2, <1>8, <1>9, <2>1, <3>1, FrameFields
    <3>3. heap[c] # Freed
      BY <1>1, <2>1, <3>2 DEF AliveIn, Memory
    <3> QED
      BY <1>2, <1>4, <1>6, <3>2, <3>3
  <2>2. CASE i = n + 1
    <3>1. PICK k \in 1 .. l : c = h + k
      BY <1>1, <1>4, <1>8, <1>9, <2>2
    <3>2. c \in 1 .. h + l /\ ~(c <= h) /\ c - h = k
      BY <1>2, <1>4, <3>1
    <3> QED
      BY <1>4, <1>6, <3>1, <3>2
  <2> QED
    BY <1>3, <2>1, <2>2
<1> QED
  BY <1>5, <1>7, <1>8, <1>9 DEF AliveIn

LEMMA PushesAlive ==
  ASSUME Evaluating, Alive, Evaluating', Demand \/ Call \/ Comptime
  PROVE  Alive'
<1>1. Running /\ ~Finished
  BY DEF Demand, Asks, Call, Comptime, Ready
<1>2. /\ GoodMemory(Memory, resolved) /\ AliveIn(Memory) /\ Proper(program, Inst)
  BY <1>1, MemoryGood
<1>3. heap \in Seq(Value) /\ result' = result
  <2>1. heap \in Seq(Value)
    BY <1>2 DEF GoodMemory, GoodHeap, Memory
  <2> QED
    BY <2>1 DEF Demand, Call, Comptime, Go
<1>4. \A g \in DOMAIN resolved' : resolved'[g] # Freed
  <2>1. CASE Demand
    <3>1. PICK g : resolved' = [resolved EXCEPT ![g] = Pending]
      BY <2>1 DEF Demand
    <3>2. Pending # Freed
      BY DEF Pending, Freed
    <3> QED
      BY <3>1, <3>2 DEF Alive
  <2>2. CASE Call \/ Comptime
    BY <2>2 DEF Alive, Call, Comptime, Go
  <2> QED
    BY <2>1, <2>2
<1>5. CASE Demand \/ Comptime
  <2>1. PICK p : heap' = heap /\ call_stack' = Append(call_stack, EmptyFrame(p))
    BY <1>5 DEF Demand, Comptime
  <2>2. PICK f, s : f = EmptyFrame(p) /\ s = <<>>
    OBVIOUS
  <2>3. Cells(f) = {}
    <3>1. f.values = <<>>
      BY <2>2 DEF EmptyFrame
    <3> QED
      BY <3>1, EmptyListed DEF Cells
  <2>4. s \in Seq(Value) /\ Len(s) = 0 /\ \A k \in 1 .. Len(s) : s[k] # Freed
    BY <2>2, EmptySeq
  <2>5. heap \o s = heap
    BY <1>3, <2>2, ConcatEmptySeq
  <2>6. AliveIn([frames |-> Append(call_stack, f), heap |-> heap \o s])
    BY <1>2, <2>3, <2>4, PushedAlive
  <2>7. AliveIn([frames |-> call_stack', heap |-> heap'])
    BY <2>1, <2>2, <2>5, <2>6
  <2> QED
    BY <1>3, <1>4, <2>7, AliveNext DEF Alive
<1>6. CASE Call
  <2>1. PICK n, h : n = Len(Inst.args) /\ h = Len(heap)
    OBVIOUS
  <2>2. PICK s, f : /\ s = [k \in 1 .. n |-> Arg(k)]
                    /\ f = [EmptyFrame(NoFrame) EXCEPT !.values = [k \in 1 .. n |-> h + k]]
    OBVIOUS
  <2>3. Ready("call") /\ heap' = heap \o s /\ call_stack' = Append(call_stack, f)
    BY <1>6, <2>1, <2>2 DEF Call
  <2>4. n \in Nat /\ DOMAIN Inst.args = 1 .. n
    BY <1>2, <2>1, Operands
  <2>5. \A k \in 1 .. n : s[k] \in Value /\ s[k] # Freed
    BY <1>2, <2>2, <2>3, <2>4, OperandSound, ReadAlive
  <2>6. s \in Seq(Value) /\ Len(s) = n
    <3>1. s = [k \in 1 .. n |-> s[k]]
      BY <2>2
    <3>2. s \in [1 .. n -> Value]
      BY <2>5, <3>1
    <3> QED
      BY <2>4, <3>2
  <2>7. Cells(f) \subseteq {h + k : k \in 1 .. Len(s)}
    <3>1. PICK e, u : e = EmptyFrame(NoFrame) /\ u = [k \in 1 .. n |-> h + k]
      OBVIOUS
    <3>2. f = [e EXCEPT !.values = u] /\ "values" \in DOMAIN e
      BY <2>2, <3>1 DEF EmptyFrame
    <3>3. f.values = u
      BY <3>2
    <3>4. Cells(f) = {u[x] : x \in 1 .. n}
      BY <3>1, <3>3 DEF Cells
    <3> QED
      BY <2>6, <3>1, <3>4
  <2>8. AliveIn([frames |-> Append(call_stack, f), heap |-> heap \o s])
    <3>1. \A k \in 1 .. Len(s) : s[k] # Freed
      BY <2>5, <2>6
    <3>2. Cells(f) \subseteq {Len(heap) + k : k \in 1 .. Len(s)}
      BY <2>1, <2>7
    <3> QED
      BY <1>2, <2>6, <3>1, <3>2, PushedAlive
  <2>9. AliveIn([frames |-> call_stack', heap |-> heap'])
    BY <2>3, <2>8
  <2> QED
    BY <1>3, <1>4, <2>9, AliveNext DEF Alive
<1> QED
  BY <1>5, <1>6

LEMMA EndAlive ==
  ASSUME Evaluating, Alive, Evaluating', EndProgram
  PROVE  Alive'
<1>1. PICK t, i, id, v : t = Caller /\ i = t.frame.index /\ id = <<t.block, t.pc>> /\ v = LastValue
  OBVIOUS
<1>2. PICK m : m = Added(Popped, i, id, v)
  OBVIOUS
<1>3. /\ Running /\ Top.block # 0 /\ HasValue /\ call_stack' = m.frames /\ heap' = m.heap
      /\ resolved' = resolved /\ result' = result
  BY <1>1, <1>2 DEF EndProgram, Becomes, Go
<1>4. PICK n, o, h : n = Len(activations) /\ o = OuterDepth /\ h = Len(heap)
  OBVIOUS
<1>5. /\ Depth \in Nat \ {0} /\ n \in Nat \ {0} /\ Depth = o + n /\ Depth = Len(call_stack)
      /\ Stacked(program, call_stack, activations, o) /\ Top = activations[n]
      /\ GoodMemory(Memory, resolved) /\ GoodFrames(call_stack, h) /\ h \in Nat
  BY <1>3, <1>4, Current
<1>6. /\ o \in Nat /\ \A k \in 1 .. n : activations[k] \in Activation
      /\ activations[1].block = 0
      /\ \A k \in 1 .. n : Placed(program, activations[k], call_stack[o + k], o + k)
      /\ \A k \in 2 .. n : Waits(activations[k - 1], call_stack[o + k])
  <2>1. activations # <<>>
    BY <1>3, Current
  <2> QED
    BY <1>4, <1>5, <2>1, StackedLength DEF Stacked
<1>7. n # 1
  BY <1>3, <1>5, <1>6
<1>8. n - 1 \in 1 .. n /\ n \in 2 .. n /\ o + (n - 1) = Depth - 1 /\ Depth - 1 \in 1 .. Depth - 1
  BY <1>5, <1>6, <1>7
<1>9. /\ t = activations[n - 1] /\ t \in Activation /\ t.frame # NoFrame
      /\ Placed(program, t, call_stack[Depth - 1], Depth - 1)
  BY <1>1, <1>4, <1>6, <1>8 DEF Caller, Waits
<1>10. t.frame.index = Depth - 1 /\ id \in ValueId
  BY <1>1, <1>9 DEF Placed, ValueId, Activation
<1>11. AliveIn(Memory) /\ (\A g \in DOMAIN resolved : resolved[g] # Freed) /\ result # Freed
  BY AliveMemory
<1>12. GoodMemory(Popped, resolved) /\ Len(Popped.frames) = Depth - 1
  BY <1>5, PoppedGood
<1>13. AliveIn(Popped)
  BY <1>5, <1>11, PoppedAlive
<1>14. v # Freed
  <2>1. PICK f : f = call_stack[Depth]
    OBVIOUS
  <2>2. f \in Frame(h)
    BY <1>5, <2>1 DEF GoodFrames
  <2>3. f.values \in Seq(1 .. h) /\ f.values # <<>>
    BY <1>3, <1>5, <2>1, <2>2, FrameFields DEF HasValue
  <2>4. Len(f.values) # 0
    BY <2>3, EmptySeq
  <2> QED
    BY <1>1, <1>3, <1>11, <2>1, <2>4, LastAlive
<1>15. i \in 1 .. Len(Popped.frames)
  BY <1>1, <1>8, <1>10, <1>12
<1>16. AliveIn(m)
  BY <1>2, <1>10, <1>12, <1>13, <1>14, <1>15, AddedAlive
<1>17. m = [frames |-> m.frames, heap |-> m.heap]
  BY <1>2, <1>12, AddedParents DEF GoodMemory
<1>18. AliveIn([frames |-> call_stack', heap |-> heap'])
  BY <1>3, <1>16, <1>17
<1> QED
  BY <1>3, <1>11, <1>18, AliveNext

LEMMA ReturnAlive ==
  ASSUME Evaluating, Alive, Evaluating', ExecuteReturns
  PROVE  Alive'
<1>1. PICK v, g : v = LastValue /\ g = Top.global
  OBVIOUS
<1>2. /\ Running /\ Finished /\ Top.block = 0 /\ call_stack' = Popped.frames
      /\ heap' = Popped.heap /\ resolved' = [resolved EXCEPT ![g] = v]
      /\ result' = v \/ result' = result
  BY <1>1 DEF ExecuteReturns, Becomes
<1>3. /\ Depth \in Nat \ {0} /\ GoodMemory(Memory, resolved)
      /\ Placed(program, Top, call_stack[Depth], Depth)
  BY <1>2, Current
<1>4. Len(call_stack[Depth].values) # 0
  BY <1>2, <1>3 DEF Placed, Finished
<1>5. AliveIn(Memory) /\ (\A x \in DOMAIN resolved : resolved[x] # Freed) /\ result # Freed
  BY AliveMemory
<1>6. v # Freed
  BY <1>1, <1>2, <1>4, <1>5, LastAlive
<1>7. AliveIn(Popped)
  BY <1>3, <1>5, PoppedAlive
<1>8. AliveIn([frames |-> call_stack', heap |-> heap'])
  <2>1. Popped = [frames |-> Popped.frames, heap |-> Popped.heap]
    BY DEF Popped
  <2> QED
    BY <1>2, <1>7, <2>1
<1>9. (\A x \in DOMAIN resolved' : resolved'[x] # Freed) /\ result' # Freed
  BY <1>2, <1>5, <1>6
<1> QED
  BY <1>8, <1>9, AliveNext

LEMMA InitAlive == Init => Alive
<1> SUFFICES ASSUME Init PROVE Alive
  OBVIOUS
<1>1. PICK outer : call_stack = [i \in 1 .. outer + 1 |-> EmptyFrame(NoFrame)]
  BY DEF Init
<1>2. \A i \in DOMAIN call_stack : Cells(call_stack[i]) = {}
  <2>1. PICK f : f = EmptyFrame(NoFrame)
    OBVIOUS
  <2>2. f.values = <<>>
    BY <2>1 DEF EmptyFrame
  <2>3. Cells(f) = {}
    BY <2>2, EmptyListed DEF Cells
  <2> QED
    BY <1>1, <2>1, <2>3
<1>3. \A g \in DOMAIN resolved : resolved[g] # Freed
  BY DEF Init, Pending, Unresolved, Freed
<1>4. result # Freed
  BY DEF Init, Void, Freed
<1> QED
  BY <1>2, <1>3, <1>4 DEF Alive

LEMMA NextAlive == Evaluating /\ Alive /\ [Next]_vars => Alive'
<1> SUFFICES ASSUME Evaluating, Alive, [Next]_vars PROVE Alive'
  OBVIOUS
<1>1. Evaluating'
  BY NextEvaluates
<1>2. CASE UNCHANGED <<call_stack, heap, resolved, result>>
  BY <1>2 DEF Alive
<1>3. CASE UNCHANGED vars
  BY <1>2, <1>3 DEF vars
<1>4. CASE Demand \/ Call \/ Comptime
  BY <1>1, <1>4, PushesAlive
<1>5. CASE Literal \/ TypeOf \/ Load \/ BinOp \/ Return
  BY <1>1, <1>5, ValuesAlive
<1>6. CASE LocalVariable \/ Store \/ TakeArg
  BY <1>1, <1>6, LocalAlive, StoreAlive, ArgumentAlive
<1>7. CASE RetType
  <2>1. Executed(Memory)
    BY <1>7 DEF RetType
  <2>2. call_stack' = call_stack /\ heap' = heap /\ resolved' = resolved /\ result' = result
    BY <2>1 DEF Executed, Becomes, Memory, Go
  <2> QED
    BY <1>2, <2>2
<1>8. CASE Branch \/ CondBranch
  BY <1>2, <1>8 DEF Branch, CondBranch, JumpTo, memory, Go
<1>9. CASE EndProgram \/ ExecuteReturns
  BY <1>1, <1>9, EndAlive, ReturnAlive
<1>10. CASE \E how : Stop(how)
  BY <1>2, <1>10 DEF Stop, memory
<1>11. CASE Cycle \/ UseFreed \/ NoPlace \/ WildStore \/ Dangling \/ CannotOperate \/ NoCondition \/ CallMoves \/ EndInFreed
  BY <1>10, <1>11 DEF Cycle, UseFreed, NoPlace, WildStore, Dangling, CannotOperate, NoCondition, CallMoves, EndInFreed
<1> QED
  BY <1>3, <1>4, <1>5, <1>6, <1>7, <1>8, <1>9, <1>11 DEF Next

(* executeProgram and UIRComptime::execute have one frame each, in the order *)
(* of the calls, however deep they nest and whenever call_stack moves: a     *)
(* pointer that an activation keeps is to its own frame, the parent of a     *)
(* frame is the one below, and two frames share no literal.  What popStack   *)
(* gives back is of no other frame, of no global and not the result: the     *)
(* value of a program is read before its frame is popped.                    *)
THEOREM EachCallHasItsFrame == Spec => []FramesNest
<1>1. Init => Evaluating /\ Alive
  BY InitEvaluating, InitAlive
<1>2. Evaluating /\ Alive /\ [Next]_vars => (Evaluating /\ Alive)'
  BY NextEvaluates, NextAlive
<1>3. Evaluating /\ Alive => FramesNest
  BY EvaluatingNests
<1> QED
  BY <1>1, <1>2, <1>3, PTL DEF Spec
===============================================================================
