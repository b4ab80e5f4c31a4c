----------------------------- MODULE HashMapProofs -----------------------------
(*****************************************************************************)
(* The hash map implements a dictionary, for all keys, values, hashcodes and *)
(* capacities.                                                               *)
(*                                                                           *)
(* The invariant is that entries are Reachable: then a probe for a hashcode  *)
(* finds the one live slot that has it, or ends in a free slot.              *)
(*****************************************************************************)
EXTENDS HashMap, NumbersAndLists

-------------------------------------------------------------------------------
(* Least is this element.                                                    *)
LEMMA LeastIsLeast ==
  ASSUME NEW S, S \subseteq Nat, S # {}
  PROVE  Least(S) \in S /\ \A m \in S : Least(S) <= m
  BY LeastElement DEF Least

(* c probes visit each of the c slots, each once.                            *)
LEMMA ProbeRange ==
  ASSUME NEW c \in Nat \ {0}, NEW h \in Nat, NEW n \in Nat
  PROVE  Probe(h, n, c) \in 0 .. (c - 1)
  BY DEF Probe

LEMMA WrapAround ==
  ASSUME NEW c \in Nat \ {0}, NEW x \in 0 .. (c - 1)
  PROVE  x % c = x /\ (x + c) % c = x
  OBVIOUS

LEMMA ProbeMeets ==
  ASSUME NEW c \in Nat \ {0}, NEW h \in Nat, NEW i \in 0 .. (c - 1)
  PROVE  \E n \in 0 .. (c - 1) : Probe(h, n, c) = i
<1> DEFINE start == h % c
<1>1. start \in 0 .. (c - 1)
  OBVIOUS
<1>2. CASE start <= i
  <2>1. i - start \in 0 .. (c - 1) /\ start + (i - start) = i
    BY <1>1, <1>2
  <2> QED
    BY <2>1, WrapAround DEF Probe
<1>3. CASE i < start
  <2>1. i + c - start \in 0 .. (c - 1) /\ start + (i + c - start) = i + c
    BY <1>1, <1>3
  <2> QED
    BY <2>1, WrapAround DEF Probe
<1> QED
  BY <1>1, <1>2, <1>3

LEMMA ProbeOnce ==
  ASSUME NEW c \in Nat \ {0}, NEW h \in Nat,
         NEW m \in 0 .. (c - 1), NEW n \in 0 .. (c - 1),
         Probe(h, m, c) = Probe(h, n, c)
  PROVE  m = n
<1> DEFINE start == h % c
           Wrap(x) == IF x < c THEN x ELSE x - c
<1>1. start \in 0 .. (c - 1)
  OBVIOUS
<1>2. \A k \in 0 .. (c - 1) : Probe(h, k, c) = Wrap(start + k)
  <2> TAKE k \in 0 .. (c - 1)
  <2> HIDE DEF start
  <2>1. CASE start + k < c
    <3>1. start + k \in 0 .. (c - 1)
      BY <1>1, <2>1
    <3>2. (start + k) % c = start + k
      BY <3>1, WrapAround
    <3> QED
      BY <2>1, <3>2 DEF Probe, start
  <2>2. CASE ~(start + k < c)
    <3>1. start + k - c \in 0 .. (c - 1) /\ (start + k - c) + c = start + k
      BY <1>1, <2>2
    <3>2. (start + k) % c = start + k - c
      BY <3>1, WrapAround
    <3> QED
      BY <2>2, <3>2 DEF Probe, start
  <2> QED
    BY <2>1, <2>2
<1>3. Wrap(start + m) = Wrap(start + n)
  BY <1>2
<1> HIDE DEF start
<1> QED
  BY <1>1, <1>3

-------------------------------------------------------------------------------
(* A live slot holds a key and a value, and the hashcode of its key.         *)
Keyed(t, c) ==
  \A i \in 0 .. (c - 1) : t[i].alive =>
    t[i].key \in Key /\ t[i].value \in Value /\ t[i].hashcode = hash[t[i].key]

HasHash(t, c, h) == \E i \in 0 .. (c - 1) : t[i].alive /\ t[i].hashcode = h

(* A hashcode is in at most one live slot.                                   *)
LEMMA OneSlotEach ==
  ASSUME NEW c \in Nat \ {0}, NEW t \in Table(c), Reachable(t, c),
         NEW i \in 0 .. (c - 1), NEW j \in 0 .. (c - 1),
         t[i].alive, t[j].alive, t[i].hashcode = t[j].hashcode
  PROVE  i = j
<1>1. t[i].hashcode \in Nat
  BY DEF Table, Slot
<1>2. PICK m \in 0 .. (c - 1) : Probe(t[i].hashcode, m, c) = i
  BY <1>1, ProbeMeets
<1>3. PICK n \in 0 .. (c - 1) : Probe(t[i].hashcode, n, c) = j
  BY <1>1, ProbeMeets
<1>4. ~(m < n)
  <2> SUFFICES ASSUME m < n PROVE FALSE
    OBVIOUS
  <2>1. m \in 0 .. (n - 1)
    OBVIOUS
  <2> QED
    BY <1>2, <1>3, <2>1 DEF Reachable
<1>5. ~(n < m)
  <2> SUFFICES ASSUME n < m PROVE FALSE
    OBVIOUS
  <2>1. n \in 0 .. (m - 1)
    OBVIOUS
  <2> QED
    BY <1>2, <1>3, <2>1 DEF Reachable
<1> QED
  BY <1>2, <1>3, <1>4, <1>5

(* getSlot stays in the table.                                               *)
LEMMA ProbedSlotRange ==
  ASSUME NEW c \in Nat \ {0}, NEW t \in Table(c), NEW h \in Nat,
         NEW why \in {"get", "insert"}
  PROVE  ProbedSlot(t, c, h, why) \in 0 .. (c - 1)
<1> DEFINE stops == Stops(t, c, h, why)
<1>1. stops \subseteq Nat
  BY DEF Stops
<1>2. CASE stops # {}
  BY <1>1, <1>2, LeastIsLeast, ProbeRange DEF ProbedSlot
<1>3. CASE stops = {}
  BY <1>3 DEF ProbedSlot
<1> QED
  BY <1>2, <1>3

(* get finds the live slot that has the hashcode.                            *)
LEMMA FoundIfThere ==
  ASSUME NEW c \in Nat \ {0}, NEW t \in Table(c), Reachable(t, c),
         NEW i \in 0 .. (c - 1), t[i].alive
  PROVE  Found(t, c, t[i].hashcode) = i
<1> DEFINE h == t[i].hashcode
           stops == Stops(t, c, h, "get")
<1>1. h \in Nat
  BY DEF Table, Slot
<1>2. PICK n \in 0 .. (c - 1) : Probe(h, n, c) = i
  BY <1>1, ProbeMeets
<1>3. n \in stops
  BY <1>2 DEF Stops
<1>4. stops \subseteq Nat
  BY DEF Stops
<1>5. \A m \in stops : n <= m
  <2> SUFFICES ASSUME NEW m \in stops, m < n PROVE FALSE
    BY <1>4
  <2>1. m \in 0 .. (n - 1)
    BY <1>4
  <2>2. /\ t[Probe(h, m, c)].alive \/ t[Probe(h, m, c)].tombstone
        /\ t[Probe(h, m, c)].hashcode # h
    BY <1>2, <2>1 DEF Reachable
  <2> QED
    BY <2>2 DEF Stops
<1>6. Least(stops) = n
  <2> HIDE DEF stops
  <2>1. Least(stops) \in stops /\ Least(stops) <= n
    BY <1>3, <1>4, LeastIsLeast
  <2>2. n <= Least(stops) /\ Least(stops) \in Nat
    BY <1>4, <1>5, <2>1
  <2> QED
    BY <2>1, <2>2
<1>7. ProbedSlot(t, c, h, "get") = i
  BY <1>2, <1>3, <1>6 DEF ProbedSlot
<1> QED
  BY <1>7 DEF Found

(* get finds nothing if there is none.                                       *)
LEMMA NotFoundIfAbsent ==
  ASSUME NEW c \in Nat \ {0}, NEW t \in Table(c), NEW h \in Nat,
         ~HasHash(t, c, h)
  PROVE  Found(t, c, h) = Absent
  BY ProbedSlotRange DEF Found, HasHash

(* insert takes the slot that has the hashcode, or the first free one.       *)
LEMMA TakenIsRight ==
  ASSUME NEW c \in Nat \ {0}, NEW t \in Table(c), Reachable(t, c), NEW h \in Nat,
         Removals => ~HasHash(t, c, h), Taken(t, c, h) # Absent
  PROVE  LET i == Taken(t, c, h)
         IN /\ i \in 0 .. (c - 1)
            /\ \/ t[i].alive /\ t[i].hashcode = h
               \/ /\ ~t[i].alive /\ ~HasHash(t, c, h)
                  /\ \E n \in 0 .. (c - 1) :
                       /\ Probe(h, n, c) = i
                       /\ \A m \in 0 .. (n - 1) : t[Probe(h, m, c)].alive
<1> DEFINE i == Taken(t, c, h)
           stops == Stops(t, c, h, "insert")
<1>1. /\ i = ProbedSlot(t, c, h, "insert")
      /\ ~t[i].alive \/ t[i].hashcode = h
  BY DEF Taken
<1>2. i \in 0 .. (c - 1)
  BY <1>1, ProbedSlotRange
<1>3. stops # {}
  <2> SUFFICES ASSUME stops = {} PROVE FALSE
    OBVIOUS
  <2>1. i = h % c
    BY <1>1 DEF ProbedSlot
  <2>2. Probe(h, 0, c) = i
    <3>1. (h % c) \in 0 .. (c - 1)
      OBVIOUS
    <3> QED
      BY <2>1, <3>1, WrapAround DEF Probe
  <2>3. 0 \in stops
    BY <1>1, <2>2 DEF Stops
  <2> QED
    BY <2>3
<1>4. stops \subseteq Nat
  BY DEF Stops
<1> DEFINE n == Least(stops)
<1>5. n \in stops /\ \A m \in stops : n <= m
  <2> HIDE DEF stops
  <2> QED
    BY <1>3, <1>4, LeastIsLeast
<1>6. n \in 0 .. (c - 1) /\ Probe(h, n, c) = i
  <2>1. n \in 0 .. (c - 1)
    BY <1>5 DEF Stops
  <2>2. i = Probe(h, n, c)
    BY <1>1, <1>3 DEF ProbedSlot
  <2> QED
    BY <2>1, <2>2
<1> HIDE DEF n, i
<1>7. \A m \in 0 .. (n - 1) :
        t[Probe(h, m, c)].alive /\ t[Probe(h, m, c)].hashcode # h
  <2> TAKE m \in 0 .. (n - 1)
  <2>1. m \notin stops /\ m \in 0 .. (c - 1)
    BY <1>5, <1>6
  <2> QED
    BY <2>1 DEF Stops
<1>8. ASSUME ~t[i].alive PROVE ~HasHash(t, c, h)
  <2> SUFFICES ASSUME ~Removals, NEW j \in 0 .. (c - 1),
                      t[j].alive, t[j].hashcode = h
               PROVE  FALSE
    BY DEF HasHash
  <2>1. PICK k \in 0 .. (c - 1) : Probe(h, k, c) = j
    BY ProbeMeets
  <2>2. ~(k < n)
    <3> SUFFICES ASSUME k < n PROVE FALSE
      OBVIOUS
    <3>1. k \in 0 .. (n - 1)
      BY <1>6
    <3> QED
      BY <1>7, <2>1, <3>1
  <2>3. k # n
    BY <1>6, <1>8, <2>1
  <2>4. n \in 0 .. (k - 1)
    BY <1>6, <2>2, <2>3
  <2>5. t[Probe(h, n, c)].alive
    BY <2>1, <2>4 DEF Reachable
  <2> QED
    BY <1>6, <1>8, <2>5
<1>9. CASE t[i].alive
  BY <1>1, <1>2, <1>9 DEF i
<1>10. CASE ~t[i].alive
  BY <1>2, <1>6, <1>7, <1>8, <1>10 DEF i
<1> QED
  BY <1>9, <1>10

(* insert gives up only on a table without a free slot.                      *)
LEMMA NotTakenIfFull ==
  ASSUME NEW c \in Nat \ {0}, NEW t \in Table(c), NEW h \in Nat,
         Taken(t, c, h) = Absent
  PROVE  /\ \A i \in 0 .. (c - 1) : t[i].alive
         /\ ~HasHash(t, c, h)
<1> DEFINE stops == Stops(t, c, h, "insert")
<1>1. stops = {}
  <2> SUFFICES ASSUME stops # {} PROVE FALSE
    OBVIOUS
  <2>1. stops \subseteq Nat
    BY DEF Stops
  <2>2. Least(stops) \in stops
    <3> HIDE DEF stops
    <3> QED
      BY <2>1, LeastIsLeast
  <2>3. LET i == ProbedSlot(t, c, h, "insert") IN ~t[i].alive \/ t[i].hashcode = h
    BY <2>2 DEF ProbedSlot, Stops
  <2>4. ProbedSlot(t, c, h, "insert") = Absent
    BY <2>3 DEF Taken
  <2>5. ProbedSlot(t, c, h, "insert") \in Nat
    BY ProbedSlotRange
  <2> QED
    BY <2>4, <2>5, AbsentAssumption
<1>2. \A n \in 0 .. (c - 1) :
        t[Probe(h, n, c)].alive /\ t[Probe(h, n, c)].hashcode # h
  BY <1>1 DEF Stops
<1>3. \A i \in 0 .. (c - 1) : t[i].alive /\ t[i].hashcode # h
  <2> TAKE i \in 0 .. (c - 1)
  <2>1. PICK n \in 0 .. (c - 1) : Probe(h, n, c) = i
    BY ProbeMeets
  <2> QED
    BY <1>2, <2>1
<1> QED
  BY <1>3 DEF HasHash

-------------------------------------------------------------------------------
(* The slot i is one that insert or resize may fill for the hashcode h.      *)
MayFill(t, c, h, i) ==
  \/ t[i].alive /\ t[i].hashcode = h
  \/ /\ ~t[i].alive /\ ~HasHash(t, c, h)
     /\ \E n \in 0 .. (c - 1) :
          /\ Probe(h, n, c) = i
          /\ \A m \in 0 .. (n - 1) : t[Probe(h, m, c)].alive

(* Filling it leaves all entries reachable.                                  *)
LEMMA FillKeepsReachable ==
  ASSUME NEW c \in Nat \ {0}, NEW t \in Table(c), Reachable(t, c),
         NEW i \in 0 .. (c - 1), NEW s \in Slot, s.alive,
         MayFill(t, c, s.hashcode, i)
  PROVE  LET u == [t EXCEPT ![i] = s] IN u \in Table(c) /\ Reachable(u, c)
<1> DEFINE h == s.hashcode
           u == [t EXCEPT ![i] = s]
<1>1. u \in Table(c) /\ u[i] = s /\ \A j \in 0 .. (c - 1) : j # i => u[j] = t[j]
  BY DEF Table
<1>2. h \in Nat /\ \A j \in 0 .. (c - 1) : t[j].hashcode \in Nat
  BY DEF Slot, Table
<1>3. SUFFICES ASSUME NEW j \in 0 .. (c - 1), NEW n \in 0 .. (c - 1),
                      u[j].alive, Probe(u[j].hashcode, n, c) = j,
                      NEW m \in 0 .. (n - 1)
               PROVE  LET passed == u[Probe(u[j].hashcode, m, c)]
                      IN /\ passed.alive \/ (Removals /\ passed.tombstone)
                         /\ passed.hashcode # u[j].hashcode
  BY <1>1 DEF Reachable
<1>4. m \in 0 .. (c - 1) /\ m # n /\ m \in Nat
  OBVIOUS
<1> HIDE DEF u, h
<1>5. CASE j # i
  <2>1. u[j] = t[j]
    BY <1>1, <1>5
  <2> DEFINE q == Probe(t[j].hashcode, m, c)
  <2>2. q \in 0 .. (c - 1)
    BY <1>2, <1>4, ProbeRange
  <2>3. /\ t[q].alive \/ (Removals /\ t[q].tombstone)
        /\ t[q].hashcode # t[j].hashcode
    BY <1>3, <2>1 DEF Reachable
  <2>4. CASE q # i
    BY <1>1, <2>1, <2>2, <2>3, <2>4
  <2>5. CASE q = i
    <3>1. h # t[j].hashcode
      BY <1>3, <2>1, <2>3, <2>5 DEF MayFill, HasHash, h
    <3> QED
      BY <1>1, <2>1, <2>5, <3>1 DEF h
  <2> QED
    BY <2>4, <2>5
<1>6. CASE j = i
  <2>1. u[j] = s /\ u[j].hashcode = h
    BY <1>1, <1>6 DEF h
  <2> DEFINE q == Probe(h, m, c)
  <2>2. q \in 0 .. (c - 1)
    BY <1>2, <1>4, ProbeRange
  <2>3. q # i
    BY <1>2, <1>3, <1>4, <1>6, <2>1, ProbeOnce
  <2>4. CASE t[i].alive /\ t[i].hashcode = h
    <3>1. /\ t[q].alive \/ (Removals /\ t[q].tombstone)
          /\ t[q].hashcode # h
      BY <1>3, <1>6, <2>1, <2>4 DEF Reachable
    <3> QED
      BY <1>1, <2>1, <2>2, <2>3, <3>1
  <2>5. CASE ~t[i].alive
    <3>1. PICK k \in 0 .. (c - 1) :
            Probe(h, k, c) = i /\ \A l \in 0 .. (k - 1) : t[Probe(h, l, c)].alive
      BY <2>5 DEF MayFill, h
    <3>2. k = n
      BY <1>2, <1>3, <1>6, <2>1, <3>1, ProbeOnce
    <3>3. t[q].alive
      BY <3>1, <3>2
    <3>4. t[q].hashcode # h
      BY <2>2, <2>5, <3>3 DEF MayFill, HasHash, h
    <3> QED
      BY <1>1, <2>1, <2>2, <2>3, <3>3, <3>4
  <2> QED
    BY <2>4, <2>5 DEF MayFill, h
<1> QED
  BY <1>5, <1>6

(* So does leaving a tombstone in a slot.                                    *)
LEMMA RemoveKeepsReachable ==
  ASSUME NEW c \in Nat \ {0}, NEW t \in Table(c), Reachable(t, c), Removals,
         NEW i \in 0 .. (c - 1)
  PROVE  LET u == [t EXCEPT ![i].alive = FALSE, ![i].tombstone = TRUE]
         IN u \in Table(c) /\ Reachable(u, c)
<1> DEFINE u == [t EXCEPT ![i].alive = FALSE, ![i].tombstone = TRUE]
<1>1. /\ u \in Table(c)
      /\ u[i].alive = FALSE /\ u[i].tombstone = TRUE
      /\ u[i].hashcode = t[i].hashcode
      /\ \A j \in 0 .. (c - 1) : j # i => u[j] = t[j]
  BY DEF Table, Slot
<1>2. SUFFICES ASSUME NEW j \in 0 .. (c - 1), NEW n \in 0 .. (c - 1),
                      u[j].alive, Probe(u[j].hashcode, n, c) = j,
                      NEW m \in 0 .. (n - 1)
               PROVE  LET passed == u[Probe(u[j].hashcode, m, c)]
                      IN /\ passed.alive \/ (Removals /\ passed.tombstone)
                         /\ passed.hashcode # u[j].hashcode
  BY <1>1 DEF Reachable
<1> HIDE DEF u
<1>3. u[j] = t[j]
  BY <1>1, <1>2
<1> DEFINE q == Probe(t[j].hashcode, m, c)
<1>4. q \in 0 .. (c - 1)
  <2>1. t[j].hashcode \in Nat /\ m \in Nat
    BY DEF Table, Slot
  <2> QED
    BY <2>1, ProbeRange
<1>5. /\ t[q].alive \/ (Removals /\ t[q].tombstone)
      /\ t[q].hashcode # t[j].hashcode
  BY <1>2, <1>3 DEF Reachable
<1> QED
  BY <1>1, <1>3, <1>4, <1>5

(* resize finds a slot for an old entry if the new table has a free one.     *)
LEMMA MoveToIsRight ==
  ASSUME NEW c \in Nat \ {0}, NEW t \in Table(c), NEW h \in Nat,
         ~HasHash(t, c, h), NEW j \in 0 .. (c - 1), ~t[j].alive
  PROVE  /\ MoveTo(t, c, h) \in 0 .. (c - 1)
         /\ ~t[MoveTo(t, c, h)].alive
         /\ MayFill(t, c, h, MoveTo(t, c, h))
<1> DEFINE free == {n \in 0 .. (c - 1) : ~t[Probe(h, n, c)].alive}
<1>1. PICK k \in 0 .. (c - 1) : Probe(h, k, c) = j
  BY ProbeMeets
<1>2. k \in free /\ free \subseteq Nat
  BY <1>1
<1> DEFINE n == Least(free)
<1>3. n \in free /\ \A m \in free : n <= m
  <2> HIDE DEF free
  <2> QED
    BY <1>2, LeastIsLeast
<1> HIDE DEF n
<1>4. \A m \in 0 .. (n - 1) : t[Probe(h, m, c)].alive
  BY <1>3
<1>5. MoveTo(t, c, h) = Probe(h, n, c)
  BY DEF MoveTo, n
<1> QED
  BY <1>3, <1>4, <1>5, ProbeRange DEF MayFill

-------------------------------------------------------------------------------
(* What get answers, in a table whose entries are reachable.                 *)
LEMMA LookupThere ==
  ASSUME NEW c \in Nat \ {0}, NEW t \in Table(c), Reachable(t, c), Keyed(t, c),
         NEW i \in 0 .. (c - 1), t[i].alive
  PROVE  LookupIn(t, c, t[i].key) = t[i].value
<1>1. t[i].hashcode = hash[t[i].key]
  BY DEF Keyed
<1>2. Found(t, c, hash[t[i].key]) = i
  BY <1>1, FoundIfThere
<1> QED
  BY <1>2, AbsentAssumption DEF LookupIn

LEMMA LookupAbsent ==
  ASSUME NEW c \in Nat \ {0}, NEW t \in Table(c), Keyed(t, c), NEW k \in Key,
         \A i \in 0 .. (c - 1) : ~(t[i].alive /\ t[i].key = k)
  PROVE  LookupIn(t, c, k) = Absent /\ ~HasHash(t, c, hash[k])
<1>1. ~HasHash(t, c, hash[k])
  BY HashAssumption DEF HasHash, Keyed
<1>2. Found(t, c, hash[k]) = Absent
  BY <1>1, NotFoundIfAbsent, HashAssumption
<1> QED
  BY <1>1, <1>2 DEF LookupIn

(* Filling a slot for a key changes the answer for that key only.            *)
Filled(t, i, k, v) == [t EXCEPT ![i] = Fill(k, v)]

LEMMA LookupAfterFill ==
  ASSUME NEW c \in Nat \ {0}, NEW t \in Table(c), Reachable(t, c), Keyed(t, c),
         NEW k \in Key, NEW v \in Value,
         NEW i \in 0 .. (c - 1), MayFill(t, c, hash[k], i)
  PROVE  LET u == Filled(t, i, k, v)
         IN /\ u \in Table(c) /\ Reachable(u, c) /\ Keyed(u, c)
            /\ LookupIn(u, c, k) = v
            /\ \A l \in Key : l # k => LookupIn(u, c, l) = LookupIn(t, c, l)
<1> DEFINE u == [t EXCEPT ![i] = Fill(k, v)]
<1>1. /\ Fill(k, v) \in Slot /\ Fill(k, v).alive /\ Fill(k, v).hashcode = hash[k]
      /\ Fill(k, v).key = k /\ Fill(k, v).value = v
  BY HashAssumption DEF Fill, Slot
<1>2. u \in Table(c) /\ Reachable(u, c)
  BY <1>1, FillKeepsReachable
<1>3. u[i] = Fill(k, v) /\ \A j \in 0 .. (c - 1) : j # i => u[j] = t[j]
  BY DEF Table
<1>4. Keyed(u, c)
  BY <1>1, <1>3 DEF Keyed
<1> HIDE DEF u
<1>5. LookupIn(u, c, k) = v
  BY <1>1, <1>2, <1>3, <1>4, LookupThere
<1>6. ASSUME NEW l \in Key, l # k PROVE LookupIn(u, c, l) = LookupIn(t, c, l)
  <2>1. t[i].alive => t[i].key = k
    BY HashAssumption DEF MayFill, Keyed
  <2>2. CASE \E j \in 0 .. (c - 1) : t[j].alive /\ t[j].key = l
    <3>1. PICK j \in 0 .. (c - 1) : t[j].alive /\ t[j].key = l
      BY <2>2
    <3>2. u[j] = t[j]
      BY <1>3, <1>6, <2>1, <3>1
    <3> QED
      BY <1>2, <1>4, <3>1, <3>2, LookupThere
  <2>3. CASE \A j \in 0 .. (c - 1) : ~(t[j].alive /\ t[j].key = l)
    <3>1. \A j \in 0 .. (c - 1) : ~(u[j].alive /\ u[j].key = l)
      BY <1>1, <1>3, <1>6, <2>3
    <3> QED
      BY <1>2, <1>4, <2>3, <3>1, LookupAbsent
  <2> QED
    BY <2>2, <2>3
<1> QED
  BY <1>2, <1>4, <1>5, <1>6 DEF u, Filled

-------------------------------------------------------------------------------
(* The inductive invariant.  While the loop of resize runs, the old table is *)
(* full and does not have the key; and the new one has the entries moved so  *)
(* far, each once.                                                           *)
Live(t, c) == {i \in 0 .. (c - 1) : t[i].alive}

Same(s, r) == s.key = r.key /\ s.value = r.value

Moved ==
  /\ Keyed(new_slots, 2 * slot_capacity)
  /\ Reachable(new_slots, 2 * slot_capacity)
  /\ \A i \in 0 .. (2 * slot_capacity - 1) : new_slots[i].alive =>
       \E j \in 0 .. (next_slot - 1) : Same(new_slots[i], slots[j])
  /\ \A j \in 0 .. (next_slot - 1) :
       \E i \in 0 .. (2 * slot_capacity - 1) :
         new_slots[i].alive /\ Same(new_slots[i], slots[j])
  /\ Cardinality(Live(new_slots, 2 * slot_capacity)) = next_slot

Resizing ==
  phase = "resize" =>
    /\ \A i \in 0 .. (slot_capacity - 1) : slots[i].alive
    /\ ~HasHash(slots, slot_capacity, hash[entry.key])
    /\ Moved

PointerKept ==
  held # Absent =>
    /\ held.table <= slot_capacity
    /\ held.table = slot_capacity /\ ~Removals =>
         /\ held.index \in 0 .. (slot_capacity - 1)
         /\ slots[held.index].alive /\ slots[held.index].key = held.key

Inv ==
  /\ TypeOK /\ Chained /\ Keyed(slots, slot_capacity) /\ AllocatesSlot
  /\ Resizing /\ PointerKept

LEMMA InitEstablishesInv == Init => Inv /\ \A k \in Key : Lookup(k) = Absent
<1> SUFFICES ASSUME Init PROVE Inv /\ \A k \in Key : Lookup(k) = Absent
  OBVIOUS
<1> USE CapacityAssumption
<1>1. slots \in Table(slot_capacity) /\ \A i \in 0 .. (slot_capacity - 1) : ~slots[i].alive
  BY DEF Init, EmptyTable, EmptySlot, Table, Slot
<1>2. slot_capacity \in Nat \ {0}
  BY DEF Init
<1>3. TypeOK
  BY <1>1, <1>2 DEF Init, TypeOK
<1>4. Chained /\ Keyed(slots, slot_capacity)
  BY <1>1 DEF Chained, Reachable, Keyed
<1>5. AllocatesSlot /\ Resizing /\ PointerKept
  BY DEF Init, AllocatesSlot, Resizing, PointerKept
<1>6. ASSUME NEW k \in Key PROVE Lookup(k) = Absent
  BY <1>1, <1>2, <1>4, LookupAbsent DEF Lookup
<1> QED
  BY <1>3, <1>4, <1>5, <1>6 DEF Inv

(* A caller that obeys MayInsert does not insert a key twice beyond a        *)
(* tombstone.                                                                *)
LEMMA MayInsertMeansAbsent ==
  ASSUME Inv, NEW k \in Key, MayInsert(k), Removals
  PROVE  ~HasHash(slots, slot_capacity, hash[k])
<1> SUFFICES ASSUME NEW i \in 0 .. (slot_capacity - 1), slots[i].alive,
                    slots[i].hashcode = hash[k]
             PROVE  FALSE
  BY DEF HasHash
<1>1. slots[i].key = k /\ slots[i].value \in Value
  BY HashAssumption DEF Inv, Keyed
<1>2. Lookup(k) = slots[i].value
  BY <1>1, LookupThere DEF Inv, TypeOK, Chained, Lookup
<1> QED
  BY <1>1, <1>2, AbsentAssumption DEF MayInsert

(* insert, when it finds a slot.                                             *)
LEMMA InsertStep ==
  ASSUME Inv, NEW k \in Key, NEW v \in Value, Insert(k, v)
  PROVE  Inv' /\ \A l \in Key : Lookup(l)' = IF l = k THEN v ELSE Lookup(l)
<1> DEFINE i == Taken(slots, slot_capacity, hash[k])
<1>1. /\ slot_capacity \in Nat \ {0} /\ slots \in Table(slot_capacity)
      /\ Reachable(slots, slot_capacity) /\ Keyed(slots, slot_capacity)
      /\ hash[k] \in Nat
  BY HashAssumption DEF Inv, TypeOK, Chained
<1>2. /\ phase = "idle" /\ MayInsert(k) /\ i # Absent
      /\ slots' = [slots EXCEPT ![i] = Fill(k, v)]
      /\ UNCHANGED <<slot_capacity, phase, new_slots, next_slot, entry, held>>
  BY DEF Insert
<1>3. Removals => ~HasHash(slots, slot_capacity, hash[k])
  BY <1>2, MayInsertMeansAbsent
<1>4. i \in 0 .. (slot_capacity - 1) /\ MayFill(slots, slot_capacity, hash[k], i)
  BY <1>1, <1>2, <1>3, TakenIsRight DEF MayFill
<1> HIDE DEF i
<1>5. /\ slots' \in Table(slot_capacity) /\ Reachable(slots', slot_capacity)
      /\ Keyed(slots', slot_capacity)
      /\ LookupIn(slots', slot_capacity, k) = v
      /\ \A l \in Key : l # k =>
           LookupIn(slots', slot_capacity, l) = LookupIn(slots, slot_capacity, l)
  <2>1. slots' = Filled(slots, i, k, v)
    BY <1>2 DEF Filled
  <2> QED
    BY <1>1, <1>4, <2>1, LookupAfterFill
<1>6. \A l \in Key : Lookup(l)' = IF l = k THEN v ELSE Lookup(l)
  BY <1>2, <1>5 DEF Lookup
<1>7. TypeOK' /\ Chained' /\ Keyed(slots, slot_capacity)' /\ AllocatesSlot'
  BY <1>2, <1>5 DEF Inv, TypeOK, Chained, AllocatesSlot
<1>8. Resizing'
  BY <1>2 DEF Resizing
<1>9. PointerKept'
  <2>1. slots[i].alive => slots[i].key = k
    BY <1>1, <1>4, HashAssumption DEF MayFill, Keyed
  <2>2. /\ slots'[i].alive /\ slots'[i].key = k
        /\ \A j \in 0 .. (slot_capacity - 1) : j # i => slots'[j] = slots[j]
    BY <1>1, <1>2, <1>4 DEF Table, Fill
  <2> QED
    BY <1>2, <2>1, <2>2 DEF Inv, PointerKept
<1> QED
  BY <1>6, <1>7, <1>8, <1>9 DEF Inv

(* insert, when it must resize first.                                        *)
LEMMA InsertIntoFullStep ==
  ASSUME Inv, NEW k \in Key, NEW v \in Value, InsertIntoFull(k, v)
  PROVE  Inv' /\ \A l \in Key : Lookup(l)' = Lookup(l)
<1>1. /\ slot_capacity \in Nat \ {0} /\ slots \in Table(slot_capacity)
      /\ hash[k] \in Nat /\ 2 * slot_capacity \in Nat \ {0}
  BY HashAssumption DEF Inv, TypeOK
<1>2. /\ phase = "idle" /\ Taken(slots, slot_capacity, hash[k]) = Absent
      /\ phase' = "resize" /\ entry' = [key |-> k, value |-> v]
      /\ new_slots' = EmptyTable(2 * slot_capacity) /\ next_slot' = 0
      /\ UNCHANGED <<slots, slot_capacity, held>>
  BY DEF InsertIntoFull
<1>3. /\ \A i \in 0 .. (slot_capacity - 1) : slots[i].alive
      /\ ~HasHash(slots, slot_capacity, hash[k])
  BY <1>1, <1>2, NotTakenIfFull
<1>4. /\ new_slots' \in Table(2 * slot_capacity)
      /\ \A i \in 0 .. (2 * slot_capacity - 1) : ~new_slots'[i].alive
  BY <1>1, <1>2 DEF EmptyTable, EmptySlot, Table, Slot
<1>5. TypeOK'
  BY <1>1, <1>2, <1>4 DEF Inv, TypeOK, Entry
<1>6. /\ Chained' /\ Keyed(slots, slot_capacity)' /\ AllocatesSlot' /\ PointerKept'
      /\ \A l \in Key : Lookup(l)' = Lookup(l)
  BY <1>2 DEF Inv, Chained, AllocatesSlot, PointerKept, Lookup
<1>7. Moved'
  <2>1. Live(new_slots', 2 * slot_capacity) = {}
    BY <1>4 DEF Live
  <2>2. Cardinality(Live(new_slots', 2 * slot_capacity)) = 0
    BY <2>1, FS_EmptySet
  <2>3. Keyed(new_slots', 2 * slot_capacity) /\ Reachable(new_slots', 2 * slot_capacity)
    BY <1>4 DEF Keyed, Reachable
  <2> QED
    BY <1>1, <1>2, <1>4, <2>2, <2>3 DEF Moved
<1>8. Resizing'
  BY <1>2, <1>3, <1>7 DEF Resizing
<1> QED
  BY <1>5, <1>6, <1>8 DEF Inv

(* The hashcodes in the new table are those of the slots that were moved.    *)
LEMMA MovedHashcodes ==
  ASSUME Inv, phase = "resize", NEW h \in Nat,
         HasHash(new_slots, 2 * slot_capacity, h)
  PROVE  \E j \in 0 .. (next_slot - 1) : slots[j].alive /\ slots[j].hashcode = h
<1>1. PICK i \in 0 .. (2 * slot_capacity - 1) :
        new_slots[i].alive /\ new_slots[i].hashcode = h
  BY DEF HasHash
<1>2. PICK j \in 0 .. (next_slot - 1) : Same(new_slots[i], slots[j])
  BY <1>1 DEF Inv, Resizing, Moved
<1>3. j \in 0 .. (slot_capacity - 1)
  BY DEF Inv, TypeOK
<1>4. slots[j].alive
  BY <1>3 DEF Inv, Resizing
<1>5. /\ slots[j].hashcode = hash[slots[j].key]
      /\ new_slots[i].hashcode = hash[new_slots[i].key]
  BY <1>1, <1>3, <1>4 DEF Inv, Resizing, Moved, Keyed
<1> QED
  BY <1>1, <1>2, <1>4, <1>5 DEF Same

(* The new table is never full: it has twice the slots, one for each moved.  *)
LEMMA FreeSlot ==
  ASSUME Inv, phase = "resize"
  PROVE  \E j \in 0 .. (2 * slot_capacity - 1) : ~new_slots[j].alive
<1> DEFINE c == 2 * slot_capacity
<1>1. /\ slot_capacity \in Nat \ {0} /\ c \in Nat \ {0}
      /\ next_slot \in 0 .. slot_capacity
  BY DEF Inv, TypeOK
<1>2. Cardinality(Live(new_slots, c)) = next_slot
  BY DEF Inv, Resizing, Moved
<1>3. Cardinality(0 .. (c - 1)) = c
  BY <1>1, FS_Interval
<1>4. Live(new_slots, c) # 0 .. (c - 1)
  BY <1>1, <1>2, <1>3
<1> QED
  BY <1>4 DEF Live

(* One turn of the loop of resize.                                           *)
LEMMA MoveSlotStep ==
  ASSUME Inv, MoveSlot
  PROVE  Inv' /\ \A l \in Key : Lookup(l)' = Lookup(l)
<1> DEFINE c == 2 * slot_capacity
           old == slots[next_slot]
           s == [old EXCEPT !.alive = TRUE, !.tombstone = FALSE]
           i == MoveTo(new_slots, c, old.hashcode)
<1>1. /\ phase = "resize" /\ next_slot < slot_capacity
      /\ new_slots' = [new_slots EXCEPT ![i] = s]
      /\ next_slot' = next_slot + 1
      /\ UNCHANGED <<slots, slot_capacity, phase, entry, held>>
  BY DEF MoveSlot
<1>2. /\ slot_capacity \in Nat \ {0} /\ c \in Nat \ {0}
      /\ next_slot \in 0 .. (slot_capacity - 1)
      /\ slots \in Table(slot_capacity) /\ new_slots \in Table(c)
      /\ Reachable(slots, slot_capacity) /\ Keyed(slots, slot_capacity)
      /\ Keyed(new_slots, c) /\ Reachable(new_slots, c)
  BY <1>1 DEF Inv, TypeOK, Chained, Resizing, Moved
<1>3. /\ old \in Slot /\ old.alive
      /\ old.key \in Key /\ old.value \in Value /\ old.hashcode = hash[old.key]
  BY <1>1, <1>2 DEF Inv, Resizing, Table, Keyed
<1>4. /\ s \in Slot /\ s.alive /\ s.hashcode = old.hashcode /\ Same(s, old)
      /\ s.key = old.key /\ s.value = old.value
  BY <1>3 DEF Slot, Same
<1>5. old.hashcode \in Nat
  BY <1>3 DEF Slot
<1> HIDE DEF s, i, old
<1>6. ~HasHash(new_slots, c, old.hashcode)
  <2> SUFFICES ASSUME HasHash(new_slots, c, old.hashcode) PROVE FALSE
    OBVIOUS
  <2>1. PICK j \in 0 .. (next_slot - 1) :
          slots[j].alive /\ slots[j].hashcode = old.hashcode
    BY <1>1, <1>5, MovedHashcodes
  <2>2. j \in 0 .. (slot_capacity - 1) /\ j # next_slot
    BY <1>2
  <2> QED
    BY <1>2, <1>3, <2>1, <2>2, OneSlotEach DEF old
<1>7. PICK free \in 0 .. (c - 1) : ~new_slots[free].alive
  BY <1>1, FreeSlot
<1>8. /\ i \in 0 .. (c - 1) /\ ~new_slots[i].alive
      /\ MayFill(new_slots, c, old.hashcode, i)
  <2> HIDE DEF c
  <2> QED
    BY <1>2, <1>5, <1>6, <1>7, MoveToIsRight DEF i
<1>9. new_slots' \in Table(c) /\ Reachable(new_slots', c)
  <2> HIDE DEF c
  <2>1. LET u == [new_slots EXCEPT ![i] = s] IN u \in Table(c) /\ Reachable(u, c)
    BY <1>2, <1>4, <1>8, FillKeepsReachable
  <2> QED
    BY <1>1, <2>1
<1>10. /\ new_slots'[i] = s
       /\ \A q \in 0 .. (c - 1) : q # i => new_slots'[q] = new_slots[q]
  BY <1>1, <1>2, <1>8 DEF Table
<1>11. Keyed(new_slots', c)
  BY <1>2, <1>3, <1>4, <1>10 DEF Keyed
<1>12. \A q \in 0 .. (c - 1) : new_slots'[q].alive =>
         \E j \in 0 .. next_slot : Same(new_slots'[q], slots[j])
  <2> SUFFICES ASSUME NEW q \in 0 .. (c - 1), new_slots'[q].alive
               PROVE  \E j \in 0 .. next_slot : Same(new_slots'[q], slots[j])
    OBVIOUS
  <2>1. CASE q = i
    BY <1>2, <1>4, <1>10, <2>1 DEF old
  <2>2. CASE q # i
    <3>1. PICK j \in 0 .. (next_slot - 1) : Same(new_slots[q], slots[j])
      BY <1>1, <1>10, <2>2 DEF Inv, Resizing, Moved
    <3>2. j \in 0 .. next_slot
      BY <1>2
    <3> QED
      BY <1>10, <2>2, <3>1, <3>2
  <2> QED
    BY <2>1, <2>2
<1>13. \A j \in 0 .. next_slot : \E q \in 0 .. (c - 1) :
         new_slots'[q].alive /\ Same(new_slots'[q], slots[j])
  <2> TAKE j \in 0 .. next_slot
  <2>1. CASE j = next_slot
    BY <1>4, <1>8, <1>10, <2>1 DEF old
  <2>2. CASE j # next_slot
    <3>1. j \in 0 .. (next_slot - 1)
      BY <1>2, <2>2
    <3>2. PICK q \in 0 .. (c - 1) : new_slots[q].alive /\ Same(new_slots[q], slots[j])
      BY <1>1, <3>1 DEF Inv, Resizing, Moved
    <3> QED
      BY <1>8, <1>10, <3>2
  <2> QED
    BY <2>1, <2>2
<1>14. Cardinality(Live(new_slots', c)) = next_slot + 1
  <2>1. Live(new_slots', c) = Live(new_slots, c) \cup {i}
    BY <1>4, <1>8, <1>10 DEF Live
  <2>2. i \notin Live(new_slots, c)
    BY <1>8 DEF Live
  <2>3. IsFiniteSet(0 .. (c - 1))
    BY <1>2, FS_Interval
  <2>4. IsFiniteSet(Live(new_slots, c))
    BY <2>3, FS_Subset DEF Live
  <2>5. Cardinality(Live(new_slots, c)) = next_slot
    BY <1>1 DEF Inv, Resizing, Moved
  <2> QED
    BY <2>1, <2>2, <2>4, <2>5, FS_AddElement
<1>15. Moved'
  <2>1. slot_capacity' = slot_capacity /\ slots' = slots
        /\ next_slot' - 1 = next_slot
    BY <1>1, <1>2
  <2> QED
    BY <1>1, <1>9, <1>11, <1>12, <1>13, <1>14, <2>1 DEF Moved
<1>16. TypeOK'
  BY <1>1, <1>2, <1>9 DEF Inv, TypeOK
<1>17. /\ Chained' /\ Keyed(slots, slot_capacity)' /\ AllocatesSlot' /\ PointerKept'
       /\ \A l \in Key : Lookup(l)' = Lookup(l)
  BY <1>1 DEF Inv, Chained, AllocatesSlot, PointerKept, Lookup
<1>18. Resizing'
  BY <1>1, <1>15 DEF Inv, Resizing
<1> QED
  BY <1>16, <1>17, <1>18 DEF Inv

(* The new table answers what the old one did, once all slots are moved.     *)
LEMMA SameAnswers ==
  ASSUME Inv, phase = "resize", next_slot = slot_capacity, NEW l \in Key
  PROVE  LookupIn(new_slots, 2 * slot_capacity, l) = Lookup(l)
<1> DEFINE c == 2 * slot_capacity
<1>1. /\ slot_capacity \in Nat \ {0} /\ c \in Nat \ {0}
      /\ slots \in Table(slot_capacity) /\ new_slots \in Table(c)
      /\ Reachable(slots, slot_capacity) /\ Keyed(slots, slot_capacity)
      /\ Keyed(new_slots, c) /\ Reachable(new_slots, c)
  BY DEF Inv, TypeOK, Chained, Resizing, Moved
<1> HIDE DEF c
<1>2. CASE \E j \in 0 .. (slot_capacity - 1) : slots[j].alive /\ slots[j].key = l
  <2>1. PICK j \in 0 .. (slot_capacity - 1) : slots[j].alive /\ slots[j].key = l
    BY <1>2
  <2>2. PICK i \in 0 .. (c - 1) : new_slots[i].alive /\ Same(new_slots[i], slots[j])
    BY DEF Inv, Resizing, Moved, c
  <2>3. new_slots[i].key = l /\ new_slots[i].value = slots[j].value
    BY <2>1, <2>2 DEF Same
  <2>4. LookupIn(new_slots, c, l) = new_slots[i].value
    BY <1>1, <2>2, <2>3, LookupThere
  <2>5. LookupIn(slots, slot_capacity, l) = slots[j].value
    BY <1>1, <2>1, LookupThere
  <2> QED
    BY <2>3, <2>4, <2>5 DEF Lookup, c
<1>3. CASE \A j \in 0 .. (slot_capacity - 1) : ~(slots[j].alive /\ slots[j].key = l)
  <2>1. \A i \in 0 .. (c - 1) : ~(new_slots[i].alive /\ new_slots[i].key = l)
    <3> SUFFICES ASSUME NEW i \in 0 .. (c - 1), new_slots[i].alive, new_slots[i].key = l
                 PROVE  FALSE
      OBVIOUS
    <3>1. PICK j \in 0 .. (slot_capacity - 1) : Same(new_slots[i], slots[j])
      BY DEF Inv, Resizing, Moved, c
    <3>2. slots[j].alive
      BY DEF Inv, Resizing
    <3> QED
      BY <1>3, <3>1, <3>2 DEF Same
  <2>2. LookupIn(new_slots, c, l) = Absent
    BY <1>1, <2>1, LookupAbsent
  <2>3. LookupIn(slots, slot_capacity, l) = Absent
    BY <1>1, <1>3, LookupAbsent
  <2> QED
    BY <2>2, <2>3 DEF Lookup, c
<1> QED
  BY <1>2, <1>3

(* The end of resize, and the insertion it was for.                          *)
LEMMA FinishResizeStep ==
  ASSUME Inv, FinishResize
  PROVE  /\ Inv'
         /\ entry \in Entry
         /\ \A l \in Key :
              Lookup(l)' = IF l = entry.key THEN entry.value ELSE Lookup(l)
<1> DEFINE c == 2 * slot_capacity
           k == entry.key
           v == entry.value
           i == Taken(new_slots, c, hash[k])
<1>1. /\ phase = "resize" /\ next_slot = slot_capacity
      /\ slot_capacity' = c /\ next_slot' = 0 /\ held' = held
  BY DEF FinishResize
<1>2. /\ slot_capacity \in Nat \ {0} /\ c \in Nat \ {0} /\ new_slots \in Table(c)
      /\ entry \in Entry /\ k \in Key /\ v \in Value /\ hash[k] \in Nat
      /\ Keyed(new_slots, c) /\ Reachable(new_slots, c)
  BY <1>1, HashAssumption DEF Inv, TypeOK, Entry, Resizing, Moved
<1>3. ~HasHash(new_slots, c, hash[k])
  <2> SUFFICES ASSUME HasHash(new_slots, c, hash[k]) PROVE FALSE
    OBVIOUS
  <2>1. PICK j \in 0 .. (next_slot - 1) : slots[j].alive /\ slots[j].hashcode = hash[k]
    BY <1>1, <1>2, MovedHashcodes
  <2> QED
    BY <1>1, <2>1 DEF Inv, Resizing, HasHash
<1>4. i # Absent
  <2> HIDE DEF c, k
  <2> SUFFICES ASSUME i = Absent PROVE FALSE
    OBVIOUS
  <2>1. \A j \in 0 .. (c - 1) : new_slots[j].alive
    BY <1>2, NotTakenIfFull
  <2> QED
    BY <1>1, <2>1, FreeSlot DEF c
<1>5. slots' = [new_slots EXCEPT ![i] = Fill(k, v)] /\ phase' = "idle"
  BY <1>4 DEF FinishResize
<1>6. i \in 0 .. (c - 1) /\ MayFill(new_slots, c, hash[k], i)
  <2> HIDE DEF c, k
  <2> QED
    BY <1>2, <1>3, <1>4, TakenIsRight DEF MayFill
<1> HIDE DEF i, c, k, v
<1>7. /\ slots' \in Table(c) /\ Reachable(slots', c) /\ Keyed(slots', c)
      /\ LookupIn(slots', c, k) = v
      /\ \A l \in Key : l # k => LookupIn(slots', c, l) = LookupIn(new_slots, c, l)
  <2>1. slots' = Filled(new_slots, i, k, v)
    BY <1>5 DEF Filled
  <2> QED
    BY <1>2, <1>6, <2>1, LookupAfterFill
<1>8. \A l \in Key : Lookup(l)' = IF l = k THEN v ELSE Lookup(l)
  <2> TAKE l \in Key
  <2>1. LookupIn(new_slots, c, l) = Lookup(l)
    BY <1>1, SameAnswers DEF c
  <2>2. Lookup(l)' = LookupIn(slots', c, l)
    BY <1>1 DEF Lookup
  <2> QED
    BY <1>7, <2>1, <2>2
<1>9. PointerKept'
  <2>1. held # Absent => held.table \in Nat /\ held.table <= slot_capacity
    BY DEF Inv, TypeOK, Pointer, PointerKept
  <2>2. slot_capacity < c
    BY <1>2 DEF c
  <2> QED
    BY <1>1, <1>2, <2>1, <2>2 DEF PointerKept
<1>10. TypeOK'
  BY <1>1, <1>2, <1>5, <1>7 DEF Inv, TypeOK
<1>11. Chained' /\ Keyed(slots, slot_capacity)' /\ AllocatesSlot' /\ Resizing'
  BY <1>1, <1>5, <1>7 DEF Chained, AllocatesSlot, Resizing
<1> QED
  BY <1>2, <1>8, <1>9, <1>10, <1>11 DEF Inv, k, v

(* The slot that get and remove find is the one of the key.                  *)
LEMMA FoundIsRight ==
  ASSUME Inv, NEW k \in Key, Found(slots, slot_capacity, hash[k]) # Absent
  PROVE  LET i == Found(slots, slot_capacity, hash[k])
         IN i \in 0 .. (slot_capacity - 1) /\ slots[i].alive /\ slots[i].key = k
<1> DEFINE i == Found(slots, slot_capacity, hash[k])
<1>1. i = ProbedSlot(slots, slot_capacity, hash[k], "get")
      /\ slots[i].alive /\ slots[i].hashcode = hash[k]
  BY DEF Found
<1>2. i \in 0 .. (slot_capacity - 1)
  BY <1>1, ProbedSlotRange, HashAssumption DEF Inv, TypeOK
<1>3. slots[i].key = k
  <2> HIDE DEF i
  <2> QED
    BY <1>1, <1>2, HashAssumption DEF Inv, Keyed
<1> QED
  BY <1>1, <1>2, <1>3

LEMMA GetStep ==
  ASSUME Inv, NEW k \in Key, Get(k)
  PROVE  Inv' /\ \A l \in Key : Lookup(l)' = Lookup(l)
<1> DEFINE i == Found(slots, slot_capacity, hash[k])
<1>1. /\ phase = "idle"
      /\ held' = IF i = Absent THEN Absent
                 ELSE [key |-> k, index |-> i, table |-> slot_capacity]
      /\ UNCHANGED <<slots, slot_capacity, phase, new_slots, next_slot, entry>>
  BY DEF Get
<1>2. i # Absent =>
        i \in 0 .. (slot_capacity - 1) /\ slots[i].alive /\ slots[i].key = k
  BY FoundIsRight
<1> HIDE DEF i
<1>3. held' \in Pointer \cup {Absent}
  BY <1>1, <1>2 DEF Inv, TypeOK, Pointer
<1>4. TypeOK'
  BY <1>1, <1>3 DEF Inv, TypeOK
<1>5. PointerKept'
  BY <1>1, <1>2 DEF Inv, TypeOK, PointerKept
<1>6. /\ Chained' /\ Keyed(slots, slot_capacity)' /\ AllocatesSlot' /\ Resizing'
      /\ \A l \in Key : Lookup(l)' = Lookup(l)
  BY <1>1 DEF Inv, Chained, AllocatesSlot, Resizing, Lookup
<1> QED
  BY <1>4, <1>5, <1>6 DEF Inv

LEMMA RemoveStep ==
  ASSUME Inv, NEW k \in Key, Remove(k)
  PROVE  /\ Inv'
         /\ Lookup(k) # Absent
         /\ \A l \in Key : Lookup(l)' = IF l = k THEN Absent ELSE Lookup(l)
<1> DEFINE i == Found(slots, slot_capacity, hash[k])
<1>1. /\ phase = "idle" /\ Removals /\ i # Absent
      /\ slots' = [slots EXCEPT ![i].alive = FALSE, ![i].tombstone = TRUE]
      /\ UNCHANGED <<slot_capacity, phase, new_slots, next_slot, entry, held>>
  BY DEF Remove
<1>2. i \in 0 .. (slot_capacity - 1) /\ slots[i].alive /\ slots[i].key = k
  BY <1>1, FoundIsRight
<1>3. /\ slot_capacity \in Nat \ {0} /\ slots \in Table(slot_capacity)
      /\ Reachable(slots, slot_capacity) /\ Keyed(slots, slot_capacity)
  BY DEF Inv, TypeOK, Chained
<1> HIDE DEF i
<1>4. slots' \in Table(slot_capacity) /\ Reachable(slots', slot_capacity)
  <2>1. LET u == [slots EXCEPT ![i].alive = FALSE, ![i].tombstone = TRUE]
        IN u \in Table(slot_capacity) /\ Reachable(u, slot_capacity)
    BY <1>1, <1>2, <1>3, RemoveKeepsReachable
  <2> QED
    BY <1>1, <2>1
<1>5. /\ slots'[i].alive = FALSE
      /\ \A j \in 0 .. (slot_capacity - 1) : j # i => slots'[j] = slots[j]
  BY <1>1, <1>2, <1>3 DEF Table, Slot
<1>6. Keyed(slots', slot_capacity)
  BY <1>3, <1>5 DEF Keyed
<1>7. \A j \in 0 .. (slot_capacity - 1) : slots[j].alive /\ slots[j].key = k => j = i
  <2> SUFFICES ASSUME NEW j \in 0 .. (slot_capacity - 1),
                      slots[j].alive, slots[j].key = k
               PROVE  j = i
    OBVIOUS
  <2>1. slots[j].hashcode = slots[i].hashcode
    BY <1>2, <1>3 DEF Keyed
  <2> QED
    BY <1>2, <1>3, <2>1, OneSlotEach
<1>8. Lookup(k) # Absent
  <2>1. Lookup(k) = slots[i].value /\ slots[i].value \in Value
    BY <1>2, <1>3, LookupThere DEF Lookup, Keyed
  <2> QED
    BY <2>1, AbsentAssumption
<1>9. LookupIn(slots', slot_capacity, k) = Absent
  <2>1. \A j \in 0 .. (slot_capacity - 1) : ~(slots'[j].alive /\ slots'[j].key = k)
    BY <1>5, <1>7
  <2> QED
    BY <1>3, <1>4, <1>6, <2>1, LookupAbsent
<1>10. ASSUME NEW l \in Key, l # k
       PROVE  LookupIn(slots', slot_capacity, l) = LookupIn(slots, slot_capacity, l)
  <2>1. CASE \E j \in 0 .. (slot_capacity - 1) : slots[j].alive /\ slots[j].key = l
    <3>1. PICK j \in 0 .. (slot_capacity - 1) : slots[j].alive /\ slots[j].key = l
      BY <2>1
    <3>2. slots'[j] = slots[j]
      BY <1>2, <1>5, <1>10, <3>1
    <3>3. LookupIn(slots', slot_capacity, l) = slots[j].value
      BY <1>3, <1>4, <1>6, <3>1, <3>2, LookupThere
    <3>4. LookupIn(slots, slot_capacity, l) = slots[j].value
      BY <1>3, <3>1, LookupThere
    <3> QED
      BY <3>3, <3>4
  <2>2. CASE \A j \in 0 .. (slot_capacity - 1) : ~(slots[j].alive /\ slots[j].key = l)
    <3>1. \A j \in 0 .. (slot_capacity - 1) : ~(slots'[j].alive /\ slots'[j].key = l)
      BY <1>5, <2>2
    <3>2. LookupIn(slots', slot_capacity, l) = Absent
      BY <1>3, <1>4, <1>6, <3>1, LookupAbsent
    <3>3. LookupIn(slots, slot_capacity, l) = Absent
      BY <1>3, <2>2, LookupAbsent
    <3> QED
      BY <3>2, <3>3
  <2> QED
    BY <2>1, <2>2
<1>11. \A l \in Key : Lookup(l)' = IF l = k THEN Absent ELSE Lookup(l)
  <2>1. slot_capacity' = slot_capacity
    BY <1>1
  <2> QED
    BY <2>1, <1>9, <1>10 DEF Lookup
<1>12. TypeOK' /\ Chained' /\ Keyed(slots, slot_capacity)' /\ AllocatesSlot'
  BY <1>1, <1>4, <1>6 DEF Inv, TypeOK, Chained, AllocatesSlot
<1>13. Resizing' /\ PointerKept'
  BY <1>1 DEF Inv, Resizing, PointerKept
<1> QED
  BY <1>8, <1>11, <1>12, <1>13 DEF Inv

-------------------------------------------------------------------------------
LEMMA NextStep ==
  ASSUME Inv, [Next]_vars
  PROVE  /\ Inv'
         /\ \/ \A l \in Key : Lookup(l)' = Lookup(l)
            \/ \E k \in Key, v \in Value : \A l \in Key :
                 Lookup(l)' = IF l = k THEN v ELSE Lookup(l)
            \/ \E k \in Key :
                 /\ Lookup(k) # Absent
                 /\ \A l \in Key :
                      Lookup(l)' = IF l = k THEN Absent ELSE Lookup(l)
<1>1. ASSUME NEW k \in Key, NEW v \in Value, Insert(k, v)
      PROVE  /\ Inv'
             /\ \A l \in Key : Lookup(l)' = IF l = k THEN v ELSE Lookup(l)
  BY <1>1, InsertStep
<1>2. ASSUME NEW k \in Key, NEW v \in Value, InsertIntoFull(k, v)
      PROVE  Inv' /\ \A l \in Key : Lookup(l)' = Lookup(l)
  BY <1>2, InsertIntoFullStep
<1>3. ASSUME NEW k \in Key, Get(k)
      PROVE  Inv' /\ \A l \in Key : Lookup(l)' = Lookup(l)
  BY <1>3, GetStep
<1>4. ASSUME NEW k \in Key, Remove(k)
      PROVE  /\ Inv' /\ Lookup(k) # Absent
             /\ \A l \in Key :
                  Lookup(l)' = IF l = k THEN Absent ELSE Lookup(l)
  BY <1>4, RemoveStep
<1>5. ASSUME MoveSlot
      PROVE  Inv' /\ \A l \in Key : Lookup(l)' = Lookup(l)
  BY <1>5, MoveSlotStep
<1>6. ASSUME FinishResize
      PROVE  /\ Inv'
             /\ \E k \in Key, v \in Value : \A l \in Key :
                  Lookup(l)' = IF l = k THEN v ELSE Lookup(l)
  <2>1. entry.key \in Key /\ entry.value \in Value
    BY <1>6, FinishResizeStep DEF Entry
  <2> QED
    BY <1>6, <2>1, FinishResizeStep
<1>7. ASSUME UNCHANGED vars
      PROVE  Inv' /\ \A l \in Key : Lookup(l)' = Lookup(l)
  BY <1>7 DEF vars, Inv, TypeOK, Chained, AllocatesSlot, Resizing, Moved,
              PointerKept, Lookup
<1>8. CASE \E k \in Key, v \in Value : Insert(k, v) \/ InsertIntoFull(k, v)
  BY <1>1, <1>2, <1>8
<1>9. CASE \E k \in Key : Get(k) \/ Remove(k)
  BY <1>3, <1>4, <1>9
<1> QED
  BY <1>5, <1>6, <1>7, <1>8, <1>9 DEF Next

THEOREM Invariance == Spec => []Inv
<1>1. Init => Inv
  BY InitEstablishesInv
<1>2. Inv /\ [Next]_vars => Inv'
  BY NextStep
<1> QED
  BY <1>1, <1>2, PTL DEF Spec

(* The table and the state of resize always have their types.                *)
THEOREM TypeCorrect == Spec => []TypeOK
<1>1. Inv => TypeOK
  BY DEF Inv
<1> QED
  BY <1>1, Invariance, PTL

(* Every entry can be found, whatever collisions, tombstones and resizes     *)
(* there were: the condition that the early stop of getSlot relies on.       *)
THEOREM EntriesReachable == Spec => []Chained
<1>1. Inv => Chained
  BY DEF Inv
<1> QED
  BY <1>1, Invariance, PTL

(* The assertion of insert, "Failed to allocate slot.", never fails.         *)
THEOREM SlotAllocated == Spec => []AllocatesSlot
<1>1. Inv => AllocatesSlot
  BY DEF Inv
<1> QED
  BY <1>1, Invariance, PTL

(* A pointer that get returned stays good until the table is freed, however  *)
(* much is inserted in the meantime.                                         *)
THEOREM PointersStayGood == Spec => []HeldPointerGood
<1>1. Inv => HeldPointerGood
  BY DEF Inv, PointerKept, HeldPointerGood
<1> QED
  BY <1>1, Invariance, PTL

(* Pointers dangle only after an insertion of a new key into a full table.   *)
THEOREM FreesOnlyFull == Spec => FreedOnlyWhenFull
<1> DEFINE Freed ==
      slot_capacity' # slot_capacity =>
        /\ \A i \in 0 .. (slot_capacity - 1) : slots[i].alive
        /\ Lookup(entry.key) = Absent
<1>1. Inv /\ [Next]_vars => [Freed]_vars
  <2> SUFFICES ASSUME Inv, Next, slot_capacity' # slot_capacity
               PROVE  /\ \A i \in 0 .. (slot_capacity - 1) : slots[i].alive
                      /\ Lookup(entry.key) = Absent
    OBVIOUS
  <2>1. phase = "resize"
    BY DEF Next, Insert, InsertIntoFull, Get, Remove, MoveSlot, FinishResize
  <2>2. /\ \A i \in 0 .. (slot_capacity - 1) : slots[i].alive
        /\ ~HasHash(slots, slot_capacity, hash[entry.key])
    BY <2>1 DEF Inv, Resizing
  <2>3. /\ slot_capacity \in Nat \ {0} /\ slots \in Table(slot_capacity)
        /\ hash[entry.key] \in Nat
    BY <2>1, HashAssumption DEF Inv, TypeOK, Entry
  <2>4. Found(slots, slot_capacity, hash[entry.key]) = Absent
    BY <2>2, <2>3, NotFoundIfAbsent
  <2> QED
    BY <2>2, <2>4 DEF Lookup, LookupIn
<1> QED
  BY <1>1, Invariance, PTL DEF Spec, FreedOnlyWhenFull

(* The table implements a dictionary: the initial one is empty, an insertion *)
(* changes the answer for its key only, and the steps of resize change none. *)
THEOREM RefinesDictionary == Spec => ImplementsDictionary
<1> DEFINE d == [k \in Key |-> Lookup(k)]
<1>1. Init => D!Empty
  <2> SUFFICES ASSUME Init PROVE D!Empty
    OBVIOUS
  <2>1. \A k \in Key : Lookup(k) = Absent
    BY InitEstablishesInv
  <2> QED
    BY <2>1 DEF D!Empty
<1>2. Inv /\ [Next]_vars => [D!Put \/ D!Delete]_d
  <2> SUFFICES ASSUME Inv, [Next]_vars PROVE D!Put \/ D!Delete \/ UNCHANGED d
    OBVIOUS
  <2>1. CASE \A l \in Key : Lookup(l)' = Lookup(l)
    BY <2>1
  <2>2. CASE \E k \in Key, v \in Value : \A l \in Key :
               Lookup(l)' = IF l = k THEN v ELSE Lookup(l)
    <3>1. PICK k \in Key, v \in Value : \A l \in Key :
                 Lookup(l)' = IF l = k THEN v ELSE Lookup(l)
      BY <2>2
    <3>2. d' = [d EXCEPT ![k] = v]
      BY <3>1
    <3> QED
      BY <3>2 DEF D!Put
  <2>3. CASE \E k \in Key :
               /\ Lookup(k) # Absent
               /\ \A l \in Key : Lookup(l)' = IF l = k THEN Absent ELSE Lookup(l)
    <3>1. PICK k \in Key :
                 /\ Lookup(k) # Absent
                 /\ \A l \in Key : Lookup(l)' = IF l = k THEN Absent ELSE Lookup(l)
      BY <2>3
    <3>2. d[k] # Absent /\ d' = [d EXCEPT ![k] = Absent]
      BY <3>1
    <3> QED
      BY <3>2 DEF D!Delete
  <2> QED
    BY <2>1, <2>2, <2>3, NextStep
<1> QED
  BY <1>1, <1>2, Invariance, PTL DEF Spec, ImplementsDictionary, D!Behave

===============================================================================
