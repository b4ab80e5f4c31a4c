---------------------------- MODULE NumbersAndLists ---------------------------
(*****************************************************************************)
(* What the proofs of several components need of natural numbers, which are  *)
(* well ordered, and of lists: sequences of whatever they hold.              *)
(*****************************************************************************)
EXTENDS Sequences, FiniteSetTheorems, TLAPS

(* A set of naturals has a least element; natural numbers are compared as    *)
(* the sets of those below them, which are finite.                           *)
LEMMA LeastElement ==
  ASSUME NEW S, S \subseteq Nat, S # {}
  PROVE  \E x \in S : \A y \in S : x <= y
<1> DEFINE Below(x) == {y \in Nat : y < x}
           B == {Below(x) : x \in S}
<1>1. \A x \in Nat : IsFiniteSet(Below(x))
  <2> TAKE x \in Nat
  <2>1. \A s \in Below(x) : s <= x
    OBVIOUS
  <2> QED
    BY <2>1, FS_BoundedSetOfNaturals, Below(x) \in SUBSET Nat
<1>2. B \subseteq FiniteSubsetsOf(Nat)
  BY <1>1 DEF FiniteSubsetsOf
<1>3. B # {}
  OBVIOUS
<1>4. PICK b \in B : \A c \in B : ~(<<c, b>> \in StrictSubsetOrdering(Nat))
  BY <1>2, <1>3, FS_StrictSubsetOrderingWellFounded, WFMin
<1>5. PICK x \in S : b = Below(x)
  BY <1>4
<1>6. ASSUME NEW y \in S, y < x PROVE FALSE
  <2>1. /\ Below(y) \in B /\ Below(y) \subseteq Below(x)
        /\ y \in Below(x) /\ y \notin Below(y)
    BY <1>6
  <2>2. <<Below(y), Below(x)>> \in StrictSubsetOrdering(Nat)
    BY <2>1 DEF StrictSubsetOrdering
  <2> QED
    BY <2>1, <2>2, <1>4, <1>5
<1> QED
  BY <1>6

LEMMA GreatestElement ==
  ASSUME NEW n \in Nat, NEW S, S \subseteq 0 .. n, S # {}
  PROVE  \E x \in S : \A y \in S : y <= x
<1> DEFINE T == {m \in 0 .. n : n - m \in S}
<1>1. T \subseteq Nat
  OBVIOUS
<1>2. T # {}
  <2>1. PICK x : x \in S
    OBVIOUS
  <2>2. x \in 0 .. n
    BY <2>1
  <2>3. n - x \in 0 .. n /\ n - (n - x) = x
    BY <2>2
  <2> QED
    BY <2>1, <2>3
<1>3. PICK m \in T : \A k \in T : m <= k
  BY <1>1, <1>2, LeastElement
<1>4. n - m \in S
  BY <1>3
<1>5. ASSUME NEW y \in S PROVE y <= n - m
  <2>1. y \in 0 .. n /\ n - y \in 0 .. n /\ n - (n - y) = y
    OBVIOUS
  <2>2. m <= n - y
    BY <2>1, <1>3
  <2> QED
    BY <2>1, <2>2, <1>3
<1> QED
  BY <1>4, <1>5
-------------------------------------------------------------------------------
(* A list: a sequence, of whatever it holds.                                 *)
Listed(s) == s \in Seq({s[i] : i \in DOMAIN s})

LEMMA SeqIsListed ==
  ASSUME NEW S, NEW s \in Seq(S)
  PROVE  Listed(s)
<1>1. s = [i \in 1 .. Len(s) |-> s[i]] /\ Len(s) \in Nat /\ DOMAIN s = 1 .. Len(s)
  OBVIOUS
<1>2. s \in [1 .. Len(s) -> {s[i] : i \in DOMAIN s}]
  BY <1>1
<1> QED
  BY <1>1, <1>2 DEF Listed

LEMMA FunctionIsListed ==
  ASSUME NEW s, NEW n \in Nat, s = [i \in 1 .. n |-> s[i]]
  PROVE  Listed(s) /\ Len(s) = n
<1>1. s \in [1 .. n -> {s[i] : i \in 1 .. n}]
  OBVIOUS
<1>2. s \in Seq({s[i] : i \in 1 .. n}) /\ Len(s) = n
  BY <1>1
<1> QED
  BY <1>2, SeqIsListed

LEMMA ListedIsSeq ==
  ASSUME NEW s, Listed(s)
  PROVE  /\ Len(s) \in Nat /\ DOMAIN s = 1 .. Len(s)
         /\ s = [i \in 1 .. Len(s) |-> s[i]]
         /\ s \in Seq({s[i] : i \in 1 .. Len(s)})
<1>1. s \in Seq({s[i] : i \in DOMAIN s})
  BY DEF Listed
<1>2. Len(s) \in Nat /\ DOMAIN s = 1 .. Len(s)
  BY <1>1
<1> QED
  BY <1>1, <1>2

LEMMA EmptyListed == Listed(<<>>) /\ Len(<<>>) = 0 /\ DOMAIN <<>> = {}
<1>1. <<>> \in Seq({})
  OBVIOUS
<1>2. Listed(<<>>)
  BY <1>1, SeqIsListed
<1> QED
  BY <1>1, <1>2

(* Append and EXCEPT, and what is in their results.                          *)
LEMMA AppendListed ==
  ASSUME NEW s, Listed(s), NEW x
  PROVE  /\ Listed(Append(s, x)) /\ Len(Append(s, x)) = Len(s) + 1
         /\ DOMAIN Append(s, x) = 1 .. Len(s) + 1
         /\ Append(s, x)[Len(s) + 1] = x
         /\ \A i \in 1 .. Len(s) : Append(s, x)[i] = s[i]
<1> DEFINE S == {s[i] : i \in 1 .. Len(s)} \cup {x}
<1>1. s \in Seq({s[i] : i \in 1 .. Len(s)}) /\ Len(s) \in Nat
  BY ListedIsSeq
<1>2. s \in Seq(S) /\ x \in S
  BY <1>1
<1> HIDE DEF S
<1>3. /\ Append(s, x) \in Seq(S) /\ Len(Append(s, x)) = Len(s) + 1
      /\ Append(s, x)[Len(s) + 1] = x
      /\ \A i \in 1 .. Len(s) : Append(s, x)[i] = s[i]
  BY <1>1, <1>2
<1>4. Listed(Append(s, x))
  BY <1>3, SeqIsListed
<1>5. DOMAIN Append(s, x) = 1 .. Len(s) + 1
  BY <1>3, <1>4, ListedIsSeq
<1> QED
  BY <1>3, <1>4, <1>5

LEMMA ExceptListed ==
  ASSUME NEW s, Listed(s), NEW i \in 1 .. Len(s), NEW x
  PROVE  /\ Listed([s EXCEPT ![i] = x]) /\ Len([s EXCEPT ![i] = x]) = Len(s)
         /\ DOMAIN [s EXCEPT ![i] = x] = 1 .. Len(s)
         /\ [s EXCEPT ![i] = x][i] = x
         /\ \A j \in 1 .. Len(s) : j # i => [s EXCEPT ![i] = x][j] = s[j]
<1> DEFINE t == [s EXCEPT ![i] = x]
<1>1. Len(s) \in Nat /\ DOMAIN s = 1 .. Len(s)
  BY ListedIsSeq
<1>2. /\ t = [j \in 1 .. Len(s) |-> t[j]] /\ t[i] = x
      /\ \A j \in 1 .. Len(s) : j # i => t[j] = s[j]
  BY <1>1
<1> HIDE DEF t
<1>3. Listed(t) /\ Len(t) = Len(s) /\ DOMAIN t = 1 .. Len(s)
  BY <1>1, <1>2, FunctionIsListed
<1>4. t = [s EXCEPT ![i] = x]
  BY DEF t
<1> QED
  BY <1>2, <1>3, <1>4
===============================================================================
