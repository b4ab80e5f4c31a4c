-------------------------------- MODULE HashMap --------------------------------
(*****************************************************************************)
(* common/containers.hpp, HashMap: open addressing with linear probing,      *)
(* tombstones, and a resize when, and only when, no slot is free.            *)
(*                                                                           *)
(* A call is one step, except for an insertion into a full table: its resize *)
(* is one step for each slot that it moves.  The caller may keep the pointer *)
(* that its last get returned; every pass of the compiler does.              *)
(*****************************************************************************)
EXTENDS Naturals

CONSTANTS
  Key, Value,
  hash,            \* the hashcodes of the keys
  InitialCapacity, \* the slot_capacity given to init
  Removals,        \* whether the callers use remove, see MayInsert
  Absent           \* stands for uninitialised memory and for a null pointer

ASSUME HashAssumption ==
  \* The compiler relies on hashcodes alone: keys are never compared.
  /\ hash \in [Key -> Nat]
  /\ \A k, l \in Key : hash[k] = hash[l] => k = l
ASSUME CapacityAssumption == InitialCapacity \in Nat \ {0}
ASSUME RemovalsAssumption == Removals \in BOOLEAN

VARIABLES
  slots, slot_capacity,  \* the table
  phase,                 \* "idle", "resize", or "failed" (the assertion)
  new_slots, next_slot,  \* the loop of resize
  entry,                 \* the insertion that waits for the resize
  held                   \* the pointer that the caller holds

vars == <<slots, slot_capacity, phase, new_slots, next_slot, entry, held>>

Slot == [tombstone : BOOLEAN, alive : BOOLEAN, hashcode : Nat,
         key : Key \cup {Absent}, value : Value \cup {Absent}]
Table(capacity) == [0 .. (capacity - 1) -> Slot]
Entry == [key : Key, value : Value]
(* A pointer to the value of a slot of the table allocated with `table`      *)
(* slots: each table is twice as large as the one before.                    *)
Pointer == [key : Key, index : Nat, table : Nat]

ASSUME AbsentAssumption == Absent \notin Key \cup Value \cup Nat \cup Pointer

TypeOK ==
  /\ slot_capacity \in Nat \ {0}
  /\ slots \in Table(slot_capacity)
  /\ phase \in {"idle", "resize", "failed"}
  /\ phase = "resize" => new_slots \in Table(2 * slot_capacity)
  /\ next_slot \in 0 .. slot_capacity
  /\ phase = "resize" => entry \in Entry
  /\ held \in Pointer \cup {Absent}

-------------------------------------------------------------------------------
(* The slots that a probe for hashcode h visits in a table t of c slots, and *)
(* how many it leaves behind before it stops; why is the flag get of         *)
(* getSlot, "get" or "insert".                                               *)
Probe(h, n, c) == ((h % c) + n) % c

Least(S) == CHOOSE n \in S : \A m \in S : n <= m

StopsAtTombstone(t, c, h, why) ==  \* mutant: get does not go past a tombstone
  {n \in 0 .. (c - 1) :
     LET slot == t[Probe(h, n, c)] IN ~slot.alive \/ slot.hashcode = h}
Stops(t, c, h, why) ==
  {n \in 0 .. (c - 1) :
     LET slot == t[Probe(h, n, c)]
     IN \/ ~slot.alive /\ (why = "insert" \/ ~slot.tombstone)
        \/ slot.hashcode = h}

(* getSlot: where the probe stops; back at the start if it never does.       *)
ProbedSlot(t, c, h, why) ==
  LET stops == Stops(t, c, h, why)
  IN IF stops # {} THEN Probe(h, Least(stops), c) ELSE h % c

(* getSlot for get and remove: the index of the slot, or no slot.            *)
Found(t, c, h) ==
  LET i == ProbedSlot(t, c, h, "get")
  IN IF t[i].alive /\ t[i].hashcode = h THEN i ELSE Absent

(* getSlot for insert: one that is free, or that has the hashcode already.   *)
TakenAsFound(t, c, h) ==  \* mutant: only a slot that has the hashcode
  Found(t, c, h)
TakenAtHome(t, c, h) ==  \* mutant: a collision is not noticed
  h % c
Taken(t, c, h) ==
  LET i == ProbedSlot(t, c, h, "insert")
  IN IF ~t[i].alive \/ t[i].hashcode = h THEN i ELSE Absent

(* What get(k) answers.                                                      *)
LookupIn(t, c, k) ==
  LET i == Found(t, c, hash[k]) IN IF i = Absent THEN Absent ELSE t[i].value
Lookup(k) == LookupIn(slots, slot_capacity, k)

(* resize: the slot of the new table that an old slot moves to.              *)
MoveTo(t, c, h) ==
  Probe(h, Least({n \in 0 .. (c - 1) : ~t[Probe(h, n, c)].alive}), c)

EmptySlot ==
  [tombstone |-> FALSE, alive |-> FALSE, hashcode |-> 0,
   key |-> Absent, value |-> Absent]
EmptyTable(c) == [i \in 0 .. (c - 1) |-> EmptySlot]
Fill(k, v) ==
  [tombstone |-> FALSE, alive |-> TRUE, hashcode |-> hash[k],
   key |-> k, value |-> v]

-------------------------------------------------------------------------------
Init ==
  /\ slot_capacity = InitialCapacity
  /\ slots = EmptyTable(InitialCapacity)
  /\ phase = "idle"
  /\ new_slots = <<>>
  /\ next_slot = 0
  /\ entry = Absent
  /\ held = Absent

(* A caller that removes keys inserts only keys that are absent; no caller   *)
(* in the compiler removes any.                                              *)
MayInsert(k) == Removals => Lookup(k) = Absent

Insert(k, v) ==
  /\ phase = "idle" /\ MayInsert(k)
  /\ LET i == Taken(slots, slot_capacity, hash[k])
     IN /\ i # Absent
        /\ slots' = [slots EXCEPT ![i] = Fill(k, v)]
  /\ UNCHANGED <<slot_capacity, phase, new_slots, next_slot, entry, held>>

InsertIntoFull(k, v) ==
  /\ phase = "idle" /\ MayInsert(k)
  /\ Taken(slots, slot_capacity, hash[k]) = Absent
  /\ phase' = "resize"
  /\ entry' = [key |-> k, value |-> v]
  /\ new_slots' = EmptyTable(2 * slot_capacity)
  /\ next_slot' = 0
  /\ UNCHANGED <<slots, slot_capacity, held>>

(* One turn of the loop of resize; the old slot is taken for alive.          *)
MoveSlotUnhashed ==  \* mutant: a slot keeps its index in the new table
  /\ phase = "resize" /\ next_slot < slot_capacity
  /\ new_slots' = [new_slots EXCEPT ![next_slot] =
                     [slots[next_slot] EXCEPT !.alive = TRUE, !.tombstone = FALSE]]
  /\ next_slot' = next_slot + 1
  /\ UNCHANGED <<slots, slot_capacity, phase, entry, held>>
MoveSlotAgain ==  \* mutant: the loop does not advance
  /\ phase = "resize" /\ next_slot < slot_capacity
  /\ UNCHANGED <<slots, slot_capacity, phase, new_slots, next_slot, entry, held>>
MoveSlot ==
  /\ phase = "resize" /\ next_slot < slot_capacity
  /\ LET old == slots[next_slot]
         i == MoveTo(new_slots, 2 * slot_capacity, old.hashcode)
     IN new_slots' = [new_slots EXCEPT ![i] =
                        [old EXCEPT !.alive = TRUE, !.tombstone = FALSE]]
  /\ next_slot' = next_slot + 1
  /\ UNCHANGED <<slots, slot_capacity, phase, entry, held>>

(* The old table is freed, and the entry goes into the new one: the second   *)
(* getSlot of insert, with its assertion.                                    *)
FinishKeepsCapacity ==  \* mutant: slot_capacity is not updated
  /\ phase = "resize" /\ next_slot = slot_capacity
  /\ LET i == Taken(new_slots, 2 * slot_capacity, hash[entry.key])
     IN slots' = [new_slots EXCEPT ![i] = Fill(entry.key, entry.value)]
  /\ phase' = "idle"
  /\ new_slots' = <<>> /\ next_slot' = 0 /\ entry' = Absent
  /\ UNCHANGED <<held, slot_capacity>>
FinishResize ==
  /\ phase = "resize" /\ next_slot = slot_capacity
  /\ slot_capacity' = 2 * slot_capacity
  /\ LET i == Taken(new_slots, 2 * slot_capacity, hash[entry.key])
     IN IF i = Absent
          THEN phase' = "failed" /\ slots' = new_slots
          ELSE /\ phase' = "idle"
               /\ slots' = [new_slots EXCEPT ![i] = Fill(entry.key, entry.value)]
  /\ new_slots' = <<>> /\ next_slot' = 0 /\ entry' = Absent
  /\ UNCHANGED held

(* get(k), whose caller keeps the pointer it returns.                        *)
Get(k) ==
  /\ phase = "idle"
  /\ LET i == Found(slots, slot_capacity, hash[k])
     IN held' = IF i = Absent THEN Absent
                ELSE [key |-> k, index |-> i, table |-> slot_capacity]
  /\ UNCHANGED <<slots, slot_capacity, phase, new_slots, next_slot, entry>>

Remove(k) ==
  /\ Removals /\ phase = "idle"
  /\ LET i == Found(slots, slot_capacity, hash[k])
     IN /\ i # Absent
        /\ slots' = [slots EXCEPT ![i].alive = FALSE, ![i].tombstone = TRUE]
  /\ UNCHANGED <<slot_capacity, phase, new_slots, next_slot, entry, held>>

Next ==
  \/ \E k \in Key, v \in Value : Insert(k, v) \/ InsertIntoFull(k, v)
  \/ \E k \in Key : Get(k) \/ Remove(k)
  \/ MoveSlot \/ FinishResize

(* The loop of resize is run to its end before insert returns.               *)
Spec == Init /\ [][Next]_vars /\ WF_vars(MoveSlot \/ FinishResize)

-------------------------------------------------------------------------------
(* An entry can be found: every slot that a probe for it visits before its   *)
(* own is in use, or a tombstone, and has another hashcode.                  *)
Reachable(t, c) ==
  \A i \in 0 .. (c - 1), n \in 0 .. (c - 1) :
    t[i].alive /\ Probe(t[i].hashcode, n, c) = i =>
      \A m \in 0 .. (n - 1) :
        LET passed == t[Probe(t[i].hashcode, m, c)]
        IN /\ passed.alive \/ (Removals /\ passed.tombstone)
           /\ passed.hashcode # t[i].hashcode

Chained == Reachable(slots, slot_capacity)

(* The table answers for a key what was last inserted for it: it implements  *)
(* a dictionary, also across collisions, tombstones and resizes.             *)
D == INSTANCE Dictionary WITH dictionary <- [k \in Key |-> Lookup(k)]
ImplementsDictionary == D!Behave

(* assert(slot != nullptr && "Failed to allocate slot."): after a resize     *)
(* there is a slot for the entry.                                            *)
AllocatesSlot == phase # "failed"

(* A pointer into the current table still points to the value of the key it  *)
(* was asked for, whatever was inserted since.                               *)
HeldPointerGood ==
  ~Removals /\ held # Absent /\ held.table = slot_capacity =>
    slots[held.index].alive /\ slots[held.index].key = held.key

(* A table is freed, and the pointers into it dangle, only when it had no    *)
(* free slot and did not have the key: an insertion for a key that is there  *)
(* leaves all pointers good.                                                 *)
FreedOnlyWhenFull ==
  [][slot_capacity' # slot_capacity =>
       /\ \A i \in 0 .. (slot_capacity - 1) : slots[i].alive
       /\ Lookup(entry.key) = Absent]_vars

(* Every insertion comes to its end.                                         *)
InsertReturns == phase = "resize" ~> phase = "idle"

===============================================================================
