------------------------------- MODULE MCHashMap -------------------------------
(* Two small hash maps, of which a behaviour uses one: one with four keys    *)
(* and without removals, as every map of the compiler is used, and one with  *)
(* three keys and removals.  Their hashcodes collide in the first table, in  *)
(* the next, and in none.                                                    *)
EXTENDS HashMap, TLC

CONSTANTS k1, k2, k3, k4, v1, v2

FourKeys == {k1, k2, k3, k4}
ThreeKeys == {k1, k2, k3}
MCValue == {v1, v2}
MCHash == k1 :> 0 @@ k2 :> 2 @@ k3 :> 4 @@ k4 :> 3
Hash3 == [k \in ThreeKeys |-> MCHash[k]]

VARIABLES rslots, rslot_capacity, rphase, rnew_slots, rnext_slot, rentry, rheld
R == INSTANCE HashMap WITH
       Key <- ThreeKeys, hash <- Hash3, Removals <- TRUE,
       slots <- rslots, slot_capacity <- rslot_capacity, phase <- rphase,
       new_slots <- rnew_slots, next_slot <- rnext_slot, entry <- rentry, held <- rheld
rvars == <<rslots, rslot_capacity, rphase, rnew_slots, rnext_slot, rentry, rheld>>
VARIABLE mode  \* which of them is used

MCInit == Init /\ R!Init /\ mode \in {"insert", "remove"}
MCNext ==
  \/ mode = "insert" /\ Next /\ UNCHANGED <<rvars, mode>>
  \/ mode = "remove" /\ R!Next /\ UNCHANGED <<vars, mode>>
MCSpec ==
  /\ MCInit /\ [][MCNext]_<<vars, rvars, mode>>
  /\ WF_vars(mode = "insert" /\ (MoveSlot \/ FinishResize) /\ UNCHANGED <<rvars, mode>>)

-------------------------------------------------------------------------------
(* ImplementsDictionary of HashMap, for the map with removals: also with     *)
(* tombstones in front of, between and behind the entries of a probe chain   *)
(* an entry is found (containers.hpp:264-297).                               *)
RemovalsImplementDictionary == R!ImplementsDictionary

===============================================================================
