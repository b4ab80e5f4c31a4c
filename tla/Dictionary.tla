------------------------------ MODULE Dictionary ------------------------------
(*****************************************************************************)
(* What a HashMap promises to the passes of the compiler: the value last     *)
(* inserted for a key, and for the other keys what they had.                 *)
(*****************************************************************************)
CONSTANTS Key, Value, Absent

VARIABLE dictionary

Empty == dictionary = [k \in Key |-> Absent]

Put == \E k \in Key, v \in Value :
         dictionary' = [dictionary EXCEPT ![k] = v]
Delete == \E k \in Key :
            /\ dictionary[k] # Absent
            /\ dictionary' = [dictionary EXCEPT ![k] = Absent]

Behave == Empty /\ [][Put \/ Delete]_dictionary

===============================================================================
