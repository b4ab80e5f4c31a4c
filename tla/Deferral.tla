------------------------------- MODULE Deferral -------------------------------
(*****************************************************************************)
(* What statements mean: the effects of a function, given the outcomes of    *)
(* its conditions.  A scope runs its deferred statements, the last one       *)
(* first, whenever it is left; a return evaluates its value after that, see  *)
(* tests/defer.stra.                                                         *)
(*****************************************************************************)
EXTENDS Naturals, Sequences

(* An effect of the program, or a condition and the way that was taken.      *)
Event(name, way) == [name |-> name, way |-> way]

(* A run so far: its events, the outcomes left, and how the last statement   *)
(* ended.                                                                    *)
Start(outcomes) ==
  [trace |-> <<>>, outcomes |-> outcomes, end |-> "next", value |-> "void"]
Says(r, name) == [r EXCEPT !.trace = Append(@, Event(name, 0))]
Way(r) == IF r.outcomes = <<>> THEN 0 ELSE Head(r.outcomes)
Decides(r, name) ==
  [r EXCEPT !.trace = Append(@, Event(name, Way(r))),
            !.outcomes = IF @ = <<>> THEN @ ELSE Tail(@)]

RECURSIVE Scope(_, _, _), Unwind(_, _), Loop(_, _), Meaning(_, _)

(* The statements of a scope, with what it has deferred.                     *)
Scope(list, deferred, r) ==
  IF list = <<>> \/ r.end # "next" THEN Unwind(deferred, r)
  ELSE IF Head(list).kind = "defer"
    THEN Scope(Tail(list), Head(list).parts[1] \o deferred, r)
    ELSE Scope(Tail(list), deferred, Meaning(Head(list), r))

Unwind(deferred, r) ==
  IF deferred = <<>> THEN r
  ELSE Unwind(Tail(deferred),
              [Meaning(Head(deferred), [r EXCEPT !.end = "next"])
                 EXCEPT !.end = r.end])

Loop(s, r) ==
  LET decided == Decides(r, s.name)
      body == Scope(s.parts[1], <<>>, decided)
      again == [body EXCEPT !.end = "next"]
  IN IF Way(r) # 1 THEN decided
     ELSE IF body.end = "return" THEN body
     ELSE IF body.end = "break" THEN again
     ELSE Loop(s, IF s.kind = "in" THEN Says(again, "next") ELSE again)

Meaning(s, r) ==
  CASE s.kind = "do" -> Says(r, s.name)
    [] s.kind = "return" -> [r EXCEPT !.end = "return", !.value = s.name]
    [] s.kind \in {"break", "continue"} -> [r EXCEPT !.end = s.kind]
    [] s.kind = "block" -> Scope(s.parts[1], <<>>, r)
    [] s.kind \in {"if", "switch"} ->
         LET decided == Decides(r, s.name)
         IN IF Way(r) \in DOMAIN s.parts
              THEN Scope(s.parts[Way(r)], <<>>, decided) ELSE decided
    [] s.kind = "for" -> Loop(s, r)
    [] s.kind = "in" -> Loop(s, Says(r, "from"))
    [] s.kind \in {"function", "defer"} -> r

FunctionMeaning(body, outcomes) ==
  LET r == Scope(body, <<>>, Start(outcomes)) IN Says(r, r.value).trace

===============================================================================
