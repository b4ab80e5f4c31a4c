------------------------------- MODULE Evaluation -------------------------------
(*****************************************************************************)
(* What the value of a program is by the meaning of its instructions, the    *)
(* way the compiled program would compute it: each call has variables of its *)
(* own, a declaration makes a new one, a return ends the call.               *)
(*                                                                           *)
(* One call is [vals, args, taken, declared]; store, known (the globals that *)
(* have their value), pending, deepest and odd are shared by all of them.    *)
(*****************************************************************************)
EXTENDS Comptime, FiniteSetsExt

Continues == [kind |-> "continues", n |-> 0]
Error == [kind |-> "error", n |-> 0]
Undefined == [kind |-> "undefined", n |-> 0]

Start ==
  [vals |-> <<>>, args |-> <<>>, taken |-> 0, declared |-> {}, store |-> <<>>,
   known |-> <<>>, pending |-> {1}, frames |-> 2, deepest |-> 2, odd |-> {},
   out |-> Continues]

Set(f, x, value) == [y \in DOMAIN f \cup {x} |-> IF y = x THEN value ELSE f[y]]
Of(s, id) == IF id \in DOMAIN s.vals THEN s.vals[id] ELSE [kind |-> "global", n |-> id[2]]

(* A call in s came to its end as t: its variables are gone.                 *)
After(s, t) ==
  [s EXCEPT !.store = [c \in DOMAIN t.store |-> IF c <= Len(s.store) THEN t.store[c] ELSE Freed],
            !.known = t.known, !.deepest = t.deepest, !.odd = t.odd,
            !.out = IF t.out \in {Error, Undefined} THEN t.out ELSE Continues]
Deeper(s, n) ==
  [s EXCEPT !.frames = @ + n, !.deepest = Max({@, s.frames + n}), !.declared = {}]

RECURSIVE Run(_, _, _, _), Know(_, _, _)

(* s once the globals among the operands are known.                          *)
Know(p, s, args) ==
  IF args = <<>> \/ s.out # Continues THEN s
  ELSE LET g == Head(args)[2]
           t == Run(p, [Deeper(s, 2) EXCEPT !.vals = <<>>, !.pending = @ \cup {g}],
                    p.globals[g], 1)
       IN Know(p,
            IF Head(args)[1] # 0 \/ g \in DOMAIN s.known THEN s
            ELSE IF g \in s.pending THEN [s EXCEPT !.out = Error]
            ELSE [After(s, t) EXCEPT !.known = Set(@, g, t.out)],
            Tail(args))

(* The call that s is in, from instruction i of block b on.                  *)
Run(p, s0, b, i) ==
  LET inst == p.blocks[b][i]
      s == Know(p, s0, inst.args)
      x == Of(s, inst.args[1])
      y == Of(s, inst.args[2])
      next(t) == Run(p, t, b, i + 1)
      yields(t, value) == next([t EXCEPT !.vals = Set(@, <<b, i>>, value)])
      stop(value) == [s EXCEPT !.out = value]
      points(value) == [s EXCEPT !.store = Append(@, value)]
      cell == [kind |-> "ptr", n |-> Len(s.store) + 1]
      returned(t) ==
        IF t.out \in {Error, Undefined} THEN After(s, t) ELSE yields(After(s, t), t.out)
  IN CASE s.out # Continues -> s
       [] inst.op = "literal" -> yields(s, inst.value)
       [] inst.op = "local" ->
            yields([points(IF Len(inst.args) = 2 THEN y ELSE Number(0)) EXCEPT
                      !.odd = @ \cup (IF <<b, i>> \in s.declared THEN {"declared again"} ELSE {}),
                      !.declared = @ \cup {<<b, i>>}],
                   cell)
       [] inst.op = "arg" ->
            IF s.taken = Len(s.args)
            THEN [stop(Error) EXCEPT !.odd = @ \cup {"argument missing"}]
            ELSE yields([points(s.args[s.taken + 1]) EXCEPT !.taken = @ + 1], cell)
       [] inst.op = "load" ->
            IF x.kind \notin Pointers THEN stop(Error)
            ELSE IF x.kind = "global" THEN yields(s, s.known[x.n])
            ELSE IF s.store[x.n] = Freed THEN stop(Undefined) ELSE yields(s, s.store[x.n])
       [] inst.op = "store" ->
            IF x.kind \notin Pointers
            THEN [stop(Error) EXCEPT !.odd = @ \cup {"store to no pointer"}]
            ELSE IF x.kind = "global" THEN stop(Error)
            ELSE IF s.store[x.n] = Freed THEN stop(Undefined)
            ELSE next([s EXCEPT !.store[x.n] = y])
       [] inst.op \in Binary ->
            IF Operates(inst.op, x, y) THEN yields(s, Computed(inst.op, x, y)) ELSE stop(Error)
       [] inst.op = "rettype" -> next(s)
       [] inst.op = "typeof" -> yields(s, Type)
       [] inst.op = "return" ->
            [stop(IF inst.args = <<>> THEN Void ELSE x) EXCEPT
               !.odd = @ \cup (IF i < Len(p.blocks[b]) THEN {"code after return"} ELSE {})]
       [] inst.op = "br" -> Run(p, s, inst.to[1], 1)
       [] inst.op = "condbr" ->
            IF x.kind # "bool" THEN stop(Error) ELSE Run(p, s, inst.to[IF x.n = 1 THEN 1 ELSE 2], 1)
       [] inst.op = "call" ->
            returned(Run(p, [Deeper(s, 1) EXCEPT !.vals = <<>>, !.taken = 0,
                               !.args = [k \in DOMAIN inst.args |-> Of(s, inst.args[k])]],
                         inst.to[1], 1))
       [] inst.op = "comptime" ->
            returned(Run(p, Deeper(s, 1), inst.to[1], 1))

Meaning(p) == Run(p, Start, p.globals[1], 1)

(* Programs that the interpreter is to evaluate like the compiled program:   *)
(* no local is declared twice in a call, there is no code after a return, no *)
(* argument is missing, and nothing is stored through what is no pointer.    *)
Regular(p) == Meaning(p).odd = {}

===============================================================================
