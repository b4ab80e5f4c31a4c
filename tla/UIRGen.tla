-------------------------------- MODULE UIRGen --------------------------------
(*****************************************************************************)
(* src/uirgen: the statements of a function body become blocks of            *)
(* instructions, and deferred statements are generated again at every exit   *)
(* of the scope that deferred them.                                          *)
(*                                                                           *)
(* gen is recursive: todo is what its activations have still to do, and      *)
(* saved are their locals old_defer_len and old_defer_boundary.  Expressions *)
(* are single instructions; a condition is part of the branch it decides.    *)
(*****************************************************************************)
EXTENDS Naturals, Sequences

CONSTANTS
  Name,       \* of the effects that expressions have
  Stmt,       \* statements: [kind, name, parts], parts are lists of statements
  Program,    \* functions
  DeferSlots  \* the length of defer_stack; nothing checks it

Kinds == {"do", "return", "break", "continue", "defer", "block", "if", "for",
          "in", "switch", "function"}

Statements == Seq(Stmt)

ASSUME StmtAssumption ==
  \A s \in Stmt :
    /\ s.kind \in Kinds /\ s.name \in Name
    /\ s.parts \in Seq(Statements)
    /\ s.kind \in {"block", "for", "in", "function", "defer"} => Len(s.parts) = 1
    /\ s.kind = "defer" => Len(s.parts[1]) = 1
    /\ s.kind = "if" => Len(s.parts) \in {1, 2}
ASSUME ProgramAssumption == Program \subseteq {s \in Stmt : s.kind = "function"}
ASSUME DeferAssumption == DeferSlots \in Nat \ {0}
(* The names of what gen adds: a value of type void, and the steps of a range. *)
ASSUME NameAssumption == {"void", "from", "next"} \subseteq Name

VARIABLES
  todo, saved,
  defer_stack,  \* the entries written so far; those from defer_stack_len on are stale
  defer_stack_len, defer_local_boundary,
  blocks,     \* all blocks: the function that each belongs to, and its code
  block,      \* the builder's block; 0 is none
  functions   \* the entry block and the body of each function generated

vars == <<todo, saved, defer_stack, defer_stack_len, defer_local_boundary,
          blocks, block, functions>>
deferring == <<saved, defer_stack, defer_stack_len, defer_local_boundary>>

-------------------------------------------------------------------------------
(* Instructions: effects, and the terminators.                               *)
Do(name) == [op |-> "do", name |-> name, targets |-> <<>>]
Br(to) == [op |-> "br", name |-> "void", targets |-> <<to>>]
CondBr(name, then, else) ==
  [op |-> "condbr", name |-> name, targets |-> <<then, else>>]
Switch(name, cases, merge) ==
  [op |-> "switch", name |-> name, targets |-> Append(cases, merge)]
Return(name) == [op |-> "return", name |-> name, targets |-> <<>>]

Terminators == {"br", "condbr", "switch", "return"}
Instruction ==
  {x \in [op : {"do"} \cup Terminators, name : Name, targets : Seq(Nat)] :
     x.op = "br" => Len(x.targets) = 1}

(* What an activation of gen has still to do.                                *)
Gen(stmt) == [op |-> "gen", stmt |-> stmt]
Enter(to) == [op |-> "enter", to |-> to]
Leave(to, always) == [op |-> "leave", to |-> to, always |-> always]
Inject(i, min) == [op |-> "inject", i |-> i, min |-> min]
Emit(instruction) == [op |-> "emit", instruction |-> instruction]
Reset == [op |-> "reset"]
MoveTo(to) == [op |-> "move", to |-> to]
Case(stmt, cases, parent, merge) ==
  [op |-> "case", stmt |-> stmt, cases |-> cases, parent |-> parent, merge |-> merge]
EndFunction(prev) == [op |-> "endfunction", prev |-> prev]
LeaveFunction(prev) == [op |-> "leavefunction", prev |-> prev]

Body(list) == [i \in DOMAIN list |-> Gen(list[i])]

Item ==
  [op : {"gen"}, stmt : Stmt] \cup [op : {"enter", "move"}, to : Nat]
  \cup [op : {"leave"}, to : Nat, always : BOOLEAN]
  \cup [op : {"inject"}, i : Nat, min : Nat]
  \cup [op : {"emit"}, instruction : Instruction] \cup [op : {"reset"}]
  \cup [op : {"case"}, stmt : Stmt, cases : Seq(Nat), parent : Nat,
        merge : Nat]
  \cup [op : {"endfunction", "leavefunction"}, prev : Nat]

(* A function that was generated: its entry block and its body.              *)
GeneratedFunction == [entry : Nat, body : Statements]

(* The builder: append blocks to the function, and code to the block.        *)
Fresh(function) == [owner |-> function, code |-> <<>>]
WithBlocksOfNone(n) ==  \* mutant: the parent is not set
  blocks \o [i \in 1 .. n |-> Fresh(0)]
WithBlocks(n) == blocks \o [i \in 1 .. n |-> Fresh(blocks[block].owner)]
Appended(bs, instruction) ==
  [bs EXCEPT ![block].code = Append(@, instruction)]

HasTerminator(b) == \E i \in DOMAIN blocks[b].code : blocks[b].code[i].op = "return"

-------------------------------------------------------------------------------
Init ==
  /\ \E p \in Program : todo = <<Gen(p)>>
  /\ saved = <<>>
  /\ defer_stack = <<>>
  /\ defer_stack_len = 0 /\ defer_local_boundary = 0
  /\ blocks = <<>> /\ block = 0 /\ functions = <<>>

At(op) == todo # <<>> /\ Head(todo).op = op
Generates(kind) == At("gen") /\ Head(todo).stmt.kind = kind
Then(items) == todo' = items \o Tail(todo)

GenExpression ==
  /\ Generates("do")
  /\ blocks' = Appended(blocks, Do(Head(todo).stmt.name))
  /\ Then(<<>>)
  /\ UNCHANGED <<deferring, block, functions>>

(* gen has no case for Break and for Continue.                               *)
GenNothing ==
  /\ Generates("break") \/ Generates("continue")
  /\ Then(<<>>)
  /\ UNCHANGED <<deferring, blocks, block, functions>>

GenDefer ==
  /\ Generates("defer") /\ defer_stack_len < DeferSlots
  /\ defer_stack' = SubSeq(defer_stack, 1, defer_stack_len)
                     \o Head(todo).stmt.parts[1]
                     \o SubSeq(defer_stack, defer_stack_len + 2, Len(defer_stack))
  /\ defer_stack_len' = defer_stack_len + 1
  /\ Then(<<>>)
  /\ UNCHANGED <<saved, defer_local_boundary, blocks, block, functions>>

(* The deferred statements are generated before the value that is returned.  *)
GenReturnFromScope ==  \* mutant: only the innermost scope is left
  /\ Generates("return")
  /\ Then(<<Inject(defer_stack_len, defer_local_boundary),
            Emit(Return(Head(todo).stmt.name))>>)
  /\ UNCHANGED <<deferring, blocks, block, functions>>
GenReturn ==
  /\ Generates("return")
  /\ Then(<<Inject(defer_stack_len, 0), Emit(Return(Head(todo).stmt.name))>>)
  /\ UNCHANGED <<deferring, blocks, block, functions>>

GenBlock ==
  LET list == Head(todo).stmt.parts[1]
      body == Len(blocks) + 1
      merge == Len(blocks) + 2
  IN /\ Generates("block")
     /\ blocks' = Appended(WithBlocks(2), Br(body))
     /\ Then(<<Enter(body)>> \o Body(list) \o <<Leave(merge, TRUE), MoveTo(merge)>>)
     /\ UNCHANGED <<deferring, block, functions>>

GenIf ==
  LET s == Head(todo).stmt
      arms == Len(s.parts)
      then == Len(blocks) + 1
      else == Len(blocks) + 2
      merge == Len(blocks) + arms + 1
  IN /\ Generates("if")
     /\ blocks' = Appended(WithBlocks(arms + 1), CondBr(s.name, then, else))
     /\ Then(<<Enter(then)>> \o Body(s.parts[1]) \o <<Leave(merge, FALSE)>>
             \o (IF arms = 1 THEN <<>>
                 ELSE <<Enter(else)>> \o Body(s.parts[2]) \o <<Leave(merge, FALSE)>>)
             \o <<MoveTo(merge)>>)
     /\ UNCHANGED <<deferring, block, functions>>

GenLoop ==
  LET s == Head(todo).stmt
      condition == Len(blocks) + 1
      do == Len(blocks) + 2
      merge == Len(blocks) + 3
      new == WithBlocks(3)
  IN /\ Generates("for")
     /\ blocks' = [Appended(new, Br(condition))
                     EXCEPT ![condition].code = <<CondBr(s.name, do, merge)>>]
     /\ Then(<<Enter(do)>> \o Body(s.parts[1])
             \o <<Leave(condition, FALSE), MoveTo(merge)>>)
     /\ UNCHANGED <<deferring, block, functions>>

GenRangeLoop ==
  LET s == Head(todo).stmt
      init == Len(blocks) + 1
      condition == Len(blocks) + 2
      do == Len(blocks) + 3
      merge == Len(blocks) + 4
      increment == Len(blocks) + 5
  IN /\ Generates("in")
     /\ blocks' = [Appended(WithBlocks(5), Br(init))
                     EXCEPT ![init].code = <<Do("from"), Br(condition)>>,
                            ![condition].code = <<CondBr(s.name, do, merge)>>,
                            ![increment].code = <<Do("next"), Br(condition)>>]
     /\ Then(<<Enter(do)>> \o Body(s.parts[1])
             \o <<Leave(increment, FALSE), MoveTo(merge)>>)
     /\ UNCHANGED <<deferring, block, functions>>

GenSwitch ==
  LET merge == Len(blocks) + 1
  IN /\ Generates("switch")
     /\ blocks' = WithBlocks(1)
     /\ Then(<<Case(Head(todo).stmt, <<>>, block, merge)>>)
     /\ UNCHANGED <<deferring, block, functions>>

(* The loop over the cases; the switch itself is built last, in the block in *)
(* which the conditional was evaluated.                                      *)
GenCase ==
  LET c == Head(todo)
      new == Len(blocks) + 1
      i == Len(c.cases) + 1
  IN /\ At("case") /\ i <= Len(c.stmt.parts)
     /\ blocks' = WithBlocks(1)
     /\ Then(<<Enter(new)>> \o Body(c.stmt.parts[i])
             \o <<Leave(c.merge, FALSE), MoveTo(c.parent),
                  [c EXCEPT !.cases = Append(@, new)]>>)
     /\ UNCHANGED <<deferring, block, functions>>
GenSwitchEnd ==
  LET c == Head(todo)
  IN /\ At("case") /\ Len(c.cases) = Len(c.stmt.parts)
     /\ blocks' = Appended(blocks, Switch(c.stmt.name, c.cases, c.merge))
     /\ block' = c.merge
     /\ Then(<<>>)
     /\ UNCHANGED <<deferring, functions>>

GenFunction ==
  LET s == Head(todo).stmt
      entry == Len(blocks) + 1
  IN /\ Generates("function")
     /\ blocks' = Append(blocks, Fresh(Len(functions) + 1))
     /\ functions' = Append(functions, [entry |-> entry, body |-> s.parts[1]])
     /\ block' = entry
     /\ Then(Body(s.parts[1]) \o <<EndFunction(block)>>)
     /\ UNCHANGED deferring

(* A void return is injected if the function may come to its end.            *)
EndFunctionBody ==
  LET prev == Head(todo).prev
  IN /\ At("endfunction")
     /\ Then((IF HasTerminator(block) THEN <<>>
              ELSE <<Inject(defer_stack_len, defer_local_boundary),
                     Emit(Return("void"))>>)
             \o <<LeaveFunction(prev)>>)
     /\ UNCHANGED <<deferring, blocks, block, functions>>
FunctionDoneInside ==  \* mutant: the builder stays in the function
  /\ At("leavefunction")
  /\ defer_stack_len' = 0
  /\ Then(<<>>)
  /\ UNCHANGED <<saved, defer_stack, defer_local_boundary, blocks, block, functions>>
FunctionDone ==
  /\ At("leavefunction")
  /\ block' = Head(todo).prev
  /\ defer_stack_len' = 0
  /\ Then(<<>>)
  /\ UNCHANGED <<saved, defer_stack, defer_local_boundary, blocks, functions>>

(* The body of an if, loop, case or block: its scope begins,                 *)
EnterScope ==
  /\ At("enter")
  /\ saved' = Append(saved, [len |-> defer_stack_len, boundary |-> defer_local_boundary])
  /\ defer_local_boundary' = defer_stack_len
  /\ block' = Head(todo).to
  /\ Then(<<>>)
  /\ UNCHANGED <<defer_stack, defer_stack_len, blocks, functions>>

(* ends: its deferred statements, and the branch to what comes next,         *)
EndScopeAlways ==  \* mutant: also if the scope ended with a return
  LET end == Head(todo)
  IN /\ At("leave")
     /\ Then(<<Inject(defer_stack_len, defer_local_boundary), Emit(Br(end.to)), Reset>>)
     /\ UNCHANGED <<deferring, blocks, block, functions>>
EndScopeOpen ==  \* mutant: no branch after deferred statements
  LET end == Head(todo)
  IN /\ At("leave")
     /\ Then((IF HasTerminator(block) /\ ~end.always THEN <<>>
              ELSE IF defer_stack_len > defer_local_boundary
                THEN <<Inject(defer_stack_len, defer_local_boundary)>>
                ELSE <<Emit(Br(end.to))>>)
             \o <<Reset>>)
     /\ UNCHANGED <<deferring, blocks, block, functions>>
EndScope ==
  LET end == Head(todo)
  IN /\ At("leave")
     /\ Then((IF HasTerminator(block) /\ ~end.always THEN <<>>
              ELSE <<Inject(defer_stack_len, defer_local_boundary),
                     Emit(Br(end.to))>>)
             \o <<Reset>>)
     /\ UNCHANGED <<deferring, blocks, block, functions>>

(* and is forgotten.                                                         *)
ResetLengthOnly ==  \* mutant: the boundary of the scope stays
  LET old == saved[Len(saved)]
  IN /\ At("reset")
     /\ defer_stack_len' = old.len
     /\ saved' = SubSeq(saved, 1, Len(saved) - 1)
     /\ Then(<<>>)
     /\ UNCHANGED <<defer_stack, defer_local_boundary, blocks, block, functions>>
ResetScope ==
  LET old == saved[Len(saved)]
  IN /\ At("reset")
     /\ defer_stack_len' = old.len /\ defer_local_boundary' = old.boundary
     /\ saved' = SubSeq(saved, 1, Len(saved) - 1)
     /\ Then(<<>>)
     /\ UNCHANGED <<defer_stack, blocks, block, functions>>

(* injectDefer: the last one deferred comes first.                           *)
InjectDefer ==
  LET i == Head(todo).i
      min == Head(todo).min
  IN /\ At("inject")
     /\ Then(IF i > min THEN <<Gen(defer_stack[i]), Inject(i - 1, min)>>
             ELSE <<>>)
     /\ UNCHANGED <<deferring, blocks, block, functions>>

EmitInstruction ==
  /\ At("emit")
  /\ blocks' = Appended(blocks, Head(todo).instruction)
  /\ Then(<<>>)
  /\ UNCHANGED <<deferring, block, functions>>
MoveBuilder ==
  /\ At("move")
  /\ block' = Head(todo).to
  /\ Then(<<>>)
  /\ UNCHANGED <<deferring, blocks, functions>>

Next ==
  \/ GenExpression \/ GenNothing \/ GenDefer \/ GenReturn
  \/ GenBlock \/ GenIf \/ GenLoop \/ GenRangeLoop
  \/ GenSwitch \/ GenCase \/ GenSwitchEnd
  \/ GenFunction \/ EndFunctionBody \/ FunctionDone
  \/ EnterScope \/ EndScope \/ ResetScope
  \/ InjectDefer \/ EmitInstruction \/ MoveBuilder

Spec == Init /\ [][Next]_vars

Generated == todo = <<>>

-------------------------------------------------------------------------------
TypeOK ==
  /\ todo \in Seq(Item)
  /\ saved \in Seq([len : Nat, boundary : Nat])
  /\ defer_stack \in Statements
  /\ defer_stack_len \in Nat /\ defer_local_boundary \in Nat
  /\ blocks \in Seq([owner : DOMAIN functions, code : Seq(Instruction)])
  /\ block \in 0 .. Len(blocks)
  /\ functions \in Seq(GeneratedFunction)

(* A branch stays in its function, also when functions are generated in the  *)
(* middle of others, and the builder is outside of all of them in the end.   *)
BranchesStay ==
  /\ \A b \in DOMAIN blocks : \A i \in DOMAIN blocks[b].code :
       LET targets == blocks[b].code[i].targets
       IN \A t \in DOMAIN targets :
            /\ targets[t] \in DOMAIN blocks
            /\ blocks[targets[t]].owner = blocks[b].owner
  /\ Generated => block = 0

(* Scopes nest on the defer stack: each begins where the one around it had   *)
(* come to when it was entered, and nothing is left deferred in the end.     *)
ScopesNest ==
  /\ defer_local_boundary <= defer_stack_len /\ defer_stack_len <= Len(defer_stack)
  /\ \A k \in DOMAIN saved :
       saved[k].len = IF k = Len(saved) THEN defer_local_boundary
                      ELSE saved[k + 1].boundary
  /\ Generated => saved = <<>> /\ defer_stack_len = 0 /\ defer_local_boundary = 0

(* A return is the last statement of its list, and the list not that of a    *)
(* block statement; it is not deferred.                                      *)
Tidy[s \in Stmt] ==
  \A k \in DOMAIN s.parts : \A i \in DOMAIN s.parts[k] :
    /\ s.parts[k][i].kind = "return" =>
         i = Len(s.parts[k]) /\ s.kind \notin {"block", "defer"}
    /\ Tidy[s.parts[k][i]]
TidyBody(list) ==
  \A i \in DOMAIN list : (list[i].kind = "return" => i = Len(list)) /\ Tidy[list[i]]
AllTidy == \A f \in DOMAIN functions : TidyBody(functions[f].body)

(* Each block that is generated for a tidy program has one terminator, at    *)
(* its end; LLVM accepts no others.                                          *)
Terminated(code) ==
  code # <<>> /\ \A i \in DOMAIN code : code[i].op \in Terminators <=> i = Len(code)
OneTerminator ==
  Generated /\ AllTidy => \A b \in DOMAIN blocks : Terminated(blocks[b].code)

===============================================================================
