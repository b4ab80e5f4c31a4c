------------------------------- MODULE MCUIRGen -------------------------------
(* Programs for TLC: every kind of statement in every kind of scope, with     *)
(* deferred statements in and around it; and the comparison of what the blocks *)
(* do with what the statements mean.                                          *)
EXTENDS Execution

Source == INSTANCE Deferral

S(kind, name, parts) == [kind |-> kind, name |-> name, parts |-> parts]
Leaf(kind, name) == S(kind, name, <<>>)
Defers(s) == S("defer", "void", <<<<s>>>>)
Function(body) == S("function", "void", <<body>>)

Inner ==
  {<<Leaf("do", "a")>>,
   <<Leaf("return", "r")>>,
   <<Defers(Leaf("do", "d")), Leaf("do", "a")>>,
   <<Defers(Leaf("do", "d")), Leaf("return", "r")>>,
   <<Defers(Leaf("do", "d")), Defers(Leaf("do", "e"))>>}

ScopesOf(Lists, Others) ==
  {S("if", "c", <<l>>) : l \in Lists}
  \cup {S("if", "c", <<l, m>>) : l \in Lists, m \in Others}
  \cup {S("switch", "c", <<l, m>>) : l \in Lists, m \in Others}
  \cup {S("for", "c", <<l>>) : l \in Lists}
  \cup {S("in", "c", <<l>>) : l \in Lists}
  \cup {S("block", "void", <<l>>) : l \in Lists}

Simple == ScopesOf(Inner, Inner)
Nested ==
  ScopesOf({<<Defers(Leaf("do", "f")), s>> :
              s \in {t \in Simple : t.kind # "switch" /\ Len(t.parts) = 1}},
           {<<Leaf("return", "r")>>})
Deferred ==
  {Defers(s) : s \in {t \in Simple : t.parts = <<<<Leaf("do", "a")>>>>
                        \/ t.parts = <<<<Defers(Leaf("do", "d")), Leaf("do", "a")>>>>}}

Around(scopes, Afters) ==
  {<<Defers(Leaf("do", "o")), s>> \o after : s \in scopes, after \in Afters}

Afters == {<<>>, <<Leaf("return", "q")>>, <<Defers(Leaf("do", "p")), Leaf("do", "z")>>}

MCProgram ==
  {Function(body) :
     body \in Around(Simple, Afters) \cup Around(Nested, {<<>>})
              \cup Around(Deferred, Afters \cup {<<S("if", "b", <<<<Leaf("return", "q")>>>>)>>})
              \cup {<<s>> : s \in Simple}
              \cup {<<Function(<<s>>), Defers(Leaf("do", "o")), Leaf("do", "z")>> :
                      s \in {t \in Simple : Len(t.parts) = 1}}
              \cup {<<S("if", "b", <<<<Function(<<Leaf("do", "a")>>), Leaf("do", "z")>>>>)>>}
              \cup {<<Leaf("return", "r"), Defers(Leaf("do", "d")), Leaf("do", "a")>>}}

(* Loops that are left by a break.                                           *)
BreakProgram ==
  {Function(<<S("for", "c", <<<<Defers(Leaf("do", "d")), Leaf(kind, "void"), Leaf("do", "a")>>>>)>>) :
     kind \in {"break", "continue"}}
  \cup {Function(<<S(kind, "c", <<<<S("if", "b", <<<<Leaf("break", "void")>>>>), l>>>>)>>) :
          kind \in {"for", "in"}, l \in {Leaf("do", "a")}}

(* A function in a function.                                                 *)
NestedProgram ==
  {Function(<<Defers(Leaf("do", "o")), Function(<<l>>), Leaf("do", "z")>>) :
     l \in {Leaf("do", "a"), Leaf("return", "r")}}

WithParts(stmts) ==
  stmts \cup UNION {UNION {{s.parts[k][i] : i \in DOMAIN s.parts[k]} :
                            k \in DOMAIN s.parts} : s \in stmts}
StmtsOf(programs) == {s : s \in WithParts(WithParts(WithParts(WithParts(programs))))}

MCStmt == StmtsOf(MCProgram)
BreakStmt == StmtsOf(BreakProgram)
NestedStmt == StmtsOf(NestedProgram)

MCName == {"a", "b", "c", "d", "e", "f", "o", "p", "q", "r", "z",
           "void", "from", "next"}

-------------------------------------------------------------------------------
(* A function does what its statements mean, with each deferred statement in  *)
(* its place, once, on every way out of its scope.                            *)
FollowsTheSource ==
  returned =>
    trace = Source!FunctionMeaning(functions[function].body,
                                   [i \in DOMAIN Outcomes |-> Outcomes[i].way])

===============================================================================
