------------------------------- MODULE Symbols -------------------------------
(*****************************************************************************)
(* symbolize.cpp and symbol.hpp: the scopes and the names of a tree, and the *)
(* scope in which uirgen looks each name up.                                 *)
(*                                                                           *)
(* The symbols of a file are a sequence in the order of their creation, the  *)
(* root first; a symbol is known by its place in it, and 0 is no symbol.     *)
(*****************************************************************************)
EXTENDS Parser
LOCAL INSTANCE SequencesExt

(* A node is known by its kind and place: no two of a file share both.       *)
Id(node) == <<node.kind, node.at>>
Symbol(parent, aware, name, node) ==
  [parent |-> parent, location_aware |-> aware, name |-> name, node |-> Id(node)]

RECURSIVE symbolize(_, _, _)
symbolizeAll(nodes, parent, symbols) ==
  FoldLeft(LAMBDA sofar, node : symbolize(node, parent, sofar), symbols, nodes)

BlockUnaware(parent, symbols) == FALSE  \* mutant
BlockAware(parent, symbols) == symbols[parent].location_aware

symbolize(node, parent, symbols) ==
  LET kid(i) == node.kids[i]
      new == Len(symbols) + 1
      Scope(aware, name) == Append(symbols, Symbol(parent, aware, name, node))
  IN CASE node.kind \in {"compound", "list", "pointer", "slice", "assignment",
                         "unary", "operator", "range", "call", "index",
                         "initializer", "setter", "return", "defer", "comptime"} ->
            symbolizeAll(node.kids, parent, symbols)
       [] node.kind = "block" ->
            symbolizeAll(node.kids, new, Scope(BlockAware(parent, symbols), ""))
       [] node.kind \in {"field", "member"} ->
            symbolizeAll(node.kids, new, Scope(FALSE, node.text))
       [] node.kind = "fn" -> symbolizeAll(node.kids, new, Scope(TRUE, ""))
       [] node.kind \in {"struct", "enum", "union", "namespace"} ->
            symbolizeAll(node.kids, new, Scope(FALSE, ""))
       [] node.kind = "if" ->
            LET then == symbolizeAll(<<kid(1), kid(2)>>, new, Scope(TRUE, ""))
            IN IF kid(3).kind = "compound"
               THEN symbolize(kid(3), Len(then) + 1,
                              Append(then, Symbol(parent, TRUE, "", kid(3))))
               ELSE symbolize(kid(3), parent, then)
       [] node.kind = "for" -> symbolizeAll(node.kids, new, Scope(TRUE, ""))
       [] node.kind = "in" -> symbolize(kid(1), parent, Scope(FALSE, node.text))
       [] node.kind = "switch" -> symbolize(kid(2), parent, symbols)
       [] node.kind = "case" -> symbolize(kid(2), new, Scope(TRUE, ""))
       [] OTHER -> symbols

(* The symbols of a file; the root is not aware of locations.                *)
SymbolsOf(tree) == symbolize(tree, 1, <<Symbol(0, FALSE, "", tree)>>)
-------------------------------------------------------------------------------
Children(symbols, s) == {c \in DOMAIN symbols : symbols[c].parent = s}
First(places) == CHOOSE c \in places : \A d \in places : c <= d

(* The first child with the name; where a scope is aware of locations it     *)
(* must not stand after the use.                                             *)
AnySymbolInScope(symbols, s, name, at) ==  \* mutant: the location is not looked at
  {c \in Children(symbols, s) : symbols[c].name = name}
getSymbolInScope(symbols, s, name, at) ==
  {c \in Children(symbols, s) :
     /\ symbols[c].name = name
     /\ symbols[s].location_aware => symbols[c].node[2] <= at}

findSymbol(symbols, s, name, at) ==
  LET found[t \in 0 .. Len(symbols)] ==
        CASE t = 0 -> 0
          [] t > 0 /\ getSymbolInScope(symbols, t, name, at) # {} ->
               First(getSymbolInScope(symbols, t, name, at))
          [] OTHER -> found[symbols[t].parent]
  IN found[s]

findSymbolByNode(symbols, s, id) ==
  LET found[t \in 1 .. Len(symbols)] ==
        LET here == {c \in Children(symbols, t) : symbols[c].node = id}
        IN CASE here # {} -> First(here)
             [] here = {} /\ symbols[t].parent # 0 -> found[symbols[t].parent]
             [] here = {} /\ symbols[t].parent = 0 /\ symbols[t].node = id -> t
             [] OTHER -> 0
  IN IF s = 0 THEN 0 ELSE found[s]
-------------------------------------------------------------------------------
(* What uirgen generates for a node, and the scope it passes on: a condition *)
(* and a constant belong to the scope around their statement, a data field,  *)
(* a parameter and a member to that of the record or function.               *)
Pass(nodes, s) == {[node |-> nodes[i], scope |-> s] : i \in DOMAIN nodes}
genData(nodes, s) == {[node |-> nodes[i].kids[1], scope |-> s] : i \in DOMAIN nodes}

Passed(node, s, symbols) ==
  LET kid(i) == node.kids[i]
      scope == findSymbolByNode(symbols, s, Id(node))
  IN CASE node.kind = "operator" /\ node.text = "." -> Pass(<<kid(1)>>, s)
       [] node.kind \in {"block", "field", "namespace", "for"} -> Pass(node.kids, scope)
       [] node.kind = "fn" -> genData(kid(1).kids, scope) \cup Pass(<<kid(2), kid(3)>>, scope)
       [] node.kind = "struct" -> genData(kid(1).kids, scope) \cup Pass(kid(2).kids, scope)
       [] node.kind \in {"enum", "union"} ->
            Pass(<<kid(1)>>, scope) \cup genData(kid(2).kids, scope) \cup Pass(kid(3).kids, scope)
       [] node.kind = "if" ->
            LET else == findSymbolByNode(symbols, s, Id(kid(3)))
            IN Pass(<<kid(1)>>, s) \cup Pass(<<kid(2)>>, scope)
               \cup Pass(<<kid(3)>>, IF else = 0 THEN s ELSE else)
       [] node.kind = "case" -> Pass(<<kid(1)>>, s) \cup Pass(<<kid(2)>>, scope)
       [] OTHER -> Pass(node.kids, s)

(* The names that are looked up.                                             *)
RECURSIVE usesIn(_, _, _)
usesIn(node, s, symbols) ==
  IF node.kind = "name" THEN {[name |-> node.text, at |-> node.at, scope |-> s]}
  ELSE UNION {usesIn(p.node, p.scope, symbols) : p \in Passed(node, s, symbols)}

(* The statements that are deferred, their scopes, and those of the places   *)
(* at which injectDefer generates them: the end of their scope and the       *)
(* returns that follow them.                                                 *)
RECURSIVE returnsIn(_, _, _), deferredIn(_, _, _)
returnsIn(node, s, symbols) ==
  CASE node.kind = "return" -> {s}
    [] node.kind = "fn" -> {}
    [] OTHER -> UNION {returnsIn(p.node, p.scope, symbols) : p \in Passed(node, s, symbols)}

deferredIn(node, s, symbols) ==
  LET scope == IF node.kind = "block" THEN findSymbolByNode(symbols, s, Id(node)) ELSE s
      defers == IF node.kind \in {"compound", "block"}
                THEN {i \in DOMAIN node.kids : node.kids[i].kind = "defer"} ELSE {}
  IN {[node |-> node.kids[i].kids[1], scope |-> scope,
       exits |-> {scope} \cup UNION {returnsIn(node.kids[j], scope, symbols) :
                                       j \in i + 1 .. Len(node.kids)}] : i \in defers}
     \cup UNION {deferredIn(p.node, p.scope, symbols) : p \in Passed(node, s, symbols)}

===============================================================================
