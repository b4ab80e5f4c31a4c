------------------------------- MODULE Scoping -------------------------------
(*****************************************************************************)
(* What a name means, said without symbols: an environment gives each name   *)
(* the place of the declaration that it stands for.  In a function a name is *)
(* declared from its declaration on; in a file, a namespace and a record all *)
(* of it, whatever the order.                                                *)
(*****************************************************************************)
EXTENDS Naturals, Sequences
LOCAL INSTANCE SequencesExt

Bind(env, name, at) ==
  [n \in DOMAIN env \cup {name} |-> IF n = name THEN at ELSE env[n]]
Nothing == [n \in {} |-> 0]

Declares(node) == node.kind \in {"field", "member"}
BindAll(env, nodes) ==
  FoldLeft(LAMBDA e, node : IF Declares(node) THEN Bind(e, node.text, node.at) ELSE e,
           env, nodes)

RECURSIVE Meaning(_, _)
Meanings(nodes, env) == UNION {Meaning(nodes[i], env) : i \in DOMAIN nodes}

(* Statements, one after the other.                                          *)
RECURSIVE InOrder(_, _)
InOrder(nodes, env) ==
  IF nodes = <<>> THEN {}
  ELSE LET first == Head(nodes)
           bound == IF Declares(first) THEN Bind(env, first.text, first.at) ELSE env
       IN Meaning(first, bound) \cup InOrder(Tail(nodes), bound)

(* The declarations of a scope in which order is of no matter.               *)
Unordered(data, body, env) ==
  LET inside == BindAll(BindAll(env, data), body)
  IN UNION {Meaning(data[i].kids[1], inside) : i \in DOMAIN data}
     \cup Meanings(body, inside)

Meaning(node, env) ==
  LET kid(i) == node.kids[i]
  IN CASE node.kind = "name" ->
            {<<node.at, IF node.text \in DOMAIN env THEN env[node.text] ELSE 0>>}
       [] node.kind = "operator" /\ node.text = "." -> Meaning(kid(1), env)
       [] node.kind \in {"compound", "block"} -> InOrder(node.kids, env)
       [] node.kind = "fn" ->
            LET inside == BindAll(env, kid(1).kids)
            IN UNION {Meaning(kid(1).kids[i].kids[1], inside) : i \in DOMAIN kid(1).kids}
               \cup Meaning(kid(2), inside) \cup Meaning(kid(3), inside)
       [] node.kind = "namespace" -> Unordered(<<>>, node.kids, env)
       [] node.kind = "struct" -> Unordered(kid(1).kids, kid(2).kids, env)
       [] node.kind \in {"enum", "union"} ->
            Meaning(kid(1), env) \cup Unordered(kid(2).kids, kid(3).kids, env)
       [] node.kind = "for" /\ kid(1).kind = "in" ->
            LET inside == Bind(env, kid(1).text, kid(1).at)
            IN Meaning(kid(1).kids[1], inside) \cup Meaning(kid(2), inside)
       [] OTHER -> Meanings(node.kids, env)

FileMeaning(tree) == Unordered(<<>>, tree.kids, Nothing)

===============================================================================
