------------------------------- MODULE Grammar -------------------------------
(*****************************************************************************)
(* How a tree is written.  The parser is checked against this: what is       *)
(* written has to be parsed to the tree that it was written from.            *)
(*****************************************************************************)
EXTENDS Parser

CONSTANT LeftAssociative  \* whether operators are written as left associative

Of(kind, text, flags, kids) == Node(kind, 0, text, flags, kids)

(* A tree without its places.                                                *)
RECURSIVE Unplaced(_)
Unplaced(node) ==
  [node EXCEPT !.at = 0, !.kids = [i \in DOMAIN @ |-> Unplaced(@[i])]]

-------------------------------------------------------------------------------
(* A token is written as its characters.                                     *)
Spelling(text) ==
  LET lexemes == {l \in Lexemes : Text(l, 1, Len(l)) = text}
  IN IF lexemes = {} THEN <<text>> ELSE CHOOSE l \in lexemes : TRUE
T(text) == <<Spelling(text)>>
Between(open, tokens, close) == T(open) \o tokens \o T(close)
Joined(nodes, separator, Write(_)) ==
  LET joined[i \in 0 .. Len(nodes)] ==
        CASE i = 0 -> <<>>
          [] i = 1 -> Write(nodes[1])
          [] OTHER -> joined[i - 1] \o separator \o Write(nodes[i])
  IN joined[Len(nodes)]
Optional(node, tokens) == IF node = Null THEN <<>> ELSE tokens

(* An operand is put in parentheses if it would not stay together otherwise; *)
(* min is the precedence that it needs.  Initializers are kept out of        *)
(* conditions and types, where a brace begins a body.                        *)
Prefixed(node) == node.kind \in {"unary", "pointer", "comptime"} /\ node.text # "^"
Level(node) ==
  CASE node.kind = "operator" -> Precedence(node.text)
    [] node.kind = "range" -> 0
    [] Prefixed(node) \/ node.kind = "pointer" -> Unary
    [] node.kind = "slice" -> IF Len(node.kids) = 2 /\ node.kids[2].kind = "pointer"
                              THEN Unary ELSE MemberAccess + 1
    [] OTHER -> MemberAccess + 1
LeftMin(op) ==
  IF LeftAssociative \/ op = "." THEN Precedence(op) ELSE Precedence(op) + 1
RightMin(op) ==
  IF LeftAssociative \/ op = "." THEN Precedence(op) + 1 ELSE Precedence(op)

RECURSIVE Written(_, _, _)
Statements(nodes) == Written(Of("compound", "", {}, nodes), 0, TRUE)
Body(nodes) == Between("{", Statements(nodes), "}")
Expression(node, min, init) ==
  IF Level(node) < min \/ (node.kind = "initializer" /\ ~init)
  THEN Between("(", Written(node, 0, TRUE), ")")
  ELSE Written(node, min, init)
Base(node, init) ==  \* what something follows
  IF node.kind = "operator" /\ node.text # "." THEN Between("(", Written(node, 0, TRUE), ")")
  ELSE Expression(node, Special, init)
Commas(node, init) == Joined(node.kids, T(","), LAMBDA n : Written(n, 0, init))

WrittenField(node) ==
  LET type == node.kids[1]
      initial == node.kids[2]
      sign == IF "definition" \in node.flags THEN ":" ELSE "="
  IN T(node.text) \o T(":")
     \o Optional(type, Expression(type, 1, FALSE))
     \o (CASE "undefined" \in node.flags -> T(sign) \o T("---")
           [] initial = Null -> <<>>
           [] initial.kind = "namespace" -> T(sign) \o Body(initial.kids)
           [] OTHER -> T(sign) \o Written(initial, 0, TRUE))

WrittenRecord(head, fields, body) ==
  T(head[1])
  \o (IF head[2] = Null THEN <<>> ELSE Written(head[2], 0, FALSE))
  \o Between("{", Commas(fields, TRUE)
                  \o (IF fields.kids # <<>> /\ body.kids # <<>> THEN T(",") ELSE <<>>)
                  \o Statements(body.kids), "}")

-------------------------------------------------------------------------------
Condition(node) ==
  IF node.kind = "in"
  THEN T(node.text) \o T("in") \o Written(node.kids[1], 1, FALSE)
  ELSE Expression(node, 0, FALSE)

Operand(operand) ==
  CASE operand.kind = "register" -> T("%") \o T(operand.text)
    [] operand.kind = "input" -> Written(operand.kids[1], 0, TRUE)
    [] operand.kind = "result" -> T("=") \o Written(operand.kids[1], 0, TRUE)

Statement(node) ==
  LET kid(i) == node.kids[i]
  IN CASE node.kind = "assignment" ->
            Written(kid(1), 0, TRUE)
            \o (IF node.text = "=" THEN T("=") ELSE T(node.text \o "="))
            \o Written(kid(2), 0, TRUE)
       [] node.kind = "field" ->
            (IF "attributed" \in node.flags THEN T("@") \o T("(") \o T("weak") \o T(")") ELSE <<>>)
            \o (IF "comptime" \in node.flags THEN T("comptime") ELSE <<>>)
            \o WrittenField(node)
       [] node.kind = "return" ->
            T("return") \o Optional(kid(1), Written(kid(1), 0, TRUE))
       [] node.kind = "if" ->
            T("if") \o Condition(kid(1)) \o Body(kid(2).kids)
            \o Optional(kid(3), T("else") \o (IF kid(3).kind = "if" THEN Statements(<<kid(3)>>)
                                              ELSE Body(kid(3).kids)))
       [] node.kind = "for" ->
            T("for") \o Condition(kid(1)) \o Body(kid(2).kids)
       [] node.kind = "switch" ->
            T("switch") \o Expression(kid(1), 0, FALSE)
            \o Between("{", Joined(kid(2).kids, <<>>, LAMBDA case :
                 Expression(case.kids[1], 0, TRUE) \o T("=>") \o Body(case.kids[2].kids)), "}")
       [] node.kind \in {"break", "continue"} -> T(node.kind)
       [] node.kind = "defer" -> T("defer") \o Statements(<<kid(1)>>)
       [] node.kind = "comptime" -> T("$") \o Statements(<<kid(1)>>)
       [] node.kind = "block" -> Body(node.kids)
       [] node.kind = "asm" ->
            T("asm") \o Between("{", Joined(node.kids, <<>>, LAMBDA instruction :
              T(instruction.text) \o Joined(instruction.kids, T(","), Operand) \o T(";")), "}")
       [] OTHER -> Written(node, 0, TRUE)

(* A semicolon ends what no brace or semicolon ends.                         *)
EndedWith(tokens) ==
  IF tokens[Len(tokens)] \in {<<"}">>, <<";">>} THEN tokens ELSE tokens \o T(";")

Written(node, min, init) ==
  LET kid(i) == node.kids[i]
  IN CASE node.kind = "compound" -> Joined(node.kids, <<>>, LAMBDA n : EndedWith(Statement(n)))
       [] node.kind \in {"name", "integer"} -> T(node.text)
       [] node.kind = "float" ->
            <<CHOOSE n \in {<<i, ".", d>> : i, d \in Digits} : Text(n, 1, 3) = node.text>>
       [] node.kind = "string" -> <<<<"\"", node.text, "\"">>>>
       [] node.kind = "operator" ->
            Expression(kid(1), LeftMin(node.text), init) \o T(node.text)
            \o Expression(kid(2), RightMin(node.text), init)
       [] node.kind = "unary" /\ node.text # "^" ->
            T(node.text) \o Expression(kid(1), Unary, init)
       [] node.kind = "unary" /\ node.text = "^" ->
            (IF kid(1).kind = "operator" THEN Between("(", Written(kid(1), 0, TRUE), ")")
             ELSE Base(kid(1), init)) \o T("^")
       [] node.kind = "pointer" ->
            T("^") \o (IF "const" \in node.flags THEN T("const") ELSE <<>>)
            \o Expression(kid(1), Unary, init)
       [] node.kind = "slice" ->
            T("[") \o (IF "pointer" \in node.flags THEN T("*")
                       ELSE Optional(kid(1), Written(kid(1), 0, TRUE)))
            \o T("]") \o (IF "const" \in node.flags THEN T("const") ELSE <<>>)
            \o Expression(kid(2), IF kid(2).kind = "pointer" THEN 0 ELSE MemberAccess, init)
       [] node.kind = "call" ->
            Base(kid(1), init) \o Between("(", Commas(kid(2), TRUE), ")")
       [] node.kind = "index" ->
            Base(kid(1), init) \o Between("[", Written(kid(2), 0, TRUE), "]")
       [] node.kind = "initializer" ->
            Base(kid(1), init) \o Between("{", Commas(kid(2), TRUE), "}")
       [] node.kind = "setter" -> T(node.text) \o T("=") \o Written(kid(1), 0, TRUE)
       [] node.kind = "range" ->
            Base(kid(1), init) \o T(CHOOSE flag \in node.flags : TRUE)
            \o Expression(kid(2), 0, FALSE)
       [] node.kind = "fn" ->
            (IF "comptime" \in node.flags THEN T("$") ELSE <<>>) \o T("fn")
            \o Between("(", Commas(kid(1), FALSE), ")")
            \o Optional(kid(2), Expression(kid(2), 0, FALSE))
            \o (IF "undefined" \in node.flags THEN T("---")
                ELSE Optional(kid(3), Body(kid(3).kids)))
       [] node.kind = "struct" -> WrittenRecord(<<"struct", Null>>, kid(1), kid(2))
       [] node.kind \in {"enum", "union"} ->
            WrittenRecord(<<node.kind, kid(1)>>, kid(2), kid(3))
       [] node.kind = "member" ->
            T(node.text) \o Optional(kid(1), T("=") \o Written(kid(1), 0, TRUE))
       [] node.kind = "import" -> T("import") \o <<<<"\"", node.text, "\"">>>>
       [] node.kind = "comptime" -> T("$") \o Expression(kid(1), Special, init)
       [] node.kind = "field" -> WrittenField(node)
-------------------------------------------------------------------------------
(* The file: with a space after every token, or only where two words meet    *)
(* or two tokens would be read as another.                                   *)
Apart(a, b) ==
  \/ a[Len(a)] \notin Marks /\ b[1] \notin Marks
  \/ a = <<"-">> /\ b[1] \in Digits
  \/ \E l \in Lexemes : Len(a) < Len(l) /\ StartsWith(a \o b, 1, l)
  \/ <<a[Len(a)], b[1]>> \in {<<"/", "/">>, <<"/", "*">>, <<".", ".">>}
  \/ a[Len(a)] \in Digits /\ b = <<".">>
Source(tree, spacious) ==
  LET tokens == Written(tree, 0, TRUE)
      source[i \in 1 .. Len(tokens)] ==
        IF i = 1 THEN tokens[1]
        ELSE source[i - 1]
             \o (IF spacious \/ Apart(tokens[i - 1], tokens[i]) THEN <<" ">> ELSE <<>>)
             \o tokens[i]
  IN source[Len(tokens)]

===============================================================================
