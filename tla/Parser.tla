-------------------------------- MODULE Parser --------------------------------
(*****************************************************************************)
(* parser.cpp: from the tokens of a file to its tree, by recursive descent.  *)
(*                                                                           *)
(* A parser p is a record: its tokens, the place of the current one, whether *)
(* an error was counted, the imports in the order met, and the node that the *)
(* last function returned.                                                   *)
(*****************************************************************************)
EXTENDS Tokenizer

Node(kind, at, text, flags, kids) ==
  [kind |-> kind, at |-> at, text |-> text, flags |-> flags, kids |-> kids]
Null == Node("null", 0, "", {}, <<>>)
Crash == Node("crash", 0, "", {}, <<>>)  \* a null pointer was followed
List(nodes) == Node("list", 0, "", {}, nodes)

Precedence(op) ==
  CASE op = "||" -> 1
    [] op = "&&" -> 2
    [] op = "|" -> 3
    [] op = "~" -> 4
    [] op = "&" -> 5
    [] op \in {"==", "!="} -> 6
    [] op \in {"<", "<=", ">", ">="} -> 7
    [] op \in {"<<", ">>"} -> 8
    [] op \in {"+", "-"} -> 9
    [] op \in {"*", "/", "%"} -> 10
    [] op \in {"as", "bitcast"} -> 11
    [] op \in {"!", "^"} -> 12
    [] op = "." -> 14
Assign == 0
Unary == 12
Special == 13
MemberAccess == 14

(* Left is 0 and Right is 1, and the number is added to the precedence that  *)
(* the right operand needs.                                                  *)
NoAssociativity(op) == 0  \* mutant
Associativity(op) == IF op \in {".", "!", "^"} THEN 1 ELSE 0
-------------------------------------------------------------------------------
End == [kind |-> "eof", text |-> "", at |-> 0, line |-> 0]
TokenAt(p, i) == IF i \in DOMAIN p.tokens THEN p.tokens[i] ELSE End
Current(p) == TokenAt(p, p.at)
Is(p, kind) == Current(p).kind = kind
IsOp(p, op) == Current(p).kind = "op" /\ Current(p).text = op
Here(p) == Current(p).at

Give(p, node) == [p EXCEPT !.node = node]
Fail(p) == [p EXCEPT !.node = Null, !.failed = TRUE]
Dies(p) == Give(p, Crash)

(* nextToken, with the macros expect, expectToken and expectEOF: what is to  *)
(* be done next is F.                                                        *)
Skip(p) == [p EXCEPT !.at = @ + 1]
Expect(ok, p, F(_)) == IF ok THEN F(p) ELSE Fail(p)
Advance(p, F(_)) == Expect(~Is(Skip(p), "eof"), Skip(p), F)
Take(p, kind, F(_)) == Expect(Is(p, kind), p, LAMBDA q : Advance(q, F))

(* After a call: a crash ends everything; only some callers look for null.   *)
After(p, F(_)) == IF p.node = Crash THEN p ELSE F(p)
Some(p, F(_)) == After(p, LAMBDA q : Expect(q.node # Null, q, F))
Follow(p, F(_)) == After(p, LAMBDA q : IF q.node = Null THEN Dies(q) ELSE F(q))
Same(p) == p

(* Elements up to the token end, with a comma after each that another one    *)
(* follows; in a strict list each is looked at for null.                     *)
Elements(p, end, strict, Element(_), F(_)) ==
  LET RECURSIVE Rest(_, _)
      Rest(q, nodes) ==
        IF Is(q, end) THEN F(Give(q, List(nodes)))
        ELSE After(Element(q), LAMBDA r :
               IF strict /\ r.node = Null THEN Fail(r)
               ELSE IF Is(r, ",")
               THEN Advance(r, LAMBDA s : Rest(s, Append(nodes, r.node)))
               ELSE F(Give(r, List(Append(nodes, r.node)))))
  IN Rest(p, <<>>)
-------------------------------------------------------------------------------
RECURSIVE parseExpr(_, _, _), parseStmt(_), parseStmtCompound(_)

(* out is the node that the designators and values belong to; a first        *)
(* element without a designator makes it a list.                             *)
parseSetter(p) ==
  Follow(parseExpr(p, Assign + 1, TRUE), LAMBDA q :
    IF ~Is(q, "=") THEN q
    ELSE Expect(q.node.kind = "name", q, LAMBDA r :
           Advance(r, LAMBDA s :
             After(parseExpr(s, Assign, TRUE), LAMBDA t :
               Give(t, Node("setter", q.node.at, q.node.text, {}, <<t.node>>))))))

parseInitializer(p) ==
  Take(p, "{", LAMBDA q :
    Elements(q, "}", TRUE, parseSetter, LAMBDA r :
      Take(r, "}", LAMBDA s :
        LET setters == r.node.kids
            flags == IF setters # <<>> /\ setters[1].kind # "setter"
                     THEN {"list"} ELSE {}
        IN Give(s, Node("initializer", Here(p), "", flags, <<p.node, r.node>>)))))

parseCall(p) ==
  Advance(p, LAMBDA q :
    Elements(q, ")", TRUE, LAMBDA r : parseExpr(r, Assign, TRUE), LAMBDA r :
      Take(r, ")", LAMBDA s :
        Give(s, Node("call", Here(p), "", {}, <<p.node, r.node>>)))))

parseIndex(p) ==
  Advance(p, LAMBDA q :
    After(parseExpr(q, Assign, TRUE), LAMBDA r :
      Take(r, "]", LAMBDA s :
        Give(s, Node("index", Here(p), "", {}, <<p.node, r.node>>)))))

parseRange(p) ==
  Advance(p, LAMBDA q :
    Some(parseExpr(q, Assign, FALSE), LAMBDA r :
      Give(r, Node("range", Here(p), "", {Current(p).kind}, <<p.node, r.node>>))))

parseOperator(p, init) ==
  LET op == Current(p).text
  IN Advance(p, LAMBDA q :
       Some(parseExpr(q, Precedence(op) + Associativity(op), init), LAMBDA r :
         Give(r, Node("operator", Here(p), op, {}, <<p.node, r.node>>))))

(* What follows an atom, p.node, as long as it binds as strongly as min.     *)
RECURSIVE parseRightSideExpr(_, _, _)
parseRightSideExpr(p, min, init) ==
  LET On(q) == Some(q, LAMBDA r : parseRightSideExpr(r, min, init))
  IN CASE Is(p, "(") /\ min <= Special -> On(parseCall(p))
       [] Is(p, "[") /\ min <= Special -> On(parseIndex(p))
       [] Is(p, "{") /\ init /\ min <= Special -> On(parseInitializer(p))
       [] Current(p).kind \in {"..<", "..="} /\ min <= Special -> On(parseRange(p))
       [] IsOp(p, "^") ->
            Advance(p, LAMBDA q :
              On(Give(q, Node("unary", Here(p), "^", {}, <<p.node>>))))
       [] Is(p, "op") /\ ~IsOp(p, "^") /\ min <= Precedence(Current(p).text) ->
            On(parseOperator(p, init))
       [] OTHER -> p
-------------------------------------------------------------------------------
(* p.node is a node made of the name; its kind is looked at first.           *)
parseFieldInitial(p, name, definition, type) ==
  LET Done(q, undefined, initial) ==
        Give(q, Node("field", name.at, name.text,
                     (IF definition THEN {"definition"} ELSE {})
                     \cup (IF undefined THEN {"undefined"} ELSE {}),
                     <<type, initial>>))
  IN IF ~definition /\ ~Is(p, "=") THEN Done(p, FALSE, Null)
     ELSE Advance(p, LAMBDA q :
       CASE definition /\ Is(q, "{") ->
              Follow(parseStmtCompound(q), LAMBDA r :
                Done(r, FALSE, [r.node EXCEPT !.kind = "namespace"]))
         [] Is(q, "---") -> Advance(q, LAMBDA r : Done(r, TRUE, Null))
         [] OTHER -> Some(parseExpr(q, Assign, TRUE), LAMBDA r :
                       Done(r, FALSE, r.node)))

parseField(p) ==
  LET name == p.node
  IN Take(p, ":", LAMBDA q :
       IF Current(q).kind \in {":", "="}
       THEN parseFieldInitial(q, name, Is(q, ":"), Null)
       ELSE LET const == Is(q, "const")
                Typed(r) ==
                  Some(parseExpr(r, Assign + 1, FALSE), LAMBDA t :
                    parseFieldInitial(t, name, const \/ Is(t, ":"), t.node))
            IN IF const THEN Advance(q, Typed) ELSE Typed(q))

(* The current token becomes a name, whatever it is.                         *)
NameNode(p) == Node("name", Here(p), Current(p).text, {}, <<>>)
parseNamedField(p) == Advance(Give(p, NameNode(p)), parseField)

(* The fields, or members, and the definitions of a record.  A field without *)
(* a comma has to be the last; a definition ends as a statement does.        *)
Ended(p, F(_)) ==
  IF Is(p, ";") THEN Advance(p, F)
  ELSE Expect(TokenAt(p, p.at - 1).kind = "}", p, F)

parseMember(p) ==
  IF ~Is(p, "=") THEN Give(p, [p.node EXCEPT !.kind = "member", !.kids = <<Null>>])
  ELSE Advance(p, LAMBDA q :
         After(parseExpr(q, Assign, TRUE), LAMBDA r :
           Give(r, [p.node EXCEPT !.kind = "member", !.kids = <<r.node>>])))

RECURSIVE parseRecord(_, _, _, _, _)
parseRecord(p, members, comma, fields, body) ==
  IF Is(p, "}") THEN Give(p, List(<<List(fields), List(body)>>))
  ELSE Advance(Give(p, NameNode(p)), LAMBDA q :
       LET Data(r) ==
             CASE ~comma -> Fail(r)
               [] comma /\ Is(r, ",") ->
                    Advance(r, LAMBDA s :
                      parseRecord(s, members, TRUE, Append(fields, r.node), body))
               [] comma /\ ~Is(r, ",") ->
                    parseRecord(r, members, FALSE, Append(fields, r.node), body)
           Definition(r) ==
             Ended(r, LAMBDA s :
               parseRecord(s, members, comma, fields, Append(body, r.node)))
       IN IF members /\ ~Is(q, ":")
          THEN IF comma THEN Some(parseMember(q), Data) ELSE Fail(q)
          ELSE Follow(parseField(q), LAMBDA r :
                 IF members \/ "definition" \in r.node.flags
                 THEN Definition(r) ELSE Data(r)))

parseStruct(p) ==
  Advance(p, LAMBDA q :
    Take(q, "{", LAMBDA r :
      Some(parseRecord(r, FALSE, TRUE, <<>>, <<>>), LAMBDA s :
        Give(Skip(s), Node("struct", Here(p), "", {}, s.node.kids)))))

parseEnumOrUnion(p) ==
  LET kind == Current(p).kind
      Body(q) ==
        Take(q, "{", LAMBDA r :
          Some(parseRecord(r, kind = "enum", TRUE, <<>>, <<>>), LAMBDA s :
            Give(Skip(s), Node(kind, Here(p), "", {}, <<q.node>> \o s.node.kids))))
  IN Advance(Give(p, Null), LAMBDA q :
       IF Is(q, "{") THEN Body(q)
       ELSE After(parseExpr(q, Assign, FALSE), Body))
-------------------------------------------------------------------------------
parseFunction(p) ==
  LET Body(q, parameters, type) ==
        LET function(body, flags) ==
              Node("fn", Here(p), "", flags, <<parameters, type, body>>)
        IN CASE Is(q, "{") -> Some(parseStmtCompound(q), LAMBDA r :
                                Give(r, function(r.node, {})))
             [] Is(q, "---") -> Advance(q, LAMBDA r :
                                  Give(r, function(Null, {"undefined"})))
             [] OTHER -> Give(q, function(Null, {}))
  IN Advance(p, LAMBDA q :
       Take(q, "(", LAMBDA r :
         Elements(r, ")", FALSE, parseNamedField, LAMBDA s :
           Take(s, ")", LAMBDA t :
             IF Current(t).kind \in {"{", "---", ";"} THEN Body(t, s.node, Null)
             ELSE Some(parseExpr(t, Assign, FALSE), LAMBDA u :
                    Body(u, s.node, u.node))))))

parseUnary(p, init) ==
  LET Operand(q, kind, flags) ==
        Some(parseExpr(q, Unary, init), LAMBDA r :
          Give(r, Node(kind, Here(p), Current(p).text, flags, <<r.node>>)))
  IN Advance(p, LAMBDA q :
       CASE IsOp(p, "^") /\ Is(q, "const") ->
              Advance(q, LAMBDA r : Operand(r, "pointer", {"const"}))
         [] IsOp(p, "^") /\ ~Is(q, "const") -> Operand(q, "pointer", {})
         [] OTHER -> Operand(q, "unary", {}))

parseSlice(p, init) ==
  LET Type(q, length, pointer) ==
        LET Element(r, const) ==
              After(parseExpr(r, MemberAccess, init), LAMBDA s :
                Give(s, Node("slice", Here(p), "", pointer \cup const,
                             <<length, s.node>>)))
        IN Take(q, "]", LAMBDA r :
             IF Is(r, "const") THEN Advance(r, LAMBDA s : Element(s, {"const"}))
             ELSE Element(r, {}))
  IN Advance(p, LAMBDA q :
       CASE IsOp(q, "*") -> Advance(q, LAMBDA r : Type(r, Null, {"pointer"}))
         [] Is(q, "]") -> Type(q, Null, {})
         [] OTHER -> After(parseExpr(q, Assign, TRUE), LAMBDA r :
                       Type(r, r.node, {})))

parseImport(p) ==
  Advance(p, LAMBDA q :
    Expect(Is(q, "string"), q, LAMBDA r :
      LET node == Node("import", Here(p), Current(q).text, {}, <<>>)
      IN Advance(q, LAMBDA s :
           Give([s EXCEPT !.imports = Append(@, node)], node))))

parseComptime(p, init) ==
  Advance(p, LAMBDA q :
    Follow(parseExpr(q, Special, init), LAMBDA r :
      Give(r, IF r.node.kind = "fn"
              THEN [r.node EXCEPT !.flags = @ \cup {"comptime"}]
              ELSE Node("comptime", Here(p), "", {}, <<r.node>>))))

(* A token that begins no expression is left where it is, and the node is    *)
(* empty, without an error.                                                  *)
Atom(p, init) ==
  LET kind == Current(p).kind
      Literal(node) == Give(Skip(p), Node(node, Here(p), Current(p).text, {}, <<>>))
  IN CASE kind = "op" -> parseUnary(p, init)
       [] kind \in {"name", "integer", "float", "string"} -> Literal(kind)
       [] kind = "char" -> Literal("integer")
       [] kind = "fn" -> parseFunction(p)
       [] kind = "struct" -> parseStruct(p)
       [] kind \in {"enum", "union"} -> parseEnumOrUnion(p)
       [] kind = "import" -> parseImport(p)
       [] kind = "comptime" -> parseComptime(p, init)
       [] kind = "const" -> Fail(Skip(p))
       [] kind = "[" -> parseSlice(p, init)
       [] OTHER -> Give(p, Node("empty", Here(p), "", {}, <<>>))

parseExpr(p, min, init) ==
  LET Right(q) == Some(parseRightSideExpr(q, min, init), Same)
  IN IF Is(p, "(")
     THEN Advance(p, LAMBDA q :
            After(parseExpr(q, Assign, TRUE), LAMBDA r : Take(r, ")", Right)))
     ELSE Some(Atom(p, init), Right)
-------------------------------------------------------------------------------
Comments(p) ==
  LET first == CHOOSE i \in p.at .. Len(p.tokens) + 1 :
                 /\ TokenAt(p, i).kind # "comment"
                 /\ \A j \in p.at .. i - 1 : TokenAt(p, j).kind = "comment"
  IN [p EXCEPT !.at = first,
               !.failed = @ \/ (first > p.at /\ TokenAt(p, first).kind = "eof")]

parseAssignExpr(p) ==
  LET op == IF Is(p, "=") THEN "=" ELSE Current(p).text
  IN Advance(p, LAMBDA q :
       Follow(parseExpr(q, Assign, TRUE), LAMBDA r :
         Give(r, Node("assignment", Here(p), op, {}, <<p.node, r.node>>))))
MaybeAssign(p) ==
  IF Current(p).kind \in {"=", "assignment"} THEN parseAssignExpr(p) ELSE p

parseConditional(p) ==
  IF ~Is(p, "name") THEN parseExpr(p, Assign, FALSE)
  ELSE Advance(Give(p, NameNode(p)), LAMBDA q :
         IF ~Is(q, "in") THEN parseRightSideExpr(q, Assign, FALSE)
         ELSE Advance(q, LAMBDA r :
                After(parseExpr(r, Assign + 1, FALSE), LAMBDA s :
                  Give(s, Node("in", q.node.at, q.node.text, {}, <<s.node>>)))))

parseAttribute(p) ==
  LET Element(q) ==
        Expect(Is(q, "name"), q, LAMBDA r :
          Advance(Give(r, Node("member", Here(r), Current(r).text, {}, <<Null>>)), LAMBDA s :
            IF Is(s, "=")
            THEN Advance(s, LAMBDA t : After(parseExpr(t, Assign, TRUE), LAMBDA u :
                   Give(u, [s.node EXCEPT !.kids = <<u.node>>])))
            ELSE s))
  IN Advance(p, LAMBDA q :
       Take(q, "(", LAMBDA r :
         Elements(r, ")", TRUE, Element, LAMBDA s :
           Expect(Is(s, ")"), s, Skip))))

parseNameStmt(p) ==
  Advance(Give(p, NameNode(p)), LAMBDA q :
    IF Is(q, ":") THEN parseField(q)
    ELSE After(parseRightSideExpr(q, Assign, TRUE), MaybeAssign))

parseReturn(p) ==
  Advance(Give(p, Null), LAMBDA q :
    LET Child(r) == Give(r, Node("return", Here(p), "", {}, <<r.node>>))
    IN IF Is(q, ";") THEN Child(q) ELSE After(parseExpr(q, Assign, TRUE), Child))

(* The body of an if, a for; F gets the conditional in the list before it.   *)
ConditionAndBody(p, F(_)) ==
  Advance(p, LAMBDA q :
    After(parseConditional(q), LAMBDA r :
      Expect(Is(r, "{"), r, LAMBDA s :
        After(parseStmtCompound(s), LAMBDA t :
          F(Give(t, List(<<r.node, t.node>>)))))))

(* Nothing is counted when the else belongs to neither.                      *)
parseIf(p) ==
  ConditionAndBody(p, LAMBDA q :
    LET If(r, else) == Give(r, Node("if", Here(p), "", {}, Append(q.node.kids, else)))
    IN IF ~Is(q, "else") THEN If(q, Null)
       ELSE Advance(q, LAMBDA r :
              CASE Is(r, "if") -> After(parseStmt(r), LAMBDA s : If(s, s.node))
                [] Is(r, "{") -> After(parseStmtCompound(r), LAMBDA s : If(s, s.node))
                [] OTHER -> Give(r, Null)))

parseFor(p) ==
  ConditionAndBody(p, LAMBDA q : Give(q, Node("for", Here(p), "", {}, q.node.kids)))

RECURSIVE parseCases(_, _)
parseCases(p, cases) ==
  IF Is(p, "}") THEN Give(Skip(p), List(cases))
  ELSE After(parseExpr(p, Assign, TRUE), LAMBDA q :
         Take(q, "=>", LAMBDA r :
           After(parseStmtCompound(r), LAMBDA s :
             parseCases(s, Append(cases, Node("case", Here(q), "", {},
                                              <<q.node, s.node>>))))))

parseSwitch(p) ==
  Advance(p, LAMBDA q :
    After(parseExpr(q, Assign, FALSE), LAMBDA r :
      Take(r, "{", LAMBDA s :
        Some(parseCases(s, <<>>), LAMBDA t :
          Give(t, Node("switch", Here(p), "", {}, <<r.node, t.node>>))))))

parseDefer(p) ==
  Advance(p, LAMBDA q :
    After(parseStmt(q), LAMBDA r :
      Give(r, Node("defer", Here(p), "", {}, <<r.node>>))))

parseComptimeStmt(p) ==
  Advance(p, LAMBDA q :
    Follow(parseStmt(q), LAMBDA r :
      IF r.node.kind # "field" THEN Give(r, Node("comptime", Here(p), "", {}, <<r.node>>))
      ELSE Expect(r.node.kids[2] # Null, r, LAMBDA s :
             Give(s, [s.node EXCEPT !.flags = @ \cup {"comptime"}]))))

(* Instructions: a name, and operands up to the semicolon.                   *)
parseOperand(p) ==
  LET Operand(q, kind) ==
        IF IsOp(q, "%")
        THEN Advance(q, LAMBDA r : Advance(r, LAMBDA s :
               Give(s, Node("register", Here(r), Current(r).text, {}, <<>>))))
        ELSE After(parseExpr(q, Assign, TRUE), LAMBDA r :
               Give(r, Node(kind, Here(p), "", {}, <<r.node>>)))
  IN IF Is(p, "=") THEN Advance(p, LAMBDA q : Operand(q, "result"))
     ELSE Operand(p, "input")

RECURSIVE parseInstructions(_, _)
parseInstructions(p, instructions) ==
  IF Is(p, "}") THEN Advance(Give(p, List(instructions)), Same)
  ELSE Expect(Is(p, "name"), p, LAMBDA q :
         Advance(q, LAMBDA r :
           Elements(r, ";", TRUE, parseOperand, LAMBDA s :
             Take(s, ";", LAMBDA t :
               parseInstructions(t, Append(instructions,
                 Node("instruction", Here(p), Current(p).text, {}, s.node.kids)))))))

parseAssembly(p) ==
  Advance(p, LAMBDA q :
    Take(q, "{", LAMBDA r :
      Some(parseInstructions(r, <<>>), LAMBDA s :
        Give(s, Node("asm", Here(p), "", {}, s.node.kids)))))

parseAttributed(p) ==
  Some(parseAttribute(p), LAMBDA q :
    Some(parseStmt(q), LAMBDA r :
      Give(r, IF r.node.kind = "field"
              THEN [r.node EXCEPT !.flags = @ \cup {"attributed"}] ELSE r.node)))

(* Any other token begins no statement: null, and nothing is counted.        *)
StmtAt(p) ==
  LET kind == Current(p).kind
  IN CASE kind = "name" -> parseNameStmt(p)
       [] kind \in {"(", "op"} -> After(parseExpr(p, Assign, TRUE), MaybeAssign)
       [] kind = "return" -> parseReturn(p)
       [] kind = "if" -> parseIf(p)
       [] kind = "for" -> parseFor(p)
       [] kind = "switch" -> parseSwitch(p)
       [] kind \in {"break", "continue"} ->
            Advance(Give(p, Node(kind, Here(p), "", {}, <<>>)), Same)
       [] kind = "defer" -> parseDefer(p)
       [] kind = "comptime" -> parseComptimeStmt(p)
       [] kind = "asm" -> parseAssembly(p)
       [] kind = "{" -> Follow(parseStmtCompound(p), LAMBDA q :
                          Give(q, [q.node EXCEPT !.kind = "block"]))
       [] kind = "@" -> parseAttributed(p)
       [] OTHER -> Give(p, Null)

(* A statement ends with a semicolon or a brace; if it does not, a message   *)
(* is printed but not counted.  A comment on its line belongs to it.         *)
parseStmt(p) ==
  After(StmtAt(Comments(p)), LAMBDA q :
    LET Previous(r) == TokenAt(r, r.at - 1)
        Commented(r) ==
          IF Is(r, "comment") /\ Current(r).line = Previous(r).line
          THEN Comments(r) ELSE r
    IN CASE q.node = Null -> q
         [] q.node # Null /\ Is(q, ";") -> Commented(Skip(q))
         [] q.node # Null /\ ~Is(q, ";") /\ Previous(q).kind \in {";", "}"} -> Commented(q)
         [] OTHER -> Give(q, Null))

(* Up to the first statement that is null, whatever follows it.              *)
RECURSIVE parseStmts(_, _, _)
parseStmts(p, at, children) ==
  After(parseStmt(p), LAMBDA q :
    IF q.node # Null THEN parseStmts(q, at, Append(children, q.node))
    ELSE Give(IF Is(q, "}") THEN Skip(q) ELSE q,
              Node("compound", at, "", {}, children)))

parseStmtCompound(p) ==
  IF Is(p, "{") THEN Advance(p, LAMBDA q : parseStmts(q, Here(p), <<>>))
  ELSE parseStmts(p, Here(p), <<>>)

(* An empty file has no tree.                                                *)
parse(source) ==
  LET p == [tokens |-> Tokens(source), at |-> 1, failed |-> FALSE,
            imports |-> <<>>, node |-> Null]
      end == IF Is(p, "eof") THEN p ELSE parseStmtCompound(p)
  IN IF \E i \in 1 .. end.at : TokenAt(end, i).kind = "hang" THEN Dies(end) ELSE end

===============================================================================
