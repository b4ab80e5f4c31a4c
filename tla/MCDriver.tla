------------------------------- MODULE MCDriver -------------------------------
(* The driver with the parser and the symbols in it, on programs that show   *)
(* every operator next to every other, every statement, every declaration,   *)
(* names declared at every kind of place; and on files that import others.   *)
EXTENDS Driver, Grammar, Symbols, Scoping, TLC
LOCAL INSTANCE SequencesExt

-------------------------------------------------------------------------------
(* Trees.                                                                    *)
Ident(x) == Of("name", x, {}, <<>>)
One == Of("integer", "1", {}, <<>>)
Bin(op, a, b) == Of("operator", op, {}, <<a, b>>)
Un(op, a) == Of("unary", op, {}, <<a>>)
Compound(nodes) == Of("compound", "", {}, nodes)
Block(nodes) == Of("block", "", {}, nodes)
Call(f, arguments) == Of("call", "", {}, <<f, List(arguments)>>)
Let(name, type, initial) == Of("field", name, {}, <<type, initial>>)
Def(name, initial) == Of("field", name, {"definition"}, <<Null, initial>>)
Var(name, initial) == Let(name, Ident("int"), initial)
Fn(parameters, type, body) == Of("fn", "", {}, <<List(parameters), type, Compound(body)>>)
Set(op, a, b) == Of("assignment", op, {}, <<a, b>>)
If(condition, then, else) == Of("if", "", {}, <<condition, Compound(then), else>>)
For(condition, body) == Of("for", "", {}, <<condition, Compound(body)>>)
In(name, range) == Of("in", name, {}, <<range>>)
Upto(a, b) == Of("range", "", {"..<"}, <<a, b>>)
Defer(stmt) == Of("defer", "", {}, <<stmt>>)
Return(value) == Of("return", "", {}, <<value>>)
Arm(value, body) == Of("case", "", {}, <<value, Compound(body)>>)
Switch(value, cases) == Of("switch", "", {}, <<value, List(cases)>>)
Namespace(body) == Of("namespace", "", {}, body)
Struct(fields, body) == Of("struct", "", {}, <<List(fields), List(body)>>)
Import(text) == Of("import", text, {}, <<>>)
Member(name, value) == Of("member", name, {}, <<value>>)

a == Ident("a")
b == Ident("b")
c == Ident("c")
InMain(body) == Compound(<<Def("main", Fn(<<Let("a", Ident("int"), Null)>>, Ident("int"), body))>>)

BinaryOperators ==
  <<"||", "&&", "|", "&", "==", "!=", "<", "<=", ">", ">=", "<<", ">>",
    "+", "-", "*", "/", "%", "as", "bitcast", ".">>
OperatorTrees ==
  {InMain(FlattenSeq([i \in 1 .. 4 |->
     LET other == BinaryOperators[4 * part + i]
     IN <<Set("=", a, Bin(op, Bin(other, a, b), c)), Set("=", a, Bin(op, a, Bin(other, b, c)))>>]))
   : op \in Range(BinaryOperators), part \in 0 .. 4}

Operands ==
  <<Un("-", a), Un("!", b), Un("&", a), Un("^", a), Un("-", Un("-", a)),
    Of("pointer", "^", {}, <<a>>), Of("pointer", "^", {"const"}, <<b>>),
    Of("slice", "", {}, <<Null, a>>), Of("slice", "", {"const"}, <<Null, a>>),
    Of("slice", "", {"pointer"}, <<Null, b>>), Of("slice", "", {}, <<One, b>>),
    Call(a, <<>>), Call(a, <<b, Bin("+", a, One)>>), Call(Bin(".", a, b), <<c>>),
    Of("index", "", {}, <<a, Bin("-", b, One)>>),
    Of("initializer", "", {}, <<a, List(<<Of("setter", "x", {}, <<b>>)>>)>>),
    Of("initializer", "", {"list"}, <<a, List(<<b, One>>)>>),
    Of("comptime", "", {}, <<a>>), Of("string", "text", {}, <<>>),
    Of("float", "1.2", {}, <<>>)>>
OperandTrees ==
  {InMain(<<Set("=", a, operand), Set("+", a, Bin("+", operand, c)), Set("<<", a, Bin("*", c, operand)),
            Return(Call(a, <<operand, operand>>))>>) : operand \in Range(Operands)}
  \cup {InMain(<<Set("=", a, Call(Un("^", a), <<>>)),
                 Set("=", a, Of("index", "", {}, <<Call(a, <<b>>), One>>)),
                 Set("=", a, Un("^", Of("index", "", {}, <<a, One>>))),
                 Set("=", a, Of("slice", "", {}, <<Bin("*", One, b), Of("slice", "", {}, <<Null, c>>)>>))>>)}
-------------------------------------------------------------------------------
StatementTrees ==
  {InMain(<<If(Bin("==", a, One), <<Var("x", a)>>, Null), Set("=", a, b)>>),
   InMain(<<If(a, <<Var("x", a)>>, Compound(<<Var("x", b), Set("=", Ident("x"), a)>>)), Var("x", a)>>),
   InMain(<<If(a, <<Return(a)>>, If(b, <<Return(b)>>, Compound(<<Return(Null)>>)))>>),
   InMain(<<For(Bin("<", a, One), <<Set("+", a, One), Of("break", "", {}, <<>>)>>)>>),
   InMain(<<For(In("i", Upto(a, b)), <<Set("=", Ident("i"), a), Of("continue", "", {}, <<>>)>>), Set("=", a, Ident("i"))>>),
   InMain(<<Switch(a, <<Arm(One, <<Var("x", One)>>), Arm(Bin(".", b, c), <<Return(Ident("x"))>>)>>)>>),
   InMain(<<Defer(Call(a, <<>>)), Block(<<Defer(Set("=", a, One)), Var("x", a)>>), Return(Ident("x"))>>),
   InMain(<<Of("comptime", "", {}, <<Call(a, <<>>)>>), Of("asm", "", {}, <<
      Of("instruction", "mov", {}, <<Of("register", "rax", {}, <<>>), Of("input", "", {}, <<One>>)>>),
      Of("instruction", "int", {}, <<Of("result", "", {}, <<One>>)>>)>>)>>),
   InMain(<<[Var("x", a) EXCEPT !.flags = {"comptime"}], [Let("y", a, Null) EXCEPT !.flags = {"undefined"}]>>)}

DeclarationTrees ==
  {Compound(<<Def("f", Fn(<<>>, Null, <<Call(Ident("g"), <<>>)>>)), Def("g", Fn(<<>>, Null, <<Call(Ident("f"), <<>>)>>)),
              Let("v", Ident("g"), Null), [Def("w", One) EXCEPT !.flags = @ \cup {"attributed"}]>>),
   Compound(<<Def("n", Namespace(<<Def("f", Fn(<<>>, Null, <<Return(Ident("v"))>>)), Def("v", One)>>)), Def("v", Bin(".", Ident("n"), Ident("v")))>>),
   Compound(<<Def("s", Struct(<<Var("x", Null), Let("y", Ident("t"), One)>>,
                <<Def("f", Fn(<<Let("p", Of("pointer", "^", {}, <<Ident("s")>>), Null)>>, Ident("t"), <<Return(Ident("q"))>>)), Def("q", One)>>)),
              Def("t", Struct(<<>>, <<>>))>>),
   Compound(<<Def("e", Of("enum", "", {}, <<Ident("t"), List(<<Member("x", Null), Member("y", One)>>), List(<<Def("k", Ident("e"))>>)>>)),
              Def("u", Of("union", "", {}, <<Null, List(<<Let("x", Ident("t"), Null)>>), List(<<>>)>>)), Def("t", Ident("int"))>>),
   Compound(<<Def("f", [Fn(<<>>, Null, <<>>) EXCEPT !.flags = {"comptime"}]), Def("x", Of("fn", "", {"undefined"}, <<List(<<>>), Ident("int"), Null>>))>>)}

(* The same names again and again, at different depths and in both orders.   *)
Nested(inner) ==
  {<<Var("x", One)>> \o inner \o <<Set("=", Ident("x"), a)>>,
   inner \o <<Var("x", One), Set("=", Ident("x"), a)>>,
   <<If(Ident("x"), inner, Compound(inner)), Set("=", Ident("x"), a)>>,
   <<For(In("x", Upto(Ident("x"), b)), inner), Set("=", Ident("x"), a)>>,
   <<Block(<<Set("=", Ident("x"), b)>> \o inner), Set("=", Ident("x"), a)>>,
   <<Defer(Set("=", Ident("x"), a)), Var("x", One), Block(inner)>>,
   <<Var("x", One), Defer(Set("=", Ident("x"), a)), Switch(Ident("x"), <<Arm(Ident("x"), inner)>>)>>,
   <<Var("f", Fn(<<Let("x", Ident("int"), Null)>>, Null, inner)), Set("=", Ident("x"), a)>>}
ScopeTrees ==
  {Compound(<<Def("main", Fn(<<Let("a", Ident("x"), Null)>>, Ident("int"), body)), Def("x", Ident("a"))>>) :
     body \in UNION {Nested(inner) : inner \in UNION {Nested(inmost) :
       inmost \in {<<Set("=", a, Ident("x"))>>, <<Set("=", a, Ident("x")), Var("x", a), Return(Ident("x"))>>}}}}
-------------------------------------------------------------------------------
app == <<"app">>
lib == <<"lib">>
x == <<"x">>
Path(names) == [package |-> "", names |-> names]
MCSpelled ==
  "main" :> Path(<<app, <<"main">>>>) @@ "other" :> Path(<<app, x>>)
  @@ "again" :> Path(<<app, lib, Up, x>>) @@ "x" :> Path(<<x>>) @@ "y" :> Path(<<<<"y">>>>)
  @@ "lib/x" :> Path(<<lib, x>>) @@ "../main" :> Path(<<Up, <<"main">>>>)
  @@ "z" :> Path(<<<<"z">>>>) @@ "../app/y" :> Path(<<Up, app, <<"y">>>>)
  @@ "missing" :> Path(<<<<"missing">>>>)
  @@ "lib:x" :> [package |-> "lib", names |-> <<x>>]
  @@ "lib=app/lib" :> [package |-> "lib", names |-> <<app, lib>>]
  @@ "all=app" :> [package |-> "all", names |-> <<app>>]
  @@ "lib=missing" :> [package |-> "lib", names |-> <<<<"missing">>>>]

JobOf(argv, trees, spacious, sources, old) ==
  [argv |-> argv, trees |-> trees, old |-> old,
   sources |-> sources @@ [path \in DOMAIN trees |-> Source(trees[path], spacious)]]
NoFiles == [path \in {} |-> <<>>]

Main == <<app, <<"main">>>>
Trees == OperatorTrees \cup OperandTrees \cup StatementTrees \cup DeclarationTrees \cup ScopeTrees
TreeJobs ==
  {JobOf(<<"main", "--emit", "uir">>, Main :> tree, spacious, NoFiles, "none") :
     tree \in Trees, spacious \in BOOLEAN}

(* Files that import one another, each under several names; the file x is    *)
(* another one in another directory.                                         *)
Importing(texts) ==
  Compound([i \in DOMAIN texts |-> Def(<<"p", "q", "r", "s">>[i], Import(texts[i]))])
Imports ==
  {Main :> Importing(<<"x", "lib/x", "x">>) @@ <<app, x>> :> Importing(<<"main">>)
     @@ <<app, lib, x>> :> Importing(<<"x", "../main", "y">>) @@ <<app, lib, <<"y">>>> :> Importing(<<"x">>),
   Main :> Importing(<<"lib/x", "x">>) @@ <<app, x>> :> Importing(<<"lib:x", "x">>)
     @@ <<app, lib, x>> :> Importing(<<"../main", "x">>) @@ <<app, <<"lib", "rary">>, x>> :> Importing(<<"x">>),
   Main :> Importing(<<"x", "y">>) @@ <<app, x>> :> Importing(<<"missing">>) @@ <<app, <<"y">>>> :> Importing(<<"x">>),
   Main :> Importing(<<"x", "y">>) @@ <<app, x>> :> Importing(<<"lib/x", "../app/y">>)
     @@ <<app, <<"y">>>> :> Importing(<<"x">>) @@ <<app, lib, x>> :> Importing(<<"y">>)
     @@ <<app, lib, <<"y">>>> :> Importing(<<"../main", "z">>)
     @@ <<app, lib, <<"z">>>> :> Importing(<<"x">>)}
CommandLines ==
  {<<"main">>, <<"main", "--run">>, <<"-e", "ast", "main">>, <<"-e", "uir", "main">>,
   <<"main", "-e", "rir">>, <<"main", "-e", "llvm", "-r">>, <<"main", "other">>, <<"other", "again", "main">>,
   <<"main", "--package", "lib=app/lib">>, <<"--package", "lib=app/lib", "main", "--package", "all=app">>}
ImportJobs ==
  {JobOf(argv, trees, TRUE, NoFiles, "old") : argv \in CommandLines, trees \in Imports}

(* What ends a run early.                                                    *)
Sources ==
  {Main :> <<>>, Main :> <<"main", ":">>, Main :> <<"main", ":", ":", "1", "2", ";">>,
   Main :> <<"main", ":", ":", "import", "\"", "x", "\"", ";">> @@ <<app, x>> :> <<"x", ":", "1", "}">>}
EarlyJobs ==
  {JobOf(argv, NoFiles, TRUE, sources, "none") :
     argv \in {<<"main">>, <<"main", "--emit", "ast">>, <<"main", "-o", "all">>, <<"main", "--emit">>,
               <<"--run">>, <<"--version", "main">>, <<"--package", "lib=missing", "main">>, <<"main", "-r">>,
               <<"missing">>, <<"main", "--linker", "gold", "-o", "none", "--output", "b", "--target", "t">>},
     sources \in Sources}

MCJobs == TreeJobs \cup ImportJobs \cup EarlyJobs

(* Tables: every source is parsed once.                                      *)
ParseTable ==
  [source \in UNION {Range(j.sources) : j \in MCJobs} |->
     LET p == parse(source)
     IN [node |-> p.node, failed |-> p.failed, imports |-> p.imports]]
SymbolTable ==
  [tree \in {parsed.node : parsed \in Range(ParseTable)} |-> SymbolsOf(tree)]
MCParse(source) == LET parsed == ParseTable[source] IN parsed
MCSymbolize(tree) == LET symbols == SymbolTable[tree] IN symbols
-------------------------------------------------------------------------------
(* A file is parsed to the tree it was written from, with and without spaces *)
(* (tokenizer.cpp:287-550, parser.cpp:96-1083): operators bind and associate *)
(* as the writer of Grammar assumes.                                         *)
TreesAsWritten ==
  phase = "imports" /\ import_idx = 1 /\ list[file_idx].path \in DOMAIN job.trees =>
    errors = {} /\ Unplaced(list[file_idx].ast) = job.trees[list[file_idx].path]

Declaration(symbols, s) == IF s = 0 THEN 0 ELSE symbols[s].node[2]
JustLoaded == phase = "imports" /\ import_idx = 1 /\ errors = {}

(* What the names in a node stand for, if it is generated in scope s.        *)
Stands(file, node, s) ==
  {LET found == findSymbol(file.symbols, use.scope, use.name, use.at)
   IN <<use.at, IF found = 0 THEN 0 ELSE file.symbols[found].node[2]>> :
     use \in usesIn(node, s, file.symbols)}

(* Each name stands for the declaration that the rules of scopes say         *)
(* (symbolize.cpp:6-246, symbol.hpp:17-57, with the scopes that uirgen.cpp   *)
(* and flow.cpp pass on), in a file whose scopes have no name twice: the     *)
(* parameters of a function, and the name of a loop, are in one scope with   *)
(* the declarations of the body.                                             *)
NoneTwice(symbols) ==
  \A s, t \in DOMAIN symbols :
    s # t /\ symbols[s].name # "" /\ symbols[s].parent = symbols[t].parent =>
      symbols[s].name # symbols[t].name
NamesResolve ==
  JustLoaded /\ NoneTwice(list[file_idx].symbols) =>
    LET file == list[file_idx]
    IN Stands(file, file.ast, 1) = FileMeaning(file.ast)

(* A deferred statement is generated in the scope of the exit (uirgen.cpp:   *)
(* 517, 596-604), and its names stand for what they would stand for in its   *)
(* own: what is declared between them does not get in the way.               *)
DeferredNamesStay ==
  JustLoaded =>
    LET file == list[file_idx]
    IN \A deferred \in deferredIn(file.ast, 1, file.symbols) :
         \A exit \in deferred.exits :
           Stands(file, deferred.node, exit) = Stands(file, deferred.node, deferred.scope)

===============================================================================
