------------------------------ MODULE MCAnalyser ------------------------------
(* Families of small programs for the analysis of declarations.              *)
EXTENDS AnalyserProperties

CONSTANTS f, m, S, g, m1, m2, NoFunction

MCDecl == {f, m, S, g}
MCModule == {m1, m2}

Value(d) == [to |-> d, how |-> "value"]
Layout(d) == [to |-> d, how |-> "layout"]
Use(d) == [to |-> d, how |-> "analyse"]
Visit(d) == [to |-> d, how |-> "visit"]

(* The sequences of at most one item of a set.                               *)
Optional(items) == {<<>>} \cup {<<item>> : item \in items}

(* The definitions that no scope owns: those of the modules, written down in *)
(* one order or the other.                                                   *)
Rooted(order, body) ==
  SelectSeq(order, LAMBDA d : d \notin {item.to : item \in Range(body)})
Orders == {<<f, S, g, m>>, <<m, g, S, f>>}

NoFault == [d \in MCDecl |-> "none"]
Fault(d, phase) == [NoFault EXCEPT ![d] = phase]

(* The module of g: that of the record S if S owns it.                       *)
ModuleOf(body) == f :> m1 @@ m :> m2 @@ S :> m2
                  @@ g :> IF body = <<Visit(g)>> THEN m2 ELSE m1

(* A request for what the record owns goes through the record.               *)
Through(sb, d, request) ==
  IF \E item \in Range(request) : item.to # d /\ Visit(item.to) \in Range(sb)
    THEN <<Value(S)>> \o request ELSE request
Qualified(sb, agendas) ==
  [d \in MCDecl |-> IF d = S THEN agendas[d] ELSE Through(sb, d, agendas[d])]

(* Two functions, a record, and a global or an alias.  The record may own    *)
(* the second function or the global.  The first function has a parameter,   *)
(* the second one too or a size; the field of the record may have a length   *)
(* given by the global; the bodies call, load, or evaluate.                  *)
CoreFamily ==
  { [kind |-> (f :> "Function" @@ m :> "Function" @@ S :> "Record" @@ g :> kind),
     mod |-> ModuleOf(sb),
     sig |-> Qualified(sb, f :> fs @@ m :> ms @@ S :> ss @@ g :> gs),
     body |-> Qualified(sb, f :> fb @@ m :> mb @@ S :> sb @@ g :> <<>>),
     fault |-> NoFault,
     roots |-> Rooted(order, sb)] :
    order \in Orders, kind \in {"GlobalVariable", "Alias"},
    fs \in Optional({Value(S), Value(g)}),
    ms \in Optional({Value(S), Layout(S)}),
    ss \in Optional({Value(g)}),
    gs \in Optional({Value(g), Value(S), Layout(S)}),
    fb \in Optional({Use(m), Use(g), Layout(S)}),
    mb \in Optional({Use(f), Use(g), Value(g)}),
    sb \in Optional({Visit(m), Visit(g)}) }

(* Type errors, extern and comptime functions, and namespaces.               *)
FaultyFamily ==
  { p \in
    { [kind |-> (f :> "Function" @@ m :> mk @@ S :> sk @@ g :> "GlobalVariable"),
       mod |-> ModuleOf(sb),
       sig |-> Qualified(sb, f :> fs @@ m :> ms @@ S :> ss @@ g :> gs),
       body |-> Qualified(sb, f :> fb @@ m :> mb @@ S :> sb @@ g :> <<>>),
       fault |-> fault,
       roots |-> Rooted(order, sb)] :
      order \in Orders, mk \in {"Function", "Extern", "ComptimeFunction"},
      sk \in {"Record", "Namespace"},
      fs \in Optional({Value(S), Value(g)}), ms \in Optional({Value(g)}),
      ss \in Optional({Value(g)}), gs \in Optional({Value(S)}),
      fb \in Optional({Use(m), Use(g)}), mb \in Optional({Use(f)}),
      sb \in Optional({Visit(m), Visit(g)}),
      fault \in {NoFault, Fault(f, "sig"), Fault(f, "body"), Fault(m, "sig"),
                 Fault(m, "body"), Fault(S, "sig"), Fault(g, "sig")} } :
    WellFormed(p) }

(* Two records, one with a method that reads a field of the other, which has *)
(* a field of the type of the first.                                         *)
RecordFamily ==
  { [kind |-> (f :> "Function" @@ m :> "Function" @@ S :> "Record"
               @@ g :> "Record"),
     mod |-> [d \in MCDecl |-> m1],
     sig |-> (f :> fs @@ m :> <<Value(S)>> @@ S :> <<Value(g)>> @@ g :> gs),
     body |-> (f :> <<>> @@ m :> <<Layout(S)>> @@ S :> <<>> @@ g :> <<Visit(m)>>),
     fault |-> NoFault,
     roots |-> Rooted(order, <<Visit(m)>>)] :
    order \in Orders, fs \in Optional({Value(g), Layout(g)}),
    gs \in Optional({Value(g), Value(S)}) }

===============================================================================
