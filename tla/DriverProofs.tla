----------------------------- MODULE DriverProofs -----------------------------
(*****************************************************************************)
(* That errors stop the driver, that it loads every file once, leads each    *)
(* import to its file and links what it generated, for any parser,           *)
(* symbolizer, files and command lines, and however the list of files moves  *)
(* in memory.                                                                *)
(*****************************************************************************)
EXTENDS Driver, NumbersAndLists, TLAPS

(* The property speaks of steps that begin with an error counted.  What the  *)
(* phases say of the errors, and what was made until then, is an invariant.  *)
ErrorsPhases == {"load", "imports", "uirgen", "exited", "crashed"}
EarlyPhases == {"arguments", "load", "imports", "uirgen", "analysis"}

(* An error was counted only where errors are still looked for, or the run   *)
(* has ended.                                                                *)
ErrorsSeen == errors # {} => phase \in ErrorsPhases

(* Before the back end nothing is generated and nothing linked.              *)
NothingMade == phase \in EarlyPhases => outputs = <<>> /\ executable = job.old

Inv == ErrorsSeen /\ NothingMade

Step == errors # {} /\ phase' # phase =>
          /\ phase' \in {"load", "imports", "exited", "crashed"}
          /\ phase' = "exited" => status' = 1 /\ outputs' = <<>> /\ executable' = job.old
-------------------------------------------------------------------------------
(* The ways to end a run, and the gate between two passes, keep what was     *)
(* made; the gate goes on only without an error.                             *)
LEMMA CrashKeeps == ASSUME Crashes PROVE Inv' /\ Step
<1>1. phase' = "crashed"
  BY DEF Crashes
<1> QED
  BY <1>1 DEF Inv, ErrorsSeen, NothingMade, ErrorsPhases, EarlyPhases, Step

LEMMA GateKeeps ==
  ASSUME Inv, phase \in EarlyPhases,
         NEW mode, NEW print, NEW next, next \in {"uirgen", "analysis", "codegen"},
         Gate(mode, print, next)
  PROVE  Inv' /\ Step
<1>1. CASE errors # {}
  BY <1>1 DEF Gate, Exits, worklist, position, Inv, ErrorsSeen, NothingMade, ErrorsPhases, EarlyPhases, Step
<1>2. CASE errors = {} /\ args.emit = mode
  BY <1>2 DEF Gate, Exits, worklist, position, Inv, ErrorsSeen, NothingMade, ErrorsPhases, EarlyPhases, Step
<1>3. CASE errors = {} /\ args.emit # mode
  <2>1. phase' = next /\ UNCHANGED <<job, errors, results>>
    BY <1>3 DEF Gate, worklist, results
  <2> QED
    BY <1>3, <2>1 DEF results, Inv, ErrorsSeen, NothingMade, ErrorsPhases, EarlyPhases, Step
<1> QED
  BY <1>1, <1>2, <1>3

LEMMA CommandLineKeeps ==
  ASSUME Inv, ReadOption \/ ReadValue \/ FinishArguments PROVE Inv' /\ Step
<1>1. phase = "arguments" /\ errors = {} /\ outputs = <<>> /\ executable = job.old
  BY DEF ReadOption, ReadValue, FinishArguments, Inv, ErrorsSeen, NothingMade,
         ErrorsPhases, EarlyPhases
<1>2. errors' = {} /\ outputs' = <<>> /\ executable' = job.old /\ job' = job
  BY <1>1 DEF ReadOption, ReadValue, FinishArguments, Exits, Takes, Crashes, results
<1> QED
  BY <1>1, <1>2 DEF Inv, ErrorsSeen, NothingMade, Step

LEMMA WorklistKeeps ==
  ASSUME Inv, LoadFile \/ HandleImport \/ ReadFreed \/ NextFile PROVE Inv' /\ Step
<1>1. CASE Crashes
  BY <1>1, CrashKeeps
<1>2. CASE ~Crashes
  <2>1. phase \in {"load", "imports"} /\ phase' \in {"load", "imports"}
    BY <1>2 DEF LoadFile, HandleImport, ReadFreed, NextFile
  <2>2. UNCHANGED <<job, outputs, executable>>
    BY <1>2 DEF LoadFile, HandleImport, ReadFreed, NextFile, results
  <2> QED
    BY <2>1, <2>2 DEF Inv, ErrorsSeen, NothingMade, ErrorsPhases, EarlyPhases, Step
<1> QED
  BY <1>1, <1>2

LEMMA PassesKeep ==
  ASSUME Inv, FinishLoading \/ GenerateUIR \/ FinishUIR \/ (\E failed \in BOOLEAN : Analyse(failed))
  PROVE  Inv' /\ Step
<1>1. CASE FinishLoading
  BY <1>1, GateKeeps DEF FinishLoading, EarlyPhases
<1>2. CASE GenerateUIR
  <2>1. CASE Crashes
    BY <2>1, CrashKeeps
  <2>2. CASE ~Crashes
    BY <1>2, <2>2 DEF GenerateUIR, results, Inv, ErrorsSeen, NothingMade, ErrorsPhases,
                      EarlyPhases, Step
  <2> QED
    BY <2>1, <2>2
<1>3. CASE FinishUIR
  BY <1>3, GateKeeps DEF FinishUIR, EarlyPhases
<1>4. ASSUME NEW failed \in BOOLEAN, Analyse(failed) PROVE Inv' /\ Step
  <2>1. CASE failed
    BY <1>4, <2>1 DEF Analyse, Inv, ErrorsSeen, NothingMade, ErrorsPhases, EarlyPhases, Step
  <2>2. CASE ~failed
    BY <1>4, <2>2, GateKeeps DEF Analyse, EarlyPhases
  <2> QED
    BY <2>1, <2>2
<1> QED
  BY <1>1, <1>2, <1>3, <1>4

(* Behind the last gate there is no error.                                   *)
LEMMA BackEndKeeps ==
  ASSUME Inv, GenerateCode \/ FinishCode \/ Link \/ Cleanup \/ Execute PROVE Inv' /\ Step
<1>1. phase \in {"codegen", "link", "cleanup", "execute"}
  BY DEF GenerateCode, FinishCode, Link, Cleanup, Execute
<1>2. errors = {} /\ errors' = {}
  BY <1>1 DEF GenerateCode, FinishCode, Link, Cleanup, Execute, Exits, Inv, ErrorsSeen, ErrorsPhases
<1>3. phase' \in {"codegen", "link", "cleanup", "execute", "exited"}
  BY DEF GenerateCode, FinishCode, Link, Cleanup, Execute, Exits
<1> QED
  BY <1>1, <1>2, <1>3 DEF Inv, ErrorsSeen, NothingMade, EarlyPhases, Step

LEMMA NextStep == Inv /\ [Next]_vars => Inv' /\ (Step \/ UNCHANGED vars)
<1> SUFFICES ASSUME Inv, [Next]_vars PROVE Inv' /\ (Step \/ UNCHANGED vars)
  OBVIOUS
<1>1. CASE Next
  BY <1>1, CommandLineKeeps, WorklistKeeps, PassesKeep, BackEndKeeps DEF Next
<1>2. CASE UNCHANGED vars
  BY <1>2 DEF vars, Inv, ErrorsSeen, NothingMade
<1> QED
  BY <1>1, <1>2

LEMMA InitEstablishesInv == Init => Inv
  BY DEF Init, Inv, ErrorsSeen, NothingMade

(* An error that any pass counts ends the run before the next pass: nothing  *)
(* is generated or linked, and the exit status is 1.                         *)
THEOREM ErrorsStopTheRun == Spec => StopsOnErrors
<1>1. Init => Inv
  BY InitEstablishesInv
<1>2. Inv /\ [Next]_vars => Inv'
  BY NextStep
<1>3. Inv /\ [Next]_vars => [Step]_vars
  BY NextStep
<1>4. Spec => [][Step]_vars
  BY <1>1, <1>2, <1>3, PTL DEF Spec
<1> QED
  BY <1>4 DEF StopsOnErrors, Step

-------------------------------------------------------------------------------

(* The invariant: what the worklist, the two maps and the objects have in    *)
(* common while the files are found.                                         *)
ArgumentFields == {"emit", "linker", "optimize", "target", "run", "paths", "output",
                   "packages", "next", "option"}
FileFields == {"path", "directory", "name", "ast", "imports", "symbols", "scopes"}

Arguments(a) ==
  DOMAIN a = ArgumentFields /\ a.emit \in Modes /\ a.run \in BOOLEAN /\ Listed(a.paths)
Settings ==
  /\ job \in Jobs /\ Arguments(args)
  /\ phase \in Phases
  /\ executable \in {"none", "old", "new"} /\ status \in {-1, 0, 1, 2, 127}

(* Nothing has begun while the command line is read.                         *)
NotBegun ==
  phase = "arguments" =>
    /\ list = <<>> /\ indices = None /\ path_to_file = None
    /\ file_idx = 1 /\ import_idx = 1 /\ stale = FALSE

Files ==
  /\ Listed(list)
  /\ \A i \in DOMAIN list :
       /\ DOMAIN list[i] = FileFields
       /\ Listed(list[i].imports) /\ Listed(list[i].scopes)
       /\ list[i].path \in DOMAIN job.sources

Position ==
  /\ file_idx \in 1 .. Len(list) + 1 /\ import_idx \in Nat \ {0} /\ stale \in BOOLEAN
  /\ phase = "imports" =>
       file_idx <= Len(list) /\ import_idx <= Len(list[file_idx].imports) + 1

(* What the loop has not come to is as it was pushed.                        *)
Ahead ==
  phase \in {"load", "imports"} =>
    \A i \in DOMAIN list :
      (i > file_idx \/ (phase = "load" /\ i = file_idx)) =>
        list[i].imports = <<>> /\ list[i].scopes = <<>>

Indexes ==
  /\ \A i \in DOMAIN list : list[i].path \in DOMAIN indices
  /\ \A p \in DOMAIN indices : indices[p] \in DOMAIN list /\ list[indices[p]].path = p
  /\ \A key \in DOMAIN path_to_file : path_to_file[key] \in DOMAIN list

(* The i-th import of file f leads to the file that it names.                *)
Leads(f, i) ==
  LET text == list[f].imports[i].text
      path == makeAbsolute(text, list[f].path)
  IN /\ path \in DOMAIN indices
     /\ <<text, f>> \in DOMAIN path_to_file
     /\ path_to_file[<<text, f>>] = indices[path]
     /\ list[f].scopes[i] = indices[path]

Handled ==
  Len(list) <= FileSlots =>
    /\ stale = FALSE
    /\ \A f \in DOMAIN list : Done(f) =>
         /\ Len(list[f].scopes) = Len(list[f].imports)
         /\ \A i \in DOMAIN list[f].imports : Leads(f, i)
    /\ phase = "imports" =>
         /\ Len(list[file_idx].scopes) = import_idx - 1
         /\ \A i \in 1 .. import_idx - 1 : Leads(file_idx, i)

ErrorFiles == errors \subseteq 0 .. Len(list)

(* The objects: one for each file that was generated, in the order of the    *)
(* list, under the name of the file.                                         *)
NamesDiffer ==
  \A i, j \in DOMAIN list : list[i].name = list[j].name => i = j
Objects ==
  /\ phase \in EarlyPhases => disk = None /\ linked = <<>>
  /\ Listed(outputs)
  /\ phase = "codegen" => Len(outputs) = file_idx - 1
  /\ phase \in {"link", "cleanup", "execute"} => Len(outputs) = Len(list)
  /\ phase \in {"codegen", "link", "cleanup", "execute"} =>
       \A i \in DOMAIN outputs : outputs[i] = list[i].name
  /\ phase \in {"codegen", "link", "cleanup"} =>
       /\ DOMAIN disk = {outputs[i] : i \in DOMAIN outputs}
       /\ NamesDiffer => \A i \in DOMAIN outputs : disk[outputs[i]] = i
  /\ phase \in {"cleanup", "execute"} /\ NamesDiffer =>
       linked = [i \in DOMAIN list |-> i]
  /\ phase = "execute" => disk = None

Worklist == Settings /\ NotBegun /\ Files /\ Position /\ Ahead /\ Indexes /\ Handled /\ ErrorFiles
Loading == Worklist /\ Inv /\ LoadedOnce /\ Objects
-------------------------------------------------------------------------------
(* The recursion in Capacities has a solution, and every capacity is at      *)
(* least the first: a list that is full holds FileSlots files or more.       *)
LEMMA CapacitiesDefined ==
  ASSUME NEW n \in Nat
  PROVE  Capacities(n) =
           [k \in 0 .. n |-> IF k = 0 THEN FileSlots ELSE 2 * Capacities(n)[k - 1]]
<1> DEFINE Solves(g, m) == g = [k \in 0 .. m |-> IF k = 0 THEN FileSlots ELSE 2 * g[k - 1]]
           T == {m \in Nat : ~ \E g : Solves(g, m)}
<1>1. SUFFICES ASSUME T # {} PROVE FALSE
  <2>1. n \notin T
    BY <1>1
  <2>2. PICK g : Solves(g, n)
    BY <2>1
  <2> QED
    BY <2>2, Zenon DEF Capacities
<1>2. PICK m \in T : \A k \in T : m <= k
  <2>1. T \subseteq Nat
    OBVIOUS
  <2> QED
    BY <1>1, <2>1, LeastElement
<1>3. CASE m = 0
  <2>1. Solves([k \in 0 .. 0 |-> FileSlots], 0)
    OBVIOUS
  <2> QED
    BY <1>3, <2>1
<1>4. CASE m # 0
  <2>1. m \in Nat /\ m - 1 \in Nat /\ ~(m <= m - 1)
    BY <1>4
  <2>2. PICK g : Solves(g, m - 1)
    BY <1>2, <2>1
  <2> DEFINE h == [k \in 0 .. m |-> IF k = m THEN 2 * g[m - 1] ELSE g[k]]
  <2>3. ASSUME NEW k \in 0 .. m
        PROVE  h[k] = IF k = 0 THEN FileSlots ELSE 2 * h[k - 1]
    <3>1. CASE k = m
      BY <2>1, <3>1
    <3>2. CASE k # m
      <4>1. k \in 0 .. m - 1 /\ (k # 0 => k - 1 \in 0 .. m /\ k - 1 # m)
        BY <2>1, <3>2
      <4>2. g[k] = IF k = 0 THEN FileSlots ELSE 2 * g[k - 1]
        BY <2>2, <4>1
      <4> QED
        BY <3>2, <4>1, <4>2
    <3> QED
      BY <3>1, <3>2
  <2>4. h = [k \in 0 .. m |-> h[k]]
    OBVIOUS
  <2> HIDE DEF h
  <2>5. Solves(h, m)
    BY <2>3, <2>4
  <2> QED
    BY <2>5
<1> QED
  BY <1>3, <1>4

LEMMA FullIsLarge ==
  ASSUME Len(list) \in Nat, Full
  PROVE  Len(list) >= FileSlots
<1>1. PICK n : n = Len(list)
  OBVIOUS
<1> DEFINE C == Capacities(n)
           T == {k \in 0 .. n : ~(C[k] \in Nat /\ C[k] >= FileSlots)}
<1>2. \A k \in 0 .. n : C[k] = IF k = 0 THEN FileSlots ELSE 2 * C[k - 1]
  <2>1. C = [k \in 0 .. n |-> IF k = 0 THEN FileSlots ELSE 2 * C[k - 1]]
    BY <1>1, CapacitiesDefined
  <2> HIDE DEF C
  <2> QED
    BY <2>1
<1> HIDE DEF C
<1>3. ASSUME T # {} PROVE FALSE
  <2>1. PICK k \in T : \A j \in T : k <= j
    <3>1. T \subseteq Nat
      BY <1>1
    <3> QED
      BY <1>3, <3>1, LeastElement
  <2>2. k # 0
    BY <1>2, FileSlotsAssumption
  <2>3. k - 1 \in 0 .. n /\ ~(k <= k - 1)
    BY <1>1, <2>2
  <2>4. C[k - 1] \in Nat /\ C[k - 1] >= FileSlots
    BY <2>1, <2>3
  <2>5. C[k] = 2 * C[k - 1]
    BY <1>2, <2>2
  <2>6. C[k] \in Nat /\ C[k] >= FileSlots
    BY <2>4, <2>5, FileSlotsAssumption
  <2> QED
    BY <2>6
<1>4. \A k \in 0 .. n : C[k] >= FileSlots
  BY <1>3
<1>5. \E k \in 0 .. n : n = C[k]
  BY <1>1 DEF Full, C
<1> QED
  BY <1>1, <1>4, <1>5
-------------------------------------------------------------------------------
LEMMA InitLoading == Init => Loading
<1> SUFFICES ASSUME Init PROVE Loading
  OBVIOUS
<1>1. list = <<>> /\ DOMAIN list = {} /\ Len(list) = 0 /\ Listed(list) /\ Listed(outputs)
  BY EmptyListed DEF Init
<1>2. DOMAIN indices = {} /\ DOMAIN path_to_file = {}
  BY DEF Init, None
<1>3. Settings
  <2>1. Arguments(args)
    BY EmptyListed DEF Init, Defaults, Arguments, ArgumentFields, Modes
  <2>2. job.old \in {"none", "old"}
    BY JobsAssumption DEF Init
  <2> QED
    BY <2>1, <2>2 DEF Init, Settings, Phases
<1>4. NotBegun /\ Files /\ Ahead /\ Indexes
  BY <1>1, <1>2 DEF Init, NotBegun, Files, Ahead, Indexes
<1>5. Position /\ ErrorFiles
  <2>1. stale \in BOOLEAN
    BY Zenon DEF Init
  <2>2. /\ file_idx \in 1 .. Len(list) + 1 /\ import_idx \in Nat \ {0}
        /\ phase # "imports" /\ errors = {}
    BY <1>1 DEF Init
  <2> QED
    BY <2>1, <2>2 DEF Position, ErrorFiles
<1>6. Handled
  BY <1>1 DEF Init, Handled
<1>7. LoadedOnce
  BY <1>1 DEF LoadedOnce
<1>8. Objects
  BY <1>1 DEF Init, Objects
<1> QED
  BY <1>3, <1>4, <1>5, <1>6, <1>7, <1>8, InitEstablishesInv DEF Loading, Worklist

(* While the command line is read, and when it ends the run.                 *)
LEMMA CommandLineWaits ==
  ASSUME Loading, phase = "arguments", phase' \in {"arguments", "exited", "crashed"},
         UNCHANGED <<job, worklist, position, errors, outputs, disk, linked, executable>>,
         Arguments(args'), status' \in {-1, 0, 1, 2, 127}
  PROVE  (Worklist /\ LoadedOnce /\ Objects)'
<1> USE DEF Loading, Worklist, worklist, position
<1>1. list = <<>> /\ DOMAIN list = {} /\ Len(list) = 0 /\ stale = FALSE
  BY EmptyListed DEF NotBegun
<1>2. Settings'
  BY DEF Settings, Phases
<1>3. (NotBegun /\ Files /\ Position /\ Ahead /\ Indexes /\ ErrorFiles)'
  BY <1>1 DEF NotBegun, Files, Position, Ahead, Indexes, ErrorFiles
<1>4. (Handled /\ LoadedOnce)'
  BY <1>1 DEF Handled, LoadedOnce
<1>5. Objects'
  BY <1>1 DEF Objects, EarlyPhases
<1> QED
  BY <1>2, <1>3, <1>4, <1>5

(* An end of the run keeps everything, but what was to be done.              *)
LEMMA CrashWaits ==
  ASSUME Loading, phase # "arguments", Crashes, args' = args
  PROVE  (Worklist /\ LoadedOnce /\ Objects)'
<1> USE DEF Loading, Worklist, worklist, position, results, Crashes
<1>1. Settings'
  BY DEF Settings, Phases
<1>2. (NotBegun /\ Files /\ Position /\ Ahead /\ Indexes /\ ErrorFiles)'
  BY DEF NotBegun, Files, Position, Ahead, Indexes, ErrorFiles
<1>3. Handled'
  BY DEF Handled, Done, Position
<1>5. LoadedOnce'
  BY ZenonT(60) DEF LoadedOnce, makeAbsolute
<1>4. Objects'
  BY DEF Objects, EarlyPhases
<1> QED
  BY <1>1, <1>2, <1>3, <1>4, <1>5

LEMMA TakesArguments ==
  ASSUME NEW read, Arguments(read), Takes(read)
  PROVE  Arguments(args')
<1>1. args' = [read EXCEPT !.next = @ + 1]
  BY DEF Takes
<1> QED
  BY <1>1 DEF Arguments, ArgumentFields

LEMMA ReadOptionLoading ==
  ASSUME Loading, ReadOption
  PROVE  (Worklist /\ LoadedOnce /\ Objects)'
<1>1. phase = "arguments" /\ Arguments(args) /\ status \in {-1, 0, 1, 2, 127}
  BY DEF ReadOption, Loading, Worklist, Settings
<1>2. CASE Exits(0) /\ args' = args
  BY <1>1, <1>2, CommandLineWaits DEF Exits, worklist, position
<1>3. ASSUME NEW read, Arguments(read), Takes(read)
      PROVE  (Worklist /\ LoadedOnce /\ Objects)'
  <2>1. Arguments(args')
    BY <1>3, TakesArguments
  <2> QED
    BY <1>1, <1>3, <2>1, CommandLineWaits DEF Takes, results, worklist, position
<1>4. Arguments([args EXCEPT !.run = TRUE])
  <2>1. [args EXCEPT !.run = TRUE].run = TRUE
    BY <1>1 DEF Arguments, ArgumentFields
  <2>2. [args EXCEPT !.run = TRUE].run \in BOOLEAN
    BY <2>1, Zenon
  <2> QED
    BY <1>1, <2>2 DEF Arguments, ArgumentFields
<1>5. Arguments([args EXCEPT !.option = Word])
  BY <1>1 DEF Arguments, ArgumentFields
<1>6. Arguments([args EXCEPT !.paths = Append(@, Word)])
  <2>1. Listed(Append(args.paths, Word))
    BY <1>1, AppendListed DEF Arguments
  <2> QED
    BY <1>1, <2>1 DEF Arguments, ArgumentFields
<1> QED
  BY <1>2, <1>3, <1>4, <1>5, <1>6 DEF ReadOption

LEMMA ReadValueLoading ==
  ASSUME Loading, ReadValue
  PROVE  (Worklist /\ LoadedOnce /\ Objects)'
<1>1. phase = "arguments" /\ Arguments(args) /\ status \in {-1, 0, 1, 2, 127}
  BY DEF ReadValue, Loading, Worklist, Settings
<1>2. CASE Exits(1) /\ args' = args
  BY <1>1, <1>2, CommandLineWaits DEF Exits, worklist, position
<1>3. CASE Crashes /\ args' = args
  BY <1>1, <1>3, CommandLineWaits DEF Crashes, results, worklist, position
<1>4. ASSUME NEW read, Arguments(read), Takes(read)
      PROVE  (Worklist /\ LoadedOnce /\ Objects)'
  <2>1. Arguments(args')
    BY <1>4, TakesArguments
  <2> QED
    BY <1>1, <1>4, <2>1, CommandLineWaits DEF Takes, results, worklist, position
<1> DEFINE given == [args EXCEPT !.option = ""]
<1>5. Arguments(given)
  BY <1>1 DEF Arguments, ArgumentFields
<1> HIDE DEF given
<1>6. /\ Arguments([given EXCEPT !.emit = IF Word \in Modes THEN Word ELSE @])
      /\ Arguments([given EXCEPT !.linker = IF Word \in {"clang", "ld"} THEN Word ELSE @])
      /\ Arguments([given EXCEPT !.optimize = Word])
      /\ Arguments([given EXCEPT !.output = Word])
      /\ Arguments([given EXCEPT !.target = Word])
      /\ \A x, y : Arguments([given EXCEPT !.packages = Extend(@, x, y)])
  BY <1>5 DEF Arguments, ArgumentFields
<1> QED
  BY <1>2, <1>3, <1>4, <1>6 DEF ReadValue, given

(* The files of the command line are pushed and nothing is imported yet.     *)
LEMMA FinishArgumentsLoading ==
  ASSUME Loading, FinishArguments
  PROVE  (Worklist /\ LoadedOnce /\ Objects)'
<1>1. /\ phase = "arguments" /\ Arguments(args) /\ status \in {-1, 0, 1, 2, 127}
      /\ job' = job /\ args' = args
  BY DEF FinishArguments, Loading, Worklist, Settings, Exits, Crashes
<1> DEFINE paths == args.paths
           path(i) == Resolve(<<>>, spelled[paths[i]].names)
           last(p) == CHOOSE i \in DOMAIN paths :
                        path(i) = p /\ \A j \in DOMAIN paths : path(j) = p => j <= i
<1>2. CASE Exits(0) \/ Exits(1)
  BY <1>1, <1>2, CommandLineWaits DEF Exits, worklist, position
<1>3. CASE Crashes
  BY <1>1, <1>3, CommandLineWaits DEF Crashes, results, worklist, position
<1>4. CASE /\ \A i \in DOMAIN paths : IsFile(path(i))
           /\ phase' = "load"
           /\ list' = [i \in DOMAIN paths |-> NewFile(path(i))]
           /\ indices' = [p \in {path(i) : i \in DOMAIN paths} |-> last(p)]
           /\ UNCHANGED <<job, path_to_file, position, errors, results>>
  <2> DEFINE n == Len(paths)
  <2>1. Listed(paths) /\ n \in Nat /\ DOMAIN paths = 1 .. n
    BY <1>1, ListedIsSeq DEF Arguments
  <2>2. Listed(list') /\ Len(list') = n /\ DOMAIN list' = 1 .. n
    <3>1. list' = [i \in 1 .. n |-> list'[i]]
      BY <1>4, <2>1
    <3> QED
      BY <2>1, <3>1, FunctionIsListed, ListedIsSeq
  <2>3. ASSUME NEW i \in 1 .. n
        PROVE  /\ list'[i].path = path(i) /\ DOMAIN list'[i] = FileFields
               /\ list'[i].imports = <<>> /\ list'[i].scopes = <<>>
               /\ path(i) \in DOMAIN job'.sources /\ path(i) \in DOMAIN indices'
    BY <1>4, <2>1, <2>3 DEF NewFile, FileFields, IsFile
  <2>4. ASSUME NEW p \in DOMAIN indices'
        PROVE  indices'[p] \in 1 .. n /\ list'[indices'[p]].path = p
    <3> DEFINE S == {i \in 1 .. n : path(i) = p}
    <3>1. S # {} /\ S \subseteq 0 .. n
      BY <1>4, <2>1, <2>4
    <3>2. PICK i \in S : \A j \in S : j <= i
      BY <2>1, <3>1, GreatestElement
    <3>3. \E k \in DOMAIN paths : path(k) = p /\ \A j \in DOMAIN paths : path(j) = p => j <= k
      BY <2>1, <3>2
    <3>4. last(p) \in DOMAIN paths /\ path(last(p)) = p
      BY <3>3, Zenon
    <3>5. indices'[p] = last(p)
      BY <1>4, <2>4
    <3> HIDE DEF last, path
    <3>6. last(p) \in 1 .. n
      BY <2>1, <3>4
    <3> QED
      BY <2>3, <3>4, <3>5, <3>6
  <2> HIDE DEF path, last, n
  <2>5. /\ file_idx' = 1 /\ import_idx' = 1 /\ stale' = FALSE /\ path_to_file' = None
        /\ errors' = {} /\ disk' = None /\ linked' = <<>> /\ outputs' = <<>>
        /\ executable' = executable /\ status' = status
    BY <1>1, <1>4 DEF position, results, Loading, Worklist, NotBegun, Inv, ErrorsSeen,
                      NothingMade, ErrorsPhases, EarlyPhases, Objects
  <2>6. Settings' /\ NotBegun'
    BY <1>1, <1>4, <2>5 DEF Settings, NotBegun, Phases, Loading, Worklist
  <2>7. Files' /\ Ahead' /\ Indexes'
    <3>1. Files'
      BY <2>2, <2>3, EmptyListed DEF Files
    <3>2. Ahead'
      BY <2>2, <2>3 DEF Ahead
    <3>3. DOMAIN path_to_file' = {}
      BY <2>5 DEF None
    <3>4. Indexes'
      BY <2>2, <2>3, <2>4, <3>3 DEF Indexes
    <3> QED
      BY <3>1, <3>2, <3>4
  <2>8. Position' /\ ErrorFiles'
    <3>1. stale' \in BOOLEAN
      BY <2>5, Zenon
    <3> QED
      BY <1>4, <2>1, <2>2, <2>5, <3>1 DEF Position, ErrorFiles
  <2>9. Handled'
    BY <1>4, <2>2, <2>5, <2>1 DEF Handled, Done
  <2>10. LoadedOnce'
    <3>1. \A j \in DOMAIN list' : ~(j > Len(args'.paths))
      BY <1>1, <2>1, <2>2 DEF n
    <3> QED
      BY <3>1 DEF LoadedOnce
  <2>11. Objects'
    BY <1>4, <2>5, EmptyListed DEF Objects
  <2> QED
    BY <2>6, <2>7, <2>8, <2>9, <2>10, <2>11 DEF Worklist
<1> QED
  BY <1>2, <1>3, <1>4 DEF FinishArguments

(* Loading a file fills in what was left open when it was pushed.            *)
LEMMA LoadFileFacts ==
  ASSUME Loading, LoadFile, phase' # "crashed"
  PROVE  /\ phase = "load" /\ phase' = "imports" /\ file_idx \in 1 .. Len(list)
         /\ import_idx' = 1 /\ stale' = FALSE
         /\ errors' \in {errors, errors \cup {file_idx}}
         /\ UNCHANGED <<job, args, indices, path_to_file, file_idx,
                        outputs, disk, linked, executable, status>>
         /\ \E file : /\ list' = [list EXCEPT ![file_idx] = file]
                      /\ DOMAIN file = FileFields
                      /\ file.path = list[file_idx].path
                      /\ file.scopes = list[file_idx].scopes
                      /\ Listed(file.imports)
<1>1. ~Crashes
  BY DEF Crashes
<1>2. /\ phase = "load" /\ phase' = "imports"
      /\ import_idx' = 1 /\ stale' = FALSE
      /\ errors' \in {errors, errors \cup {file_idx}}
      /\ UNCHANGED <<job, args, indices, path_to_file, file_idx,
                     outputs, disk, linked, executable, status>>
      /\ file_idx <= Len(list)
  BY <1>1 DEF LoadFile
<1>3. file_idx \in 1 .. Len(list) /\ file_idx \in DOMAIN list
  <2>1. Len(list) \in Nat /\ DOMAIN list = 1 .. Len(list)
    BY ListedIsSeq DEF Loading, Worklist, Files
  <2> QED
    BY <1>2, <2>1 DEF Loading, Worklist, Position
<1>4. PICK name :
        list' = [list EXCEPT ![file_idx] =
          [list[file_idx] EXCEPT !.name = name, !.ast = Parse(job.sources[list[file_idx].path]).node,
                 !.imports = Parse(job.sources[list[file_idx].path]).imports,
                 !.symbols = Symbolize(Parse(job.sources[list[file_idx].path]).node)]]
  BY <1>1 DEF LoadFile
<1> DEFINE parsed == Parse(job.sources[list[file_idx].path])
           file == [list[file_idx] EXCEPT !.name = name, !.ast = parsed.node,
                      !.imports = parsed.imports, !.symbols = Symbolize(parsed.node)]
<1>5. DOMAIN list[file_idx] = FileFields /\ list[file_idx].path \in DOMAIN job.sources /\ job \in Jobs
  BY <1>3 DEF Loading, Worklist, Files, Settings
<1>6. Listed(parsed.imports)
  BY <1>5, JobsAssumption DEF Listed
<1>7. /\ DOMAIN file = FileFields /\ file.path = list[file_idx].path
      /\ file.scopes = list[file_idx].scopes /\ file.imports = parsed.imports
  BY <1>5 DEF FileFields
<1>8. list' = [list EXCEPT ![file_idx] = file]
  BY <1>4
<1> HIDE DEF parsed, file
<1> QED
  BY <1>2, <1>3, <1>6, <1>7, <1>8

(* An import that leads to its file goes on doing so while files are added.  *)
LEMMA LeadsOn ==
  ASSUME args' = args, NEW f, NEW i, Leads(f, i),
         list'[f].path = list[f].path, list'[f].imports[i] = list[f].imports[i],
         list'[f].scopes[i] = list[f].scopes[i],
         \A p \in DOMAIN indices : p \in DOMAIN indices' /\ indices'[p] = indices[p],
         <<list[f].imports[i].text, f>> \in DOMAIN path_to_file',
         path_to_file'[<<list[f].imports[i].text, f>>]
           = path_to_file[<<list[f].imports[i].text, f>>]
  PROVE  Leads(f, i)'
BY DEF Leads, makeAbsolute

(* So does the reason why a file is in the list.                             *)
OnceLater(j) ==
  /\ \A i \in 1 .. j - 1 : list'[i].path # list'[j].path
  /\ \E i \in 1 .. j - 1 : \E k \in DOMAIN list'[i].imports :
       list'[j].path = makeAbsolute(list[i].imports[k].text, list[i].path)'

LEMMA OnceOn ==
  ASSUME Loading, args' = args, DOMAIN list = 1 .. Len(list), Len(list) \in Nat,
         NEW j \in 1 .. Len(list), j > Len(args.paths),
         \A i \in 1 .. Len(list) : list'[i].path = list[i].path,
         \A i \in 1 .. Len(list) :
           list[i].imports = <<>> \/ list'[i].imports = list[i].imports
  PROVE  OnceLater(j)
<1>1. \A i \in 1 .. j - 1 : list[i].path # list[j].path
  BY DEF LoadedOnce, Loading
<1>2. PICK i \in 1 .. j - 1 : \E k \in DOMAIN list[i].imports :
        list[j].path = makeAbsolute(list[i].imports[k].text, list[i].path)
  BY DEF LoadedOnce, Loading
<1>3. PICK k \in DOMAIN list[i].imports :
        list[j].path = makeAbsolute(list[i].imports[k].text, list[i].path)
  BY <1>2
<1>4. i \in 1 .. Len(list) /\ list'[i].imports = list[i].imports
  BY <1>3, EmptyListed
<1>5. makeAbsolute(list[i].imports[k].text, list[i].path)' = list'[j].path
  BY <1>3, <1>4 DEF makeAbsolute
<1>6. \A h \in 1 .. j - 1 : list'[h].path # list'[j].path
  BY <1>1
<1> QED
  BY <1>3, <1>4, <1>5, <1>6 DEF OnceLater

LEMMA LoadFileLoading ==
  ASSUME Loading, LoadFile, phase' # "crashed"
  PROVE  (Worklist /\ LoadedOnce /\ Objects)'
<1>1. /\ phase = "load" /\ phase' = "imports" /\ file_idx \in 1 .. Len(list)
      /\ import_idx' = 1 /\ stale' = FALSE
      /\ errors' \in {errors, errors \cup {file_idx}}
      /\ UNCHANGED <<job, args, indices, path_to_file, file_idx,
                     outputs, disk, linked, executable, status>>
  BY LoadFileFacts
<1>2. PICK file : /\ list' = [list EXCEPT ![file_idx] = file]
                  /\ DOMAIN file = FileFields
                  /\ file.path = list[file_idx].path
                  /\ file.scopes = list[file_idx].scopes
                  /\ Listed(file.imports)
  BY LoadFileFacts
<1>3. Listed(list) /\ Len(list) \in Nat /\ DOMAIN list = 1 .. Len(list)
  BY ListedIsSeq DEF Loading, Worklist, Files
<1>4. /\ Listed(list') /\ Len(list') = Len(list) /\ DOMAIN list' = 1 .. Len(list)
      /\ list'[file_idx] = file
      /\ \A j \in 1 .. Len(list) : j # file_idx => list'[j] = list[j]
  BY <1>1, <1>2, <1>3, ExceptListed
<1>5. list[file_idx].imports = <<>> /\ list[file_idx].scopes = <<>>
  BY <1>1, <1>3 DEF Loading, Worklist, Ahead
<1>6. \A j \in 1 .. Len(list) :
        /\ list'[j].path = list[j].path /\ list'[j].scopes = list[j].scopes
        /\ DOMAIN list'[j] = FileFields
        /\ Listed(list'[j].imports) /\ Listed(list'[j].scopes)
  BY <1>2, <1>3, <1>4 DEF Loading, Worklist, Files
<1>7. Settings' /\ NotBegun' /\ ErrorFiles'
  <2>1. Settings' /\ NotBegun'
    BY <1>1 DEF Settings, NotBegun, Phases, Loading, Worklist
  <2>2. ErrorFiles'
    BY <1>1, <1>3, <1>4 DEF ErrorFiles, Loading, Worklist
  <2> QED
    BY <2>1, <2>2
<1>8. Files'
  BY <1>1, <1>3, <1>4, <1>6 DEF Files, Loading, Worklist
<1>9. Position'
  <2>1. stale' \in BOOLEAN
    BY <1>1, Zenon
  <2>2. Len(list'[file_idx].imports) \in Nat
    BY <1>2, <1>4, ListedIsSeq
  <2> QED
    BY <1>1, <1>3, <1>4, <2>1, <2>2 DEF Position
<1>10. Ahead'
  BY <1>1, <1>3, <1>4 DEF Ahead, Loading, Worklist
<1>11. Indexes'
  BY <1>1, <1>3, <1>4, <1>6 DEF Indexes, Loading, Worklist
<1>12. Handled'
  <2> SUFFICES ASSUME Len(list) <= FileSlots
               PROVE  /\ \A f \in 1 .. Len(list) : f < file_idx =>
                           /\ Len(list'[f].scopes) = Len(list'[f].imports)
                           /\ \A i \in DOMAIN list'[f].imports : Leads(f, i)'
                      /\ Len(list'[file_idx].scopes) = 0
    BY <1>1, <1>3, <1>4 DEF Handled, Done
  <2>1. ASSUME NEW f \in 1 .. Len(list), f < file_idx
        PROVE  /\ Len(list'[f].scopes) = Len(list'[f].imports)
               /\ \A i \in DOMAIN list'[f].imports : Leads(f, i)'
    <3>1. list'[f] = list[f] /\ Done(f)
      BY <1>1, <1>3, <1>4, <2>1 DEF Done
    <3>2. /\ Len(list[f].scopes) = Len(list[f].imports)
          /\ \A i \in DOMAIN list[f].imports : Leads(f, i)
      BY <1>3, <3>1 DEF Handled, Loading, Worklist
    <3>3. ASSUME NEW i \in DOMAIN list[f].imports PROVE Leads(f, i)'
      <4>1. Leads(f, i) /\ <<list[f].imports[i].text, f>> \in DOMAIN path_to_file
        BY <3>2, <3>3 DEF Leads
      <4> QED
        BY <1>1, <3>1, <4>1, LeadsOn
    <3> QED
      BY <3>1, <3>2, <3>3
  <2>2. Len(list'[file_idx].scopes) = 0
    BY <1>1, <1>5, <1>6, EmptyListed
  <2> QED
    BY <2>1, <2>2
<1>13. LoadedOnce'
  <2>1. \A i \in 1 .. Len(list) :
          list[i].imports = <<>> \/ list'[i].imports = list[i].imports
    BY <1>4, <1>5
  <2>2. ASSUME NEW j \in DOMAIN list', j > Len(args'.paths)
        PROVE  OnceLater(j)
    BY <1>1, <1>3, <1>4, <1>6, <2>1, <2>2, OnceOn
  <2> QED
    BY <2>2 DEF LoadedOnce, OnceLater
<1>14. Objects'
  BY <1>1 DEF Objects, EarlyPhases, Loading
<1> QED
  BY <1>7, <1>8, <1>9, <1>10, <1>11, <1>12, <1>13, <1>14 DEF Worklist

(* An import that was handled: its file is known, or it was pushed.          *)
LEMMA HandleImportFacts ==
  ASSUME Loading, HandleImport, phase' # "crashed"
  PROVE  /\ phase = "imports" /\ file_idx \in 1 .. Len(list)
         /\ import_idx \in 1 .. Len(list[file_idx].imports)
         /\ import_idx' = import_idx + 1
         /\ UNCHANGED <<job, args, phase, file_idx, errors, results>>
         /\ \E text, path, target, file :
              /\ text = list[file_idx].imports[import_idx].text
              /\ path = makeAbsolute(text, list[file_idx].path)
              /\ path \in DOMAIN job.sources
              /\ path_to_file' = Extend(path_to_file, <<text, file_idx>>, target)
              /\ file = [list[file_idx] EXCEPT !.scopes = Append(@, target)]
              /\ \/ /\ path \in DOMAIN indices /\ target = indices[path]
                    /\ list' = [list EXCEPT ![file_idx] = file]
                    /\ UNCHANGED <<indices, stale>>
                 \/ /\ path \notin DOMAIN indices /\ target = Len(list) + 1
                    /\ list' = Append([list EXCEPT ![file_idx] = file], NewFile(path))
                    /\ indices' = Extend(indices, path, target)
                    /\ stale' \in {stale, TRUE} /\ (Full \/ stale' = stale)
<1> DEFINE text == list[file_idx].imports[import_idx].text
           path == makeAbsolute(text, list[file_idx].path)
           target == IF path \in DOMAIN indices THEN indices[path] ELSE Len(list) + 1
           file == [list[file_idx] EXCEPT !.scopes = Append(@, target)]
<1>1. ~Crashes
  BY DEF Crashes
<1>2. /\ phase = "imports" /\ import_idx <= Len(list[file_idx].imports)
      /\ Resolves(text, list[file_idx].path)
      /\ import_idx' = import_idx + 1
      /\ UNCHANGED <<job, args, phase, file_idx, errors, results>>
  BY <1>1 DEF HandleImport
<1>3. /\ Len(list) \in Nat /\ file_idx \in 1 .. Len(list)
      /\ import_idx \in 1 .. Len(list[file_idx].imports)
  <2>1. Len(list) \in Nat /\ DOMAIN list = 1 .. Len(list)
    BY ListedIsSeq DEF Loading, Worklist, Files
  <2>2. file_idx \in 1 .. Len(list)
    BY <1>2, <2>1 DEF Loading, Worklist, Position
  <2>3. Len(list[file_idx].imports) \in Nat
    BY <2>1, <2>2, ListedIsSeq DEF Loading, Worklist, Files
  <2> QED
    BY <1>2, <2>1, <2>2, <2>3 DEF Loading, Worklist, Position
<1>4. path \in DOMAIN job.sources
  BY <1>2 DEF Resolves, IsFile
<1>5. path_to_file' = Extend(path_to_file, <<text, file_idx>>, target)
  BY <1>1 DEF HandleImport, ImportKey
<1>6. CASE path \in DOMAIN indices
  <2>1. /\ target = indices[path] /\ UNCHANGED <<indices, stale>>
        /\ list' = [list EXCEPT ![file_idx] = file]
    BY <1>1, <1>6 DEF HandleImport
  <2> HIDE DEF text, path, target, file
  <2>2. text = list[file_idx].imports[import_idx].text /\ path = makeAbsolute(text, list[file_idx].path)
    BY DEF text, path
  <2>3. file = [list[file_idx] EXCEPT !.scopes = Append(@, target)]
    BY DEF file
  <2> QED
    BY <1>2, <1>3, <1>4, <1>5, <1>6, <2>1, <2>2, <2>3
<1>7. CASE path \notin DOMAIN indices
  <2>1. /\ target = Len(list) + 1
        /\ list' = Append([list EXCEPT ![file_idx] = file], NewFile(path))
        /\ indices' = Extend(indices, path, target)
        /\ stale' \in IF Full THEN {stale, TRUE} ELSE {stale}
    BY <1>1, <1>7 DEF HandleImport, Indexed
  <2> HIDE DEF text, path, target, file
  <2>2. text = list[file_idx].imports[import_idx].text /\ path = makeAbsolute(text, list[file_idx].path)
    BY DEF text, path
  <2>3. file = [list[file_idx] EXCEPT !.scopes = Append(@, target)]
    BY DEF file
  <2>4. stale' \in {stale, TRUE} /\ (Full \/ stale' = stale)
    BY <2>1
  <2> QED
    BY <1>2, <1>3, <1>4, <1>5, <1>7, <2>1, <2>2, <2>3, <2>4
<1> QED
  BY <1>6, <1>7

LEMMA HandleImportLoading ==
  ASSUME Loading, HandleImport, phase' # "crashed"
  PROVE  (Worklist /\ LoadedOnce /\ Objects)'
<1>1. /\ phase = "imports" /\ file_idx \in 1 .. Len(list)
      /\ import_idx \in 1 .. Len(list[file_idx].imports)
      /\ import_idx' = import_idx + 1
      /\ UNCHANGED <<job, args, phase, file_idx, errors, results>>
  BY HandleImportFacts
<1>2. PICK text, path, target, file :
        /\ text = list[file_idx].imports[import_idx].text
        /\ path = makeAbsolute(text, list[file_idx].path)
        /\ path \in DOMAIN job.sources
        /\ path_to_file' = Extend(path_to_file, <<text, file_idx>>, target)
        /\ file = [list[file_idx] EXCEPT !.scopes = Append(@, target)]
        /\ \/ /\ path \in DOMAIN indices /\ target = indices[path]
              /\ list' = [list EXCEPT ![file_idx] = file]
              /\ UNCHANGED <<indices, stale>>
           \/ /\ path \notin DOMAIN indices /\ target = Len(list) + 1
              /\ list' = Append([list EXCEPT ![file_idx] = file], NewFile(path))
              /\ indices' = Extend(indices, path, target)
              /\ stale' \in {stale, TRUE} /\ (Full \/ stale' = stale)
  BY HandleImportFacts
<1>0. PICK n, f : n = Len(list) /\ f = file_idx
  OBVIOUS
<1> DEFINE files == [list EXCEPT ![file_idx] = file]
<1>3. Listed(list) /\ n \in Nat /\ DOMAIN list = 1 .. n /\ f \in 1 .. n
  BY <1>0, <1>1, ListedIsSeq DEF Loading, Worklist, Files
<1>4. /\ Listed(files) /\ Len(files) = n /\ files[f] = file
      /\ \A j \in 1 .. n : j # f => files[j] = list[j]
  BY <1>0, <1>3, ExceptListed
<1>5. /\ DOMAIN file = FileFields /\ file.path = list[f].path
      /\ file.imports = list[f].imports
      /\ file.scopes = Append(list[f].scopes, target)
  BY <1>0, <1>1, <1>2, <1>3 DEF Loading, Worklist, Files, FileFields
<1>6. /\ Listed(list[f].scopes) /\ Listed(list[f].imports)
      /\ Listed(file.scopes) /\ Len(file.scopes) = Len(list[f].scopes) + 1
      /\ file.scopes[Len(list[f].scopes) + 1] = target
      /\ \A i \in 1 .. Len(list[f].scopes) : file.scopes[i] = list[f].scopes[i]
  BY <1>0, <1>1, <1>3, <1>5, AppendListed DEF Loading, Worklist, Files
<1>m. PICK m : m = Len(list')
  OBVIOUS
<1>7. /\ Listed(list') /\ m \in Nat
      /\ \/ path \in DOMAIN indices /\ m = n
         \/ path \notin DOMAIN indices /\ m = n + 1
      /\ DOMAIN list' = 1 .. m
      /\ list'[f] = file
      /\ \A j \in 1 .. n : j # f => list'[j] = list[j]
      /\ path \notin DOMAIN indices => list'[n + 1] = NewFile(path)
  <2>1. CASE path \in DOMAIN indices
    BY <1>0, <1>m, <1>2, <1>3, <1>4, <2>1, ListedIsSeq DEF files
  <2>2. CASE path \notin DOMAIN indices
    <3> HIDE DEF files
    <3>1. list' = Append(files, NewFile(path))
      BY <1>0, <1>2, <2>2 DEF files
    <3>2. /\ Listed(list') /\ m = n + 1 /\ DOMAIN list' = 1 .. n + 1
          /\ list'[n + 1] = NewFile(path)
          /\ \A j \in 1 .. n : list'[j] = files[j]
      BY <1>m, <1>4, <3>1, AppendListed
    <3> QED
      BY <1>0, <1>m, <1>3, <1>4, <2>2, <3>2
  <2> QED
    BY <2>1, <2>2
<1> HIDE DEF files
<1>8. \A j \in 1 .. n :
        /\ list'[j].path = list[j].path /\ list'[j].imports = list[j].imports
        /\ DOMAIN list'[j] = FileFields /\ Listed(list'[j].scopes) /\ Listed(list'[j].imports)
  BY <1>0, <1>3, <1>5, <1>6, <1>7 DEF Loading, Worklist, Files
<1>9. ASSUME path \notin DOMAIN indices
      PROVE  /\ list'[n + 1].path = path
             /\ list'[n + 1].imports = <<>> /\ list'[n + 1].scopes = <<>>
             /\ DOMAIN list'[n + 1] = FileFields
  BY <1>0, <1>7, <1>9 DEF NewFile, FileFields
<1>10. /\ \A p \in DOMAIN indices : p \in DOMAIN indices' /\ indices'[p] = indices[p]
       /\ path \in DOMAIN indices' /\ indices'[path] = target
       /\ DOMAIN indices' = DOMAIN indices \cup {path}
  BY <1>0, <1>2 DEF Extend
<1>11. target \in 1 .. m
  <2>1. path \in DOMAIN indices => indices[path] \in 1 .. n
    BY <1>3 DEF Loading, Worklist, Indexes
  <2>2. /\ path \in DOMAIN indices => target = indices[path]
        /\ path \notin DOMAIN indices => target = n + 1
    BY <1>0, <1>2
  <2> QED
    BY <1>3, <1>7, <2>1, <2>2
<1>12. Settings' /\ NotBegun' /\ ErrorFiles'
  <2>1. Settings' /\ NotBegun'
    BY <1>0, <1>1 DEF Settings, NotBegun, Phases, Loading, Worklist, results
  <2>2. ErrorFiles'
    BY <1>0, <1>m, <1>1, <1>3, <1>7 DEF ErrorFiles, Loading, Worklist
  <2> QED
    BY <2>1, <2>2
<1>13. Files'
  <2>1. ASSUME NEW j \in 1 .. m
        PROVE  /\ DOMAIN list'[j] = FileFields
               /\ Listed(list'[j].imports) /\ Listed(list'[j].scopes)
               /\ list'[j].path \in DOMAIN job.sources
    <3>1. CASE j \in 1 .. n
      BY <1>0, <1>3, <1>8, <3>1 DEF Loading, Worklist, Files
    <3>2. CASE j = n + 1 /\ path \notin DOMAIN indices
      BY <1>0, <1>2, <1>9, <3>2, EmptyListed
    <3> QED
      BY <1>0, <1>3, <1>7, <3>1, <3>2
  <2> QED
    BY <1>0, <1>1, <1>7, <2>1 DEF Files
<1>14. Position'
  <2>1. stale' \in BOOLEAN
    <3>1. stale \in BOOLEAN
      BY DEF Loading, Worklist, Position
    <3> QED
      BY <1>0, <1>2, <3>1, Zenon
  <2>2. list'[f].imports = list[f].imports /\ Len(list[f].imports) \in Nat
    BY <1>0, <1>1, <1>6, <1>8, ListedIsSeq
  <2> QED
    BY <1>0, <1>m, <1>1, <1>3, <1>7, <2>1, <2>2 DEF Position
<1>15. Ahead'
  <2>1. ASSUME NEW j \in 1 .. m, j > f
        PROVE  list'[j].imports = <<>> /\ list'[j].scopes = <<>>
    <3>1. CASE j \in 1 .. n
      BY <1>0, <1>1, <1>3, <1>7, <2>1, <3>1 DEF Ahead, Loading, Worklist
    <3>2. CASE j = n + 1 /\ path \notin DOMAIN indices
      BY <1>0, <1>9, <3>2
    <3> QED
      BY <1>0, <1>3, <1>7, <3>1, <3>2
  <2> QED
    BY <1>0, <1>1, <1>7, <2>1 DEF Ahead
<1>16. Indexes'
  <2>1. \A j \in 1 .. m : list'[j].path \in DOMAIN indices'
    <3>1. \A j \in 1 .. n : list[j].path \in DOMAIN indices
      BY <1>3 DEF Indexes, Loading, Worklist
    <3>2. \A j \in 1 .. n : list'[j].path \in DOMAIN indices'
      BY <1>8, <1>10, <3>1
    <3>3. path \notin DOMAIN indices => list'[n + 1].path \in DOMAIN indices'
      BY <1>9, <1>10
    <3> QED
      BY <1>3, <1>7, <3>2, <3>3
  <2>2. \A p \in DOMAIN indices' : indices'[p] \in 1 .. m /\ list'[indices'[p]].path = p
    <3>1. \A p \in DOMAIN indices : indices[p] \in 1 .. n /\ list[indices[p]].path = p
      BY <1>0, <1>3 DEF Indexes, Loading, Worklist
    <3>2. \A p \in DOMAIN indices : indices'[p] \in 1 .. m /\ list'[indices'[p]].path = p
      BY <1>0, <1>3, <1>7, <1>8, <1>10, <3>1
    <3>3. path \notin DOMAIN indices => target = n + 1 /\ list'[target].path = path
      BY <1>0, <1>2, <1>9
    <3> QED
      BY <1>0, <1>10, <1>11, <3>2, <3>3
  <2>3. \A key \in DOMAIN path_to_file' : path_to_file'[key] \in 1 .. m
    <3>1. \A key \in DOMAIN path_to_file : path_to_file[key] \in 1 .. n
      BY <1>0, <1>3 DEF Indexes, Loading, Worklist
    <3>2. path_to_file' = Extend(path_to_file, <<text, file_idx>>, target)
      BY <1>2
    <3>3. n <= m
      BY <1>3, <1>7
    <3>4. \A key \in DOMAIN path_to_file' :
            path_to_file'[key] \in 1 .. n \/ path_to_file'[key] = target
      BY <3>1, <3>2 DEF Extend
    <3> QED
      BY <1>3, <1>7, <1>11, <3>3, <3>4
  <2> QED
    BY <1>0, <1>7, <2>1, <2>2, <2>3 DEF Indexes
<1>17. LoadedOnce'
  <2>1. ASSUME NEW j \in DOMAIN list', j > Len(args'.paths)
        PROVE  OnceLater(j)
    <3>1. CASE j \in 1 .. n
      BY <1>0, <1>1, <1>3, <1>8, <2>1, <3>1, OnceOn
    <3>2. CASE j = n + 1 /\ path \notin DOMAIN indices
      <4>1. \A i \in 1 .. j - 1 : list'[i].path # list'[j].path
        <5>1. \A i \in 1 .. n : list[i].path \in DOMAIN indices
          BY <1>0, <1>3 DEF Indexes, Loading, Worklist
        <5> QED
          BY <1>0, <1>3, <1>8, <1>9, <3>2, <5>1
      <4>2. f \in 1 .. j - 1 /\ import_idx \in DOMAIN list'[f].imports
        BY <1>0, <1>1, <1>3, <1>6, <1>8, <3>2, ListedIsSeq
      <4>3. list'[j].path
              = makeAbsolute(list[f].imports[import_idx].text, list[f].path)
        BY <1>0, <1>2, <1>9, <3>2
      <4>4. PICK k : k = import_idx
        OBVIOUS
      <4>5. list'[j].path = makeAbsolute(list[f].imports[k].text, list[f].path)'
        BY <1>0, <1>1, <1>3, <1>8, <4>3, <4>4 DEF makeAbsolute
      <4>6. k \in DOMAIN list'[f].imports
        BY <4>2, <4>4
      <4> QED
        BY <4>1, <4>2, <4>5, <4>6 DEF OnceLater
    <3> QED
      BY <1>0, <1>3, <1>7, <3>1, <3>2
  <2> QED
    BY <2>1 DEF LoadedOnce, OnceLater
<1>18. Objects'
  BY <1>0, <1>1 DEF Objects, EarlyPhases, Loading, results
<1>19. Handled'
  <2> SUFFICES ASSUME m <= FileSlots
               PROVE  /\ stale' = FALSE
                      /\ \A e \in 1 .. m : e < f =>
                           /\ Len(list'[e].scopes) = Len(list'[e].imports)
                           /\ \A i \in DOMAIN list'[e].imports : Leads(e, i)'
                      /\ Len(list'[f].scopes) = import_idx
                      /\ \A i \in 1 .. import_idx : Leads(file_idx, i)'
    <3>1. import_idx \in Nat /\ import_idx' - 1 = import_idx
      BY <1>1 DEF Loading, Worklist, Position
    <3> QED
      BY <1>0, <1>m, <1>1, <1>7, <3>1 DEF Handled, Done
  <2>1. /\ stale = FALSE
        /\ \A e \in 1 .. n : e < f =>
             /\ Len(list[e].scopes) = Len(list[e].imports)
             /\ \A i \in DOMAIN list[e].imports : Leads(e, i)
        /\ Len(list[f].scopes) = import_idx - 1
        /\ \A i \in 1 .. import_idx - 1 : Leads(f, i)
    <3>1. Len(list) <= FileSlots
      BY <1>0, <1>3, <1>7, FileSlotsAssumption
    <3> QED
      BY <1>0, <1>1, <1>3, <3>1 DEF Loading, Worklist, Handled, Done
  <2>2. stale' = FALSE
    <3>1. path \notin DOMAIN indices => ~Full
      <4>1. path \notin DOMAIN indices => ~(n >= FileSlots)
        BY <1>3, <1>7, FileSlotsAssumption
      <4> QED
        BY <1>0, <1>3, <4>1, FullIsLarge
    <3> QED
      BY <1>2, <2>1, <3>1
  <2>3. ASSUME NEW e \in 1 .. m, e < f
        PROVE  /\ Len(list'[e].scopes) = Len(list'[e].imports)
               /\ \A i \in DOMAIN list'[e].imports : Leads(e, i)'
    <3>1. e \in 1 .. n /\ list'[e] = list[e]
      BY <1>3, <1>7, <2>3
    <3>2. ASSUME NEW i \in DOMAIN list[e].imports PROVE Leads(e, i)'
      <4>1. Leads(e, i)
        BY <2>1, <2>3, <3>1, <3>2
      <4>2. <<list[e].imports[i].text, e>> \in DOMAIN path_to_file
        BY <4>1 DEF Leads
      <4>3. <<list[e].imports[i].text, e>> # <<text, file_idx>>
        BY <1>0, <1>3, <2>3
      <4>4. /\ <<list[e].imports[i].text, e>> \in DOMAIN path_to_file'
            /\ path_to_file'[<<list[e].imports[i].text, e>>]
                 = path_to_file[<<list[e].imports[i].text, e>>]
        BY <1>2, <4>2, <4>3 DEF Extend
      <4> QED
        BY <1>1, <1>10, <3>1, <4>1, <4>4, LeadsOn
    <3> QED
      BY <2>1, <2>3, <3>1, <3>2
  <2>4. Len(list'[f].scopes) = import_idx
    <3>1. import_idx \in Nat
      BY <1>1 DEF Loading, Worklist, Position
    <3> QED
      BY <1>6, <1>7, <1>0, <2>1, <3>1
  <2>5. ASSUME NEW i \in 1 .. import_idx PROVE Leads(f, i)'
    <3>1. import_idx \in Nat
      BY <1>1 DEF Loading, Worklist, Position
    <3>2. CASE i = import_idx
      <4>1. list'[f].imports[i].text = text /\ list'[f].path = list[f].path
        BY <1>0, <1>2, <1>3, <1>8, <3>2
      <4>2. makeAbsolute(list[f].imports[i].text, list[f].path)' = path
        BY <1>0, <1>1, <1>2, <1>3, <1>8, <3>2 DEF makeAbsolute
      <4>3. <<text, f>> \in DOMAIN path_to_file' /\ path_to_file'[<<text, f>>] = target
        BY <1>0, <1>2 DEF Extend
      <4>4. list'[f].scopes[i] = target
        BY <1>0, <1>6, <1>7, <2>1, <3>1, <3>2
      <4> QED
        BY <1>10, <4>1, <4>2, <4>3, <4>4 DEF Leads, makeAbsolute
    <3>3. CASE i # import_idx
      <4>1. i \in 1 .. import_idx - 1 /\ Leads(f, i)
        BY <2>1, <2>5, <3>1, <3>3
      <4>2. /\ list'[f].path = list[f].path /\ list'[f].imports[i] = list[f].imports[i]
            /\ list'[f].scopes[i] = list[f].scopes[i]
        BY <1>0, <1>3, <1>6, <1>7, <1>8, <2>1, <4>1
      <4>3. /\ <<list[f].imports[i].text, f>> \in DOMAIN path_to_file'
            /\ path_to_file'[<<list[f].imports[i].text, f>>]
                 = path_to_file[<<list[f].imports[i].text, f>>]
        <5>1. CASE list[f].imports[i].text # text
          <6>1. <<list[f].imports[i].text, f>> \in DOMAIN path_to_file
            BY <4>1 DEF Leads
          <6>2. <<list[f].imports[i].text, f>> # <<text, file_idx>>
            BY <5>1
          <6> QED
            BY <1>2, <6>1, <6>2 DEF Extend
        <5>2. CASE list[f].imports[i].text = text
          <6>1. path \in DOMAIN indices /\ path_to_file[<<text, f>>] = indices[path]
            BY <1>0, <1>2, <4>1, <5>2 DEF Leads
          <6>2. target = indices[path]
            BY <1>2, <6>1
          <6> QED
            BY <1>0, <1>2, <5>2, <6>1, <6>2 DEF Extend
        <5> QED
          BY <5>1, <5>2
      <4> QED
        BY <1>1, <1>10, <4>1, <4>2, <4>3, LeadsOn
    <3> QED
      BY <3>2, <3>3
  <2>6. \A i \in 1 .. import_idx : Leads(file_idx, i)'
    BY <1>0, <1>1, <2>5 DEF Leads, makeAbsolute
  <2> QED
    BY <2>2, <2>3, <2>4, <2>6
<1> QED
  BY <1>12, <1>13, <1>14, <1>15, <1>16, <1>17, <1>18, <1>19 DEF Worklist

LEMMA OnceSame ==
  ASSUME LoadedOnce, list' = list, args' = args
  PROVE  LoadedOnce'
BY ZenonT(60) DEF LoadedOnce, makeAbsolute

(* The other steps leave the files as they are.                              *)
LEMMA SameFiles ==
  ASSUME Loading, phase # "arguments",
         UNCHANGED <<job, args, worklist, import_idx, stale>>,
         phase' \in Phases \ {"arguments", "imports"},
         phase' = "load" => phase = "imports" /\ file_idx' = file_idx + 1,
         file_idx' \in 1 .. Len(list) + 1, errors' \subseteq 0 .. Len(list),
         executable' \in {"none", "old", "new"}, status' \in {-1, 0, 1, 2, 127},
         Len(list) <= FileSlots =>
           \A f \in DOMAIN list : Done(f)' =>
             Done(f) \/ (phase = "imports" /\ f = file_idx /\ import_idx > Len(list[f].imports))
  PROVE  (Worklist /\ LoadedOnce)'
<1> USE DEF worklist
<1>1. Listed(list) /\ Len(list) \in Nat /\ DOMAIN list = 1 .. Len(list)
  BY ListedIsSeq DEF Loading, Worklist, Files
<1>2. Settings' /\ NotBegun'
  BY DEF Settings, NotBegun, Phases, Loading, Worklist
<1>3. Files' /\ Indexes' /\ ErrorFiles'
  BY DEF Files, Indexes, ErrorFiles, Loading, Worklist
<1>4. Position'
  BY <1>1 DEF Position, Loading, Worklist
<1>5. Ahead'
  <2> SUFFICES ASSUME phase' = "load", NEW i \in DOMAIN list,
                      (i > file_idx + 1 \/ i = file_idx + 1)
               PROVE  list[i].imports = <<>> /\ list[i].scopes = <<>>
    BY DEF Ahead
  <2>1. i > file_idx
    BY <1>1 DEF Loading, Worklist, Position
  <2> QED
    BY <2>1 DEF Ahead, Loading, Worklist
<1>6. LoadedOnce'
  BY OnceSame DEF Loading
<1>7. Handled'
  <2> SUFFICES ASSUME Len(list) <= FileSlots
               PROVE  /\ stale = FALSE
                      /\ \A f \in DOMAIN list : Done(f)' =>
                           /\ Len(list[f].scopes) = Len(list[f].imports)
                           /\ \A i \in DOMAIN list[f].imports : Leads(f, i)'
    BY DEF Handled
  <2>1. stale = FALSE
    BY DEF Handled, Loading, Worklist
  <2>2. ASSUME NEW f \in DOMAIN list, Done(f)'
        PROVE  /\ Len(list[f].scopes) = Len(list[f].imports)
               /\ \A i \in DOMAIN list[f].imports : Leads(f, i)
    <3>1. CASE Done(f)
      BY <3>1 DEF Handled, Loading, Worklist
    <3>2. CASE phase = "imports" /\ f = file_idx /\ import_idx > Len(list[f].imports)
      <4>1. /\ import_idx \in Nat /\ import_idx <= Len(list[f].imports) + 1
            /\ Len(list[f].imports) \in Nat /\ DOMAIN list[f].imports = 1 .. Len(list[f].imports)
        BY <3>2, ListedIsSeq DEF Position, Files, Loading, Worklist
      <4>2. import_idx - 1 = Len(list[f].imports)
        BY <3>2, <4>1
      <4>3. /\ Len(list[file_idx].scopes) = import_idx - 1
            /\ \A i \in 1 .. import_idx - 1 : Leads(file_idx, i)
        BY <3>2 DEF Handled, Loading, Worklist
      <4> QED
        BY <3>2, <4>1, <4>2, <4>3
    <3> QED
      BY <2>2, <3>1, <3>2
  <2>3. ASSUME NEW f, NEW i, Leads(f, i) PROVE Leads(f, i)'
    BY <2>3 DEF Leads, makeAbsolute
  <2> QED
    BY <2>1, <2>2, <2>3
<1> QED
  BY <1>2, <1>3, <1>4, <1>5, <1>6, <1>7 DEF Worklist

LEMMA NextFileLoading ==
  ASSUME Loading, NextFile \/ (ReadFreed /\ phase' # "crashed")
  PROVE  (Worklist /\ LoadedOnce /\ Objects)'
<1>1. /\ phase = "imports" /\ phase' = "load" /\ file_idx' = file_idx + 1
      /\ UNCHANGED <<job, args, worklist, import_idx, stale, errors, results>>
  BY DEF NextFile, ReadFreed, Crashes
<1>2. /\ Listed(list) /\ Len(list) \in Nat /\ DOMAIN list = 1 .. Len(list)
      /\ file_idx \in 1 .. Len(list)
  BY <1>1, ListedIsSeq DEF Loading, Worklist, Files, Position
<1>3. /\ executable' \in {"none", "old", "new"} /\ status' \in {-1, 0, 1, 2, 127}
      /\ errors' \subseteq 0 .. Len(list) /\ phase' \in Phases \ {"arguments", "imports"}
  BY <1>1 DEF results, Settings, ErrorFiles, Loading, Worklist, Phases
<1>4. ASSUME Len(list) <= FileSlots, NEW f \in DOMAIN list, Done(f)'
      PROVE  Done(f) \/ (phase = "imports" /\ f = file_idx /\ import_idx > Len(list[f].imports))
  <2>1. NextFile
    BY <1>4 DEF Handled, Loading, Worklist, ReadFreed
  <2>2. f < file_idx \/ f = file_idx
    BY <1>1, <1>2, <1>4 DEF Done
  <2> QED
    BY <1>1, <2>1, <2>2 DEF Done, NextFile
<1>5. (Worklist /\ LoadedOnce)'
  BY <1>1, <1>2, <1>3, <1>4, SameFiles
<1>6. Objects'
  BY <1>1 DEF Objects, EarlyPhases, Loading, results
<1> QED
  BY <1>5, <1>6

(* After the last file all are done, and stay so.                            *)
LEMMA LaterPasses ==
  ASSUME Loading, phase \notin {"arguments", "imports", "crashed"},
         phase = "load" => file_idx > Len(list),
         UNCHANGED <<job, args, worklist, import_idx, stale>>,
         phase' \in Phases \ {"arguments", "load", "imports"},
         file_idx' \in 1 .. Len(list) + 1, errors' \subseteq 0 .. Len(list),
         executable' \in {"none", "old", "new"}, status' \in {-1, 0, 1, 2, 127}
  PROVE  (Worklist /\ LoadedOnce)'
<1>1. Len(list) \in Nat /\ DOMAIN list = 1 .. Len(list)
  BY ListedIsSeq DEF Loading, Worklist, Files
<1>2. \A f \in DOMAIN list : Done(f)
  BY <1>1 DEF Done, Loading, Worklist, Position
<1> QED
  BY <1>2, SameFiles

(* The ways to leave a pass.                                                 *)
LEMMA ExitLoading ==
  ASSUME Loading, phase \notin {"arguments", "imports", "crashed"},
         phase = "load" => file_idx > Len(list),
         NEW code, code \in {0, 1, 2, 127}, Exits(code), args' = args
  PROVE  (Worklist /\ LoadedOnce /\ Objects)'
<1>1. /\ phase' = "exited" /\ status' = code
      /\ UNCHANGED <<job, worklist, import_idx, stale, file_idx, errors, outputs, disk,
                     linked, executable>>
  BY DEF Exits, position
<1>2. /\ executable' \in {"none", "old", "new"} /\ file_idx' \in 1 .. Len(list) + 1
      /\ errors' \subseteq 0 .. Len(list) /\ phase' \in Phases \ {"arguments", "load", "imports"}
  BY <1>1 DEF Settings, ErrorFiles, Position, Loading, Worklist, Phases
<1>3. (Worklist /\ LoadedOnce)'
  BY <1>1, <1>2, LaterPasses
<1>4. Objects'
  BY <1>1 DEF Objects, EarlyPhases, Loading
<1> QED
  BY <1>3, <1>4

LEMMA GateLoading ==
  ASSUME Loading, phase \in {"load", "uirgen", "analysis"},
         phase = "load" => file_idx > Len(list),
         NEW mode, NEW print, NEW next, next \in {"uirgen", "analysis", "codegen"},
         Gate(mode, print, next), args' = args
  PROVE  (Worklist /\ LoadedOnce /\ Objects)'
<1>1. CASE Exits(0) \/ Exits(1)
  BY <1>1, ExitLoading
<1>2. CASE /\ phase' = next /\ file_idx' = 1
           /\ UNCHANGED <<job, worklist, import_idx, stale, errors, results>>
  <2>1. Len(list) \in Nat
    BY ListedIsSeq DEF Loading, Worklist, Files
  <2>2. /\ executable' \in {"none", "old", "new"} /\ status' \in {-1, 0, 1, 2, 127}
        /\ file_idx' \in 1 .. Len(list) + 1 /\ errors' \subseteq 0 .. Len(list)
        /\ phase' \in Phases \ {"arguments", "load", "imports"}
    BY <1>2, <2>1 DEF Settings, ErrorFiles, Loading, Worklist, Phases, results
  <2>3. (Worklist /\ LoadedOnce)'
    BY <1>2, <2>2, LaterPasses
  <2>4. outputs' = <<>> /\ disk' = None /\ linked' = <<>>
    BY <1>2 DEF Objects, EarlyPhases, Loading, Inv, NothingMade, results
  <2>5. Objects'
    <3>1. Listed(outputs') /\ Len(outputs') = 0 /\ DOMAIN outputs' = {} /\ DOMAIN disk' = {}
      BY <2>4, EmptyListed DEF None
    <3> QED
      BY <1>2, <2>4, <3>1 DEF Objects
  <2> QED
    BY <2>3, <2>5
<1> QED
  BY <1>1, <1>2 DEF Gate

LEMMA PassesLoading ==
  ASSUME Loading, FinishLoading \/ GenerateUIR \/ FinishUIR \/ (\E failed \in BOOLEAN : Analyse(failed)),
         phase' # "crashed"
  PROVE  (Worklist /\ LoadedOnce /\ Objects)'
<1>1. CASE FinishLoading
  BY <1>1, GateLoading DEF FinishLoading
<1>2. CASE FinishUIR
  BY <1>2, GateLoading DEF FinishUIR
<1>3. CASE GenerateUIR
  <2>1. ~Crashes
    BY DEF Crashes
  <2>2. /\ phase = "uirgen" /\ phase' = "uirgen" /\ file_idx <= Len(list)
        /\ errors' \in {errors, errors \cup {file_idx}} /\ file_idx' = file_idx + 1
        /\ UNCHANGED <<job, args, worklist, import_idx, stale, results>>
    BY <1>3, <2>1 DEF GenerateUIR
  <2>3. Len(list) \in Nat /\ file_idx \in 1 .. Len(list)
    BY <2>2, ListedIsSeq DEF Loading, Worklist, Files, Position
  <2>4. /\ executable' \in {"none", "old", "new"} /\ status' \in {-1, 0, 1, 2, 127}
        /\ file_idx' \in 1 .. Len(list) + 1 /\ errors' \subseteq 0 .. Len(list)
    BY <2>2, <2>3 DEF Settings, ErrorFiles, Loading, Worklist, results
  <2>5. (Worklist /\ LoadedOnce)'
    BY <2>2, <2>4, LaterPasses DEF Phases
  <2>6. Objects'
    BY <2>2 DEF Objects, EarlyPhases, Loading, results
  <2> QED
    BY <2>5, <2>6
<1>4. ASSUME NEW failed \in BOOLEAN, Analyse(failed) PROVE (Worklist /\ LoadedOnce /\ Objects)'
  <2>1. CASE failed
    <3>1. /\ phase = "analysis" /\ phase' = "exited" /\ status' = 1 /\ errors' = errors \cup {0}
          /\ UNCHANGED <<job, args, worklist, import_idx, stale, file_idx, outputs, disk,
                         linked, executable>>
      BY <1>4, <2>1 DEF Analyse, position
    <3>2. Len(list) \in Nat
      BY ListedIsSeq DEF Loading, Worklist, Files
    <3>3. /\ executable' \in {"none", "old", "new"} /\ file_idx' \in 1 .. Len(list) + 1
          /\ errors' \subseteq 0 .. Len(list)
      BY <3>1, <3>2 DEF Settings, ErrorFiles, Position, Loading, Worklist
    <3>4. (Worklist /\ LoadedOnce)'
      BY <3>1, <3>3, LaterPasses DEF Phases
    <3>5. Objects'
      BY <3>1 DEF Objects, EarlyPhases, Loading
    <3> QED
      BY <3>4, <3>5
  <2>2. CASE ~failed
    <3>1. phase = "analysis" /\ args' = args /\ Gate("rir", All("rir"), "codegen")
      BY <1>4, <2>2 DEF Analyse
    <3> QED
      BY <3>1, GateLoading
  <2> QED
    BY <2>1, <2>2
<1> QED
  BY <1>1, <1>2, <1>3, <1>4

LEMMA GenerateCodeLoading ==
  ASSUME Loading, GenerateCode
  PROVE  (Worklist /\ LoadedOnce /\ Objects)'
<1>0. PICK name : name = list[file_idx].name
  OBVIOUS
<1>1. /\ phase = "codegen" /\ phase' = "codegen" /\ file_idx <= Len(list)
      /\ outputs' = Append(outputs, name) /\ disk' = Extend(disk, name, file_idx)
      /\ file_idx' = file_idx + 1
      /\ UNCHANGED <<job, args, worklist, import_idx, stale, errors, linked, executable, status>>
  BY <1>0 DEF GenerateCode
<1>2. /\ Listed(list) /\ Len(list) \in Nat /\ DOMAIN list = 1 .. Len(list)
      /\ file_idx \in 1 .. Len(list)
  BY <1>1, ListedIsSeq DEF Loading, Worklist, Files, Position
<1>3. /\ executable' \in {"none", "old", "new"} /\ status' \in {-1, 0, 1, 2, 127}
      /\ file_idx' \in 1 .. Len(list) + 1 /\ errors' \subseteq 0 .. Len(list)
  BY <1>1, <1>2 DEF Settings, ErrorFiles, Loading, Worklist
<1>4. (Worklist /\ LoadedOnce)'
  BY <1>1, <1>3, LaterPasses DEF Phases
<1>5. /\ Listed(outputs) /\ Len(outputs) = file_idx - 1 /\ DOMAIN outputs = 1 .. file_idx - 1
      /\ \A i \in 1 .. file_idx - 1 : outputs[i] = list[i].name
      /\ DOMAIN disk = {outputs[i] : i \in 1 .. file_idx - 1}
      /\ NamesDiffer => \A i \in 1 .. file_idx - 1 : disk[outputs[i]] = i
  BY <1>1, ListedIsSeq DEF Objects, Loading
<1>6. /\ Listed(outputs') /\ Len(outputs') = file_idx /\ DOMAIN outputs' = 1 .. file_idx
      /\ outputs'[file_idx] = name
      /\ \A i \in 1 .. file_idx - 1 : outputs'[i] = outputs[i]
  <2>1. PICK n : n = Len(outputs)
    OBVIOUS
  <2>2. n + 1 = file_idx
    BY <1>2, <1>5, <2>1
  <2> QED
    BY <1>1, <1>5, <2>1, <2>2, AppendListed
<1>7. \A i \in 1 .. file_idx : outputs'[i] = list[i].name
  BY <1>0, <1>2, <1>5, <1>6
<1>8. DOMAIN disk' = {outputs'[i] : i \in 1 .. file_idx}
  BY <1>1, <1>2, <1>5, <1>6 DEF Extend
<1>9. ASSUME NamesDiffer, NEW i \in 1 .. file_idx
      PROVE  disk'[outputs'[i]] = i
  <2>1. CASE i = file_idx
    BY <1>1, <1>6, <2>1 DEF Extend
  <2>2. CASE i # file_idx
    <3>1. i \in 1 .. file_idx - 1
      BY <1>2, <2>2
    <3>2. outputs[i] # name
      BY <1>0, <1>2, <1>5, <1>9, <2>2, <3>1 DEF NamesDiffer
    <3> QED
      BY <1>1, <1>5, <1>6, <1>9, <3>1, <3>2 DEF Extend
  <2> QED
    BY <2>1, <2>2
<1>10. Objects'
  <2>1. NamesDiffer' => NamesDiffer
    BY <1>1 DEF NamesDiffer, worklist
  <2>2. file_idx' - 1 = file_idx /\ list' = list
    BY <1>1, <1>2 DEF worklist
  <2> QED
    BY <1>1, <1>6, <1>7, <1>8, <1>9, <2>1, <2>2 DEF Objects, EarlyPhases
<1> QED
  BY <1>4, <1>10

LEMMA FinishCodeLoading ==
  ASSUME Loading, FinishCode
  PROVE  (Worklist /\ LoadedOnce /\ Objects)'
<1>1. phase = "codegen" /\ file_idx > Len(list) /\ args' = args
  BY DEF FinishCode
<1>2. CASE Exits(0)
  BY <1>1, <1>2, ExitLoading
<1>3. CASE /\ phase' = "link"
           /\ UNCHANGED <<job, worklist, position, errors, results>>
  <2>1. /\ executable' \in {"none", "old", "new"} /\ status' \in {-1, 0, 1, 2, 127}
        /\ file_idx' \in 1 .. Len(list) + 1 /\ errors' \subseteq 0 .. Len(list)
        /\ UNCHANGED <<import_idx, stale>>
    BY <1>3 DEF Settings, ErrorFiles, Position, Loading, Worklist, position, results
  <2>2. (Worklist /\ LoadedOnce)'
    BY <1>1, <1>3, <2>1, LaterPasses DEF Phases
  <2>3. file_idx - 1 = Len(list)
    <3>1. Len(list) \in Nat
      BY ListedIsSeq DEF Loading, Worklist, Files
    <3> QED
      BY <1>1, <3>1 DEF Loading, Worklist, Position
  <2>4. NamesDiffer' => NamesDiffer
    BY <1>3 DEF NamesDiffer, worklist
  <2>5. Objects'
    BY <1>1, <1>3, <2>3, <2>4 DEF Objects, EarlyPhases, Loading, worklist, results
  <2> QED
    BY <2>2, <2>5
<1> QED
  BY <1>2, <1>3 DEF FinishCode

LEMMA LinkLoading ==
  ASSUME Loading, Link
  PROVE  (Worklist /\ LoadedOnce /\ Objects)'
<1>1. /\ phase = "link" /\ phase' = "cleanup"
      /\ linked' = [i \in DOMAIN outputs |-> disk[outputs[i]]]
      /\ executable' \in {"new", executable}
      /\ UNCHANGED <<job, args, list, worklist, position, errors, outputs, disk, status>>
  BY DEF Link, worklist
<1>2. /\ executable' \in {"none", "old", "new"} /\ status' \in {-1, 0, 1, 2, 127}
      /\ file_idx' \in 1 .. Len(list) + 1 /\ errors' \subseteq 0 .. Len(list)
      /\ UNCHANGED <<import_idx, stale>>
  BY <1>1 DEF Settings, ErrorFiles, Position, Loading, Worklist, position
<1>3. (Worklist /\ LoadedOnce)'
  BY <1>1, <1>2, LaterPasses DEF Phases
<1>4. DOMAIN outputs = DOMAIN list
  BY <1>1, ListedIsSeq DEF Objects, Loading, Worklist, Files
<1>5. NamesDiffer => linked' = [i \in DOMAIN list |-> i]
  BY <1>1, <1>4 DEF Objects, Loading
<1>6. NamesDiffer' => NamesDiffer
  BY <1>1 DEF NamesDiffer
<1>7. Objects'
  BY <1>1, <1>5, <1>6 DEF Objects, EarlyPhases, Loading
<1> QED
  BY <1>3, <1>7

LEMMA CleanupLoading ==
  ASSUME Loading, Cleanup
  PROVE  (Worklist /\ LoadedOnce /\ Objects)'
<1>1. /\ phase = "cleanup" /\ phase' = "execute"
      /\ UNCHANGED <<job, args, list, worklist, position, errors, outputs, linked, executable, status>>
  BY DEF Cleanup, worklist
<1>2. /\ executable' \in {"none", "old", "new"} /\ status' \in {-1, 0, 1, 2, 127}
      /\ file_idx' \in 1 .. Len(list) + 1 /\ errors' \subseteq 0 .. Len(list)
      /\ UNCHANGED <<import_idx, stale>>
  BY <1>1 DEF Settings, ErrorFiles, Position, Loading, Worklist, position
<1>3. (Worklist /\ LoadedOnce)'
  BY <1>1, <1>2, LaterPasses DEF Phases
<1>4. disk' = None
  <2>1. DOMAIN disk \ {outputs[i] : i \in DOMAIN outputs} = {}
    BY <1>1 DEF Objects, Loading
  <2>2. disk' = [n \in {} |-> disk[n]]
    BY <2>1 DEF Cleanup
  <2> QED
    BY <2>2 DEF None
<1>5. NamesDiffer' => NamesDiffer
  BY <1>1 DEF NamesDiffer
<1>6. Objects'
  BY <1>1, <1>4, <1>5 DEF Objects, EarlyPhases, Loading
<1> QED
  BY <1>3, <1>6

LEMMA ExecuteLoading ==
  ASSUME Loading, Execute
  PROVE  (Worklist /\ LoadedOnce /\ Objects)'
<1>1. PICK code \in {0, 2, 127} : Exits(code)
  BY DEF Execute
<1> QED
  BY <1>1, ExitLoading DEF Execute

LEMMA NextLoading ==
  ASSUME Loading, [Next]_vars
  PROVE  Loading'
<1>1. Inv'
  BY NextStep DEF Loading
<1>2. CASE UNCHANGED vars
  <2>1. UNCHANGED <<job, args, worklist, list, position, errors, results, phase>>
    BY <1>2 DEF vars, worklist, position, results
  <2>2. Settings' /\ NotBegun' /\ Files' /\ Position' /\ Ahead' /\ Indexes' /\ ErrorFiles'
    BY <2>1 DEF Settings, NotBegun, Files, Position, Ahead, Indexes, ErrorFiles, Loading, Worklist,
                worklist, position, results
  <2>3. Handled'
    <3>1. ASSUME NEW f, NEW i, Leads(f, i) PROVE Leads(f, i)'
      BY <2>1, <3>1 DEF Leads, makeAbsolute, worklist
    <3>2. \A i : Leads(file_idx, i) => Leads(file_idx, i)'
      BY <2>1 DEF Leads, makeAbsolute, worklist, position
    <3>3. \A f : Done(f)' => Done(f)
      BY <2>1 DEF Done, position
    <3> QED
      BY <2>1, <3>1, <3>2, <3>3 DEF Handled, Loading, Worklist, position
  <2>4. LoadedOnce'
    BY <2>1, OnceSame DEF Loading
  <2>5. Objects'
    BY <2>1 DEF Objects, Loading, NamesDiffer, position, results
  <2> QED
    BY <1>1, <2>2, <2>3, <2>4, <2>5 DEF Loading, Worklist
<1>3. CASE Next /\ phase' = "crashed" /\ phase # "arguments"
  <2>1. Crashes /\ args' = args
    BY <1>3 DEF Next, LoadFile, HandleImport, ReadFreed, NextFile, FinishLoading, GenerateUIR,
                FinishUIR, Analyse, Gate, GenerateCode, FinishCode, Link, Cleanup, Execute, Exits,
                ReadOption, ReadValue, FinishArguments
  <2> QED
    BY <1>1, <1>3, <2>1, CrashWaits DEF Loading
<1>4. CASE Next /\ ~(phase' = "crashed" /\ phase # "arguments")
  <2>1. CASE ReadOption \/ ReadValue \/ FinishArguments
    BY <1>1, <2>1, ReadOptionLoading, ReadValueLoading, FinishArgumentsLoading DEF Loading
  <2>2. CASE LoadFile \/ HandleImport \/ ReadFreed \/ NextFile
    <3>1. phase' # "crashed"
      BY <1>4, <2>2 DEF LoadFile, HandleImport, ReadFreed, NextFile
    <3> QED
      BY <1>1, <2>2, <3>1, LoadFileLoading, HandleImportLoading, NextFileLoading DEF Loading
  <2>3. CASE FinishLoading \/ GenerateUIR \/ FinishUIR \/ \E failed \in BOOLEAN : Analyse(failed)
    <3>1. phase' # "crashed"
      BY <1>4, <2>3 DEF FinishLoading, GenerateUIR, FinishUIR, Analyse
    <3> QED
      BY <1>1, <2>3, <3>1, PassesLoading DEF Loading
  <2>4. CASE GenerateCode \/ FinishCode \/ Link \/ Cleanup \/ Execute
    BY <1>1, <2>4, GenerateCodeLoading, FinishCodeLoading, LinkLoading, CleanupLoading,
       ExecuteLoading DEF Loading
  <2> QED
    BY <1>4, <2>1, <2>2, <2>3, <2>4 DEF Next
<1> QED
  BY <1>2, <1>3, <1>4

(* The invariant of the loop that finds files while it parses others, and of *)
(* the passes after it (main.cpp:388-671).                                   *)
THEOREM LoadingAlways == Spec => []Loading
<1>1. Init => Loading
  BY InitLoading
<1>2. Loading /\ [Next]_vars => Loading'
  BY NextLoading
<1> QED
  BY <1>1, <1>2, PTL DEF Spec
-------------------------------------------------------------------------------
(* In every state of a run every variable of the driver has its type, and    *)
(* the two maps of the files lead into the list (main.cpp:359-475).          *)
THEOREM TypeCorrect == Spec => []TypeOK
<1>1. Loading => TypeOK
  <2> SUFFICES ASSUME Loading PROVE TypeOK
    OBVIOUS
  <2>1. /\ phase \in Phases /\ args.emit \in Modes /\ args.run \in BOOLEAN
        /\ executable \in {"none", "old", "new"} /\ status \in {-1, 0, 1, 2, 127}
    BY DEF Loading, Worklist, Settings, Arguments
  <2> QED
    BY <2>1 DEF TypeOK, Loading, Worklist, Position, Indexes, ErrorFiles
<1> QED
  BY <1>1, LoadingAlways, PTL

(* A file that is not on the command line is pushed once, when a file before *)
(* it imports it, whatever the packages and the order of the imports.        *)
THEOREM FilesLoadedOnce == Spec => []LoadedOnce
<1>1. Loading => LoadedOnce
  BY DEF Loading
<1> QED
  BY <1>1, LoadingAlways, PTL

(* As long as the list of files has not outgrown its first memory, every     *)
(* import that was handled leads to the file that it names, in path_to_file  *)
(* and in the scopes of its file.                                            *)
THEOREM ImportsFound == Spec => []ImportsResolve
<1>1. Loading => ImportsResolve
  <2> SUFFICES ASSUME Loading, Len(list) <= FileSlots,
                      NEW f \in DOMAIN list, Done(f), NEW i \in DOMAIN list[f].imports
               PROVE  LET key == <<list[f].imports[i].text, f>>
                      IN /\ key \in DOMAIN path_to_file
                         /\ list[path_to_file[key]].path = makeAbsolute(key[1], list[f].path)
                         /\ list[f].scopes[i] = path_to_file[key]
    BY DEF ImportsResolve
  <2> DEFINE text == list[f].imports[i].text
             path == makeAbsolute(text, list[f].path)
  <2>1. /\ path \in DOMAIN indices /\ <<text, f>> \in DOMAIN path_to_file
        /\ path_to_file[<<text, f>>] = indices[path] /\ list[f].scopes[i] = indices[path]
    BY DEF Loading, Worklist, Handled, Leads
  <2>2. list[indices[path]].path = path
    BY <2>1 DEF Loading, Worklist, Indexes
  <2>3. <<text, f>>[1] = text
    OBVIOUS
  <2> HIDE DEF path, text
  <2> QED
    BY <2>1, <2>2, <2>3 DEF path, text
<1> QED
  BY <1>1, LoadingAlways, PTL

(* If the names that the files are given differ, as the names of plain paths *)
(* do, the linker gets the object of every file once, in the order in which  *)
(* the files were found, and no object is left behind (main.cpp:606-669).    *)
THEOREM EveryFileLinked == Spec => [](NamesDiffer => LinksEveryFile)
<1>1. Loading => (NamesDiffer => LinksEveryFile)
  BY DEF Loading, Objects, LinksEveryFile
<1> QED
  BY <1>1, LoadingAlways, PTL
===============================================================================
