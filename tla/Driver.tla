-------------------------------- MODULE Driver --------------------------------
(*****************************************************************************)
(* main.cpp and helper.cpp: a run of the compiler, from its arguments to its *)
(* exit.  Files are found while files are parsed; each pass begins when the  *)
(* one before it has handled every file and counted no error.                *)
(*                                                                           *)
(* A path is a sequence of names from the root of the file system, without   *)
(* the extension of the last one; a name is a sequence of words and of the   *)
(* characters ".", ":" and "_".  The compiler is started in the root.        *)
(*****************************************************************************)
EXTENDS Integers, Sequences, FiniteSets
LOCAL INSTANCE SequencesExt

CONSTANTS
  spelled,       \* for a word or an import: its package and the names it is made of
  Jobs,          \* what a run may be given: see below
  Parse(_),      \* the parser's outcome for a source
  Symbolize(_),  \* the symbols of a tree
  FileSlots      \* the capacity that the list of files begins with

ASSUME FileSlotsAssumption == FileSlots \in Nat \ {0}

(* A job: the words of the command line, the files, and whether an           *)
(* executable is there from before.  The parser lists what a file imports.   *)
ASSUME JobsAssumption ==
  \A j \in Jobs :
    /\ j.argv \in Seq(STRING) /\ j.old \in {"none", "old"}
    /\ \A path \in DOMAIN j.sources :
         LET imports == Parse(j.sources[path]).imports
         IN imports \in Seq({imports[i] : i \in DOMAIN imports})

VARIABLES
  job, args,
  phase,         \* where main is
  list, indices, \* SourceFiles: its files, and the file of each path
  path_to_file,  \* for an import's text and the file it is in: its file
  file_idx,      \* the file that the present loop is at
  import_idx,    \* the import of it that is handled
  stale,         \* whether the pointer `file` is into a list that was freed
  errors,        \* the files with errors; 0 stands for the analysis
  printed,       \* what went to the standard output
  outputs, disk, \* the object files: their names, and what is in each
  linked,        \* what the linker was given
  executable,    \* what is at the output path
  status         \* the exit status

vars == <<job, args, phase, list, indices, path_to_file, file_idx,
          import_idx, stale, errors, printed, outputs, disk, linked,
          executable, status>>
results == <<printed, outputs, disk, linked, executable, status>>
worklist == <<list, indices, path_to_file>>
position == <<file_idx, import_idx, stale>>

Phases == {"arguments", "load", "imports", "uirgen", "analysis", "codegen",
           "link", "cleanup", "execute", "exited", "crashed"}
Modes == {"ast", "uir", "rir", "llvm", "asm", "object", "executable"}
Extend(f, x, y) == [z \in DOMAIN f \cup {x} |-> IF z = x THEN y ELSE f[z]]
None == [n \in {} |-> 0]
-------------------------------------------------------------------------------
(* The command line: an option that takes a value waits for it.              *)
Valued == {"--emit", "-e", "--linker", "-o", "--output", "--target", "--package"}
Defaults ==
  [emit |-> "executable", linker |-> "clang", optimize |-> "minimal", target |-> "",
   run |-> FALSE, paths |-> <<>>, output |-> "a.out", packages |-> None,
   next |-> 1, option |-> ""]

(* canonical: ".." is the directory above.                                   *)
Up == <<".", ".">>
Resolve(base, names) ==
  FoldLeft(LAMBDA path, name : IF name = Up THEN Front(path) ELSE Append(path, name),
           base, names)
IsFile(path) == path \in DOMAIN job.sources
IsDirectory(path) == \E file \in DOMAIN job.sources : IsStrictPrefix(path, file)
-------------------------------------------------------------------------------
(* helper.cpp.  The file that an import names, absolute; no such package or  *)
(* file ends the program.                                                    *)
makeAbsolute(text, importer) ==
  LET import == spelled[text]
  IN IF import.package = "" THEN Resolve(Front(importer), import.names)
     ELSE Resolve(args.packages[import.package], import.names)
Resolves(text, importer) ==
  LET package == spelled[text].package
  IN /\ package = "" \/ package \in DOMAIN args.packages
     /\ IsFile(makeAbsolute(text, importer))

Characters(path) == FlattenSeq([i \in DOMAIN path |-> <<"/">> \o path[i]])
Relative(path, base) ==
  LET common == CHOOSE n \in 0 .. Len(path) :
        /\ n <= Len(base) /\ SubSeq(path, 1, n) = SubSeq(base, 1, n)
        /\ n < Len(path) /\ n < Len(base) => path[n + 1] # base[n + 1]
      names == [i \in 1 .. Len(base) - common |-> Up] \o SubSeq(path, common + 1, Len(path))
  IN Tail(Characters(names))

(* A package is a prefix of the characters, not of the names; if several     *)
(* are, the order of the hash map's slots decides.                           *)
makeRelative(path, root) ==
  LET packages == {p \in DOMAIN args.packages :
                     IsPrefix(Characters(args.packages[p]), Characters(path))}
  IN IF packages = {} THEN {Relative(path, root)}
     ELSE {<<p, ":">> \o Relative(path, args.packages[p]) : p \in packages}

MangledNameOnly(path) ==  \* mutant: only the name of the file
  {<<Last(file)>> : file \in makeRelative(path, list[1].directory)}
MangledNames(path) ==
  LET Mangled(c) == CASE c \in {"/", ".", "_"} -> "_" [] c = ":" -> "-" [] OTHER -> c
  IN {[i \in DOMAIN name |-> Mangled(name[i])] :
        name \in makeRelative(path, list[1].directory)}

(* The list doubles when a file is pushed and it is full; its memory may     *)
(* then be another.                                                          *)
Capacities(n) ==
  LET capacity[k \in 0 .. n] == IF k = 0 THEN FileSlots ELSE 2 * capacity[k - 1]
  IN capacity
Full == \E k \in 0 .. Len(list) : Len(list) = Capacities(Len(list))[k]

NewFile(path) ==
  [path |-> path, directory |-> Front(path), name |-> <<>>, ast |-> "none",
   imports |-> <<>>, symbols |-> <<>>, scopes |-> <<>>]
-------------------------------------------------------------------------------
Init ==
  /\ job \in Jobs /\ args = Defaults /\ phase = "arguments"
  /\ list = <<>> /\ indices = None /\ path_to_file = None
  /\ file_idx = 1 /\ import_idx = 1 /\ stale = FALSE
  /\ errors = {} /\ printed = <<>> /\ outputs = <<>> /\ disk = None
  /\ linked = <<>> /\ executable = job.old /\ status = -1

Crashes ==
  /\ phase' = "crashed"
  /\ UNCHANGED <<job, worklist, position, errors, results>>
Exits(code) ==
  /\ phase' = "exited" /\ status' = code
  /\ UNCHANGED <<job, worklist, position, errors, outputs, disk, linked, executable>>

Word == job.argv[args.next]
Takes(read) ==
  /\ args' = [read EXCEPT !.next = @ + 1]
  /\ UNCHANGED <<job, phase, worklist, position, errors, results>>

ReadOption ==
  /\ phase = "arguments" /\ args.next <= Len(job.argv) /\ args.option = ""
  /\ \/ /\ Word \in {"--help", "--version"}
        /\ Exits(0) /\ UNCHANGED <<args, printed>>
     \/ Word \in {"--run", "-r"} /\ Takes([args EXCEPT !.run = TRUE])
     \/ Word \in Valued /\ Takes([args EXCEPT !.option = Word])
     \/ /\ Word \notin {"--help", "--version", "--run", "-r"} \cup Valued
        /\ Takes([args EXCEPT !.paths = Append(@, Word)])

(* An unknown mode or linker is passed over.                                 *)
ReadValue ==
  LET given == [args EXCEPT !.option = ""]
      package == spelled[Word]
      root == Resolve(<<>>, package.names)
  IN /\ phase = "arguments" /\ args.next <= Len(job.argv)
     /\ \/ /\ args.option \in {"--emit", "-e"}
           /\ Takes([given EXCEPT !.emit = IF Word \in Modes THEN Word ELSE @])
        \/ /\ args.option = "--linker"
           /\ Takes([given EXCEPT !.linker = IF Word \in {"clang", "ld"} THEN Word ELSE @])
        \/ /\ args.option = "-o" /\ Word \in {"none", "minimal"}
           /\ Takes([given EXCEPT !.optimize = Word])
        \/ /\ args.option = "-o" /\ Word \notin {"none", "minimal"}
           /\ Exits(1) /\ UNCHANGED <<args, printed>>
        \/ args.option = "--output" /\ Takes([given EXCEPT !.output = Word])
        \/ args.option = "--target" /\ Takes([given EXCEPT !.target = Word])
        \/ /\ args.option = "--package" /\ (IsFile(root) \/ IsDirectory(root))
           /\ Takes([given EXCEPT !.packages = Extend(@, package.package, root)])
        \/ /\ args.option = "--package" /\ ~IsFile(root) /\ ~IsDirectory(root)
           /\ Crashes /\ UNCHANGED args

(* The files are pushed whether they are there already or not; the last of   *)
(* equals is found by its path.                                              *)
FinishArguments ==
  LET path(i) == Resolve(<<>>, spelled[args.paths[i]].names)
      last(p) == CHOOSE i \in DOMAIN args.paths :
                   path(i) = p /\ \A j \in DOMAIN args.paths : path(j) = p => j <= i
  IN /\ phase = "arguments" /\ args.next > Len(job.argv)
     /\ \/ args.option # "" /\ Exits(1) /\ UNCHANGED printed
        \/ args.option = "" /\ args.paths = <<>> /\ Exits(0) /\ UNCHANGED printed
        \/ /\ args.option = "" /\ args.paths # <<>>
           /\ IF \E i \in DOMAIN args.paths : ~IsFile(path(i)) THEN Crashes
              ELSE /\ phase' = "load"
                   /\ list' = [i \in DOMAIN args.paths |-> NewFile(path(i))]
                   /\ indices' = [p \in {path(i) : i \in DOMAIN args.paths} |-> last(p)]
                   /\ UNCHANGED <<job, path_to_file, position, errors, results>>
     /\ UNCHANGED args

(* Name, tokenize, parse, print, count, symbolize.                           *)
LoadFileOn ==  \* mutant: the loop over the imports begins where the last one ended
  /\ phase = "load" /\ file_idx <= Len(list)
  /\ LET file == list[file_idx]
     IN \E parsed \in {Parse(job.sources[file.path])}, name \in MangledNames(file.path) :
          list' = [list EXCEPT ![file_idx] =
            [file EXCEPT !.name = name, !.ast = parsed.node, !.imports = parsed.imports]]
  /\ phase' = "imports"
  /\ stale' = FALSE
  /\ UNCHANGED <<job, args, indices, path_to_file, file_idx, import_idx, errors, results>>
LoadFile ==
  LET file == list[file_idx]
  IN /\ phase = "load" /\ file_idx <= Len(list)
     /\ \E parsed \in {Parse(job.sources[file.path])} :
          IF parsed.node.kind = "crash" \/ (parsed.node.kind = "null" /\ args.emit = "ast")
          THEN Crashes
          ELSE /\ \E name \in MangledNames(file.path) :
                    list' = [list EXCEPT ![file_idx] =
                      [file EXCEPT !.name = name, !.ast = parsed.node,
                                   !.imports = parsed.imports,
                                   !.symbols = Symbolize(parsed.node)]]
               /\ printed' = IF args.emit = "ast" THEN Append(printed, <<"ast", file_idx>>)
                             ELSE printed
               /\ errors' = IF parsed.failed THEN errors \cup {file_idx} ELSE errors
               /\ phase' = "imports" /\ import_idx' = 1 /\ stale' = FALSE
               /\ UNCHANGED <<job, indices, path_to_file, file_idx,
                              outputs, disk, linked, executable, status>>
     /\ UNCHANGED args

PathToFileByText(text) == <<text, 1>>  \* mutant: the file is left out of the key
ImportKey(text) == <<text, file_idx>>

NotIndexed(path) == indices  \* mutant: push leaves the index as it was
Indexed(path) == Extend(indices, path, Len(list) + 1)

HandleExistingAgain ==  \* mutant: `continue` before the loop advances
  LET file == list[file_idx]
      text == file.imports[import_idx].text
      path == makeAbsolute(text, file.path)
  IN /\ phase = "imports" /\ import_idx <= Len(file.imports)
     /\ Resolves(text, file.path)
     /\ IF path \in DOMAIN indices
        THEN UNCHANGED <<worklist, import_idx, stale>>
        ELSE /\ path_to_file' = Extend(path_to_file, ImportKey(text), Len(list) + 1)
             /\ import_idx' = import_idx + 1
             /\ list' = Append(list, NewFile(path))
             /\ indices' = Extend(indices, path, Len(list) + 1)
             /\ UNCHANGED stale
     /\ UNCHANGED <<job, args, phase, file_idx, errors, results>>

HandleImport ==
  LET file == list[file_idx]
      text == file.imports[import_idx].text
      path == makeAbsolute(text, file.path)
      To(i) ==
        /\ path_to_file' = Extend(path_to_file, ImportKey(text), i)
        /\ import_idx' = import_idx + 1
  IN /\ phase = "imports" /\ import_idx <= Len(file.imports)
     /\ IF ~Resolves(text, file.path) THEN Crashes
        ELSE /\ IF path \in DOMAIN indices
                THEN /\ To(indices[path])
                     /\ list' = [list EXCEPT ![file_idx].scopes = Append(@, indices[path])]
                     /\ UNCHANGED <<indices, stale>>
                ELSE /\ To(Len(list) + 1)
                     /\ list' = Append([list EXCEPT ![file_idx].scopes = Append(@, Len(list) + 1)],
                                       NewFile(path))
                     /\ indices' = Indexed(path)
                     /\ stale' \in IF Full THEN {stale, TRUE} ELSE {stale}
             /\ UNCHANGED <<job, phase, file_idx, errors, results>>
     /\ UNCHANGED args

(* After the list has moved, `file` is into memory that was freed: what is   *)
(* read there may still be as it was, or not be an import at all.            *)
ReadFreed ==
  /\ phase = "imports" /\ stale
  /\ \/ Crashes
     \/ /\ phase' = "load" /\ file_idx' = file_idx + 1
        /\ UNCHANGED <<job, worklist, import_idx, stale, errors, results>>
  /\ UNCHANGED args

NextFile ==
  /\ phase = "imports" /\ import_idx > Len(list[file_idx].imports)
  /\ phase' = "load" /\ file_idx' = file_idx + 1
  /\ UNCHANGED <<job, args, worklist, import_idx, stale, errors, results>>
-------------------------------------------------------------------------------
(* The passes.  Between two of them: the errors, and what was to be emitted. *)
Gate(mode, print, next) ==
  \/ /\ errors # {}
     /\ Exits(1) /\ UNCHANGED printed
  \/ /\ errors = {} /\ args.emit = mode
     /\ Exits(0) /\ printed' = printed \o print
  \/ /\ errors = {} /\ args.emit # mode
     /\ phase' = next /\ file_idx' = 1
     /\ UNCHANGED <<job, worklist, import_idx, stale, errors, results>>
All(stage) == [i \in DOMAIN list |-> <<stage, i>>]

FinishLoading ==
  /\ phase = "load" /\ file_idx > Len(list)
  /\ Gate("ast", <<>>, "uirgen")
  /\ UNCHANGED args

(* A file without a tree, or an import without a file, is a null pointer.    *)
GenerateUIR ==
  LET file == list[file_idx]
  IN /\ phase = "uirgen" /\ file_idx <= Len(list)
     /\ IF \/ file.ast.kind = "null"
           \/ \E i \in DOMAIN file.imports :
                 ImportKey(file.imports[i].text) \notin DOMAIN path_to_file
        THEN Crashes
        ELSE /\ errors' \in {errors, errors \cup {file_idx}}
             /\ file_idx' = file_idx + 1
             /\ UNCHANGED <<job, phase, worklist, import_idx, stale, results>>
     /\ UNCHANGED args

FinishUIRAnyway ==  \* mutant: the errors are not looked at
  /\ phase = "uirgen" /\ file_idx > Len(list)
  /\ phase' = "analysis" /\ file_idx' = 1
  /\ UNCHANGED <<job, args, worklist, import_idx, stale, errors, results>>
FinishUIR ==
  /\ phase = "uirgen" /\ file_idx > Len(list)
  /\ Gate("uir", All("uir"), "analysis")
  /\ UNCHANGED args

Analyse(failed) ==
  /\ phase = "analysis"
  /\ IF failed
     THEN /\ errors' = errors \cup {0} /\ phase' = "exited" /\ status' = 1
          /\ UNCHANGED <<job, worklist, position, printed, outputs, disk, linked, executable>>
     ELSE Gate("rir", All("rir"), "codegen")
  /\ UNCHANGED args

(* The object is written to the working directory.                           *)
GenerateCode ==
  LET name == list[file_idx].name
  IN /\ phase = "codegen" /\ file_idx <= Len(list)
     /\ outputs' = Append(outputs, name)
     /\ disk' = Extend(disk, name, file_idx)
     /\ file_idx' = file_idx + 1
     /\ UNCHANGED <<job, args, phase, worklist, import_idx, stale, errors,
                    printed, linked, executable, status>>
FinishCode ==
  /\ phase = "codegen" /\ file_idx > Len(list)
  /\ IF args.emit = "executable"
     THEN /\ phase' = "link"
          /\ UNCHANGED <<job, worklist, position, errors, results>>
     ELSE Exits(0) /\ UNCHANGED printed
  /\ UNCHANGED args

(* Whether the linker fails is not looked at.                                *)
Link ==
  /\ phase = "link" /\ phase' = "cleanup"
  /\ linked' = [i \in DOMAIN outputs |-> disk[outputs[i]]]
  /\ executable' \in {"new", executable}
  /\ UNCHANGED <<job, args, worklist, position, errors, printed, outputs, disk, status>>
Cleanup ==
  /\ phase = "cleanup" /\ phase' = "execute"
  /\ disk' = [n \in DOMAIN disk \ {outputs[i] : i \in DOMAIN outputs} |-> disk[n]]
  /\ printed' = Append(printed, <<"Compilation Success", 0>>)
  /\ UNCHANGED <<job, args, worklist, position, errors, outputs, linked, executable, status>>

(* 127 is the status of a shell that finds no program, 2 stands for that of  *)
(* the program.                                                              *)
Execute ==
  /\ phase = "execute"
  /\ Exits(CASE ~args.run -> 0
              [] args.run /\ executable = "none" -> 127
              [] OTHER -> 2)
  /\ UNCHANGED <<args, printed>>

Next ==
  \/ ReadOption \/ ReadValue \/ FinishArguments \/ LoadFile \/ HandleImport \/ ReadFreed \/ NextFile
  \/ FinishLoading \/ GenerateUIR \/ FinishUIR \/ \E failed \in BOOLEAN : Analyse(failed)
  \/ GenerateCode \/ FinishCode \/ Link \/ Cleanup \/ Execute

(* One thread that waits for nothing.                                        *)
Spec == Init /\ [][Next]_vars /\ WF_vars(Next)
-------------------------------------------------------------------------------
TypeOK ==
  /\ phase \in Phases
  /\ args.emit \in Modes /\ args.run \in BOOLEAN /\ stale \in BOOLEAN
  /\ file_idx \in 1 .. Len(list) + 1
  /\ import_idx \in Nat \ {0}
  /\ phase = "imports" =>
       file_idx <= Len(list) /\ import_idx <= Len(list[file_idx].imports) + 1
  /\ \A path \in DOMAIN indices :
       indices[path] \in DOMAIN list /\ list[indices[path]].path = path
  /\ \A key \in DOMAIN path_to_file : path_to_file[key] \in DOMAIN list
  /\ errors \subseteq 0 .. Len(list)
  /\ executable \in {"none", "old", "new"} /\ status \in {-1, 0, 1, 2, 127}

Done(f) ==  \* the imports of file f have been handled
  /\ phase # "crashed"
  /\ phase \in {"load", "imports"} => f < file_idx

(* Every import of every file, in whatever order and spelling, leads uirgen  *)
(* to the file that it names (main.cpp:442-475, record.cpp:182-196), as long *)
(* as the list of files has not moved in memory.                             *)
ImportsResolve ==
  Len(list) <= FileSlots =>
    \A f \in DOMAIN list : Done(f) =>
      \A i \in DOMAIN list[f].imports :
        LET key == <<list[f].imports[i].text, f>>
        IN /\ key \in DOMAIN path_to_file
           /\ list[path_to_file[key]].path = makeAbsolute(key[1], list[f].path)
           /\ list[f].scopes[i] = path_to_file[key]

(* A file is loaded once, because it is imported by one that was found       *)
(* before it, or because it is on the command line (main.cpp:359-386, 464).  *)
LoadedOnce ==
  \A j \in DOMAIN list : j > Len(args.paths) =>
    /\ \A i \in 1 .. j - 1 : list[i].path # list[j].path
    /\ \E i \in 1 .. j - 1 : \E k \in DOMAIN list[i].imports :
         list[j].path = makeAbsolute(list[i].imports[k].text, list[i].path)

(* Once an error was counted no later pass begins, nothing is generated or   *)
(* linked, and the exit status tells (main.cpp:495, 552, 587).               *)
StopsOnErrors ==
  [][errors # {} /\ phase' # phase =>
       /\ phase' \in {"load", "imports", "exited", "crashed"}
       /\ phase' = "exited" => status' = 1 /\ outputs' = <<>> /\ executable' = job.old]_vars

(* The linker is given every file just once, and no object is left behind    *)
(* (main.cpp:606-669): when no file is on the command line twice, and no     *)
(* name has a character that mangling replaces.                              *)
Plain ==
  /\ \A i, j \in DOMAIN list : list[i].path = list[j].path => i = j
  /\ \A i \in DOMAIN list : Range(Characters(list[i].path)) \cap {".", ":", "_"} = {}
LinksEveryFile ==
  Plain => /\ phase \in {"cleanup", "execute"} => linked = [i \in DOMAIN list |-> i]
           /\ phase = "execute" => disk = None

(* A run ends, also when files import one another.                           *)
Ends == <>(phase \in {"exited", "crashed"})

===============================================================================
