------------------------------- MODULE Inspect -------------------------------
(* inspect(): what it makes of its input before the project is built. Paths   *)
(* are normalized one after the other and the first failure ends the call.    *)
(* The project indexes the entrypoints and, of the other files, those their   *)
(* imports lead to; the facade looks files up among the indexed ones.         *)
EXTENDS LogicalPaths, FiniteSets

CONSTANTS
  Inputs,     \* [root, files, entrypoints, stdlib, acton, mappings] of spellings
  TolkNames,  \* the file names that end in .tolk
  Missing     \* an optional root that was not given

VARIABLES
  input,     \* the input of the call
  step,      \* what is normalized next, "built" or "failed"
  todo,      \* the spellings of this step that are left, in the order of the map
  root,      \* the normalized root of the project
  libraries, \* the normalized roots of the libraries
  files,     \* the normalized paths of the files
  roots,     \* the normalized entrypoints
  indexed    \* the paths of the files in the project that was built

vars == <<input, step, todo, root, libraries, files, roots, indexed>>
-----------------------------------------------------------------------------
Steps == <<"root", "stdlib", "acton", "files", "entrypoints", "presence", "mappings", "built">>
After(s) == Steps[SelectInSeq(Steps, LAMBDA t : t = s) + 1]

Fail == /\ step' = "failed"
        /\ UNCHANGED <<input, todo, root, libraries, files, roots, indexed>>

NormalizeRoot ==
  /\ step = "root"
  /\ LET path == LogicalPath(FileSystemRoot, input.root) IN
     IF path = Refused
       THEN Fail
       ELSE /\ root' = path
            /\ step' = "stdlib"
            /\ UNCHANGED <<input, todo, libraries, files, roots, indexed>>

NormalizeLibrary(spelling) ==
  LET path == LogicalPath(root, spelling) IN
  IF spelling # Missing /\ path = Refused
    THEN Fail
    ELSE /\ libraries' = IF spelling = Missing THEN libraries ELSE libraries \union {path}
         /\ step' = After(step)
         /\ todo' = IF step = "acton" THEN input.files ELSE <<>>
         /\ UNCHANGED <<input, root, files, roots, indexed>>

NormalizeStdlib == step = "stdlib" /\ NormalizeLibrary(input.stdlib)
NormalizeActon == step = "acton" /\ NormalizeLibrary(input.acton)

(* Faulty: two spellings of one file are taken for one.                       *)
InsertFileAgain ==
  /\ step = "files"
  /\ todo # <<>>
  /\ LET path == LogicalPath(root, Head(todo)) IN
     IF path = Refused
       THEN Fail
       ELSE /\ files' = files \union {path}
            /\ todo' = Tail(todo)
            /\ UNCHANGED <<input, step, root, libraries, roots, indexed>>

InsertFile ==
  /\ step = "files"
  /\ todo # <<>>
  /\ LET path == LogicalPath(root, Head(todo)) IN
     IF path = Refused \/ path \in files
       THEN Fail
       ELSE /\ files' = files \union {path}
            /\ todo' = Tail(todo)
            /\ UNCHANGED <<input, step, root, libraries, roots, indexed>>

NoFiles == step = "files" /\ todo = <<>> /\ files = {} /\ Fail

FilesRead ==
  /\ step = "files" /\ todo = <<>> /\ files # {}
  /\ step' = "entrypoints"
  /\ todo' = input.entrypoints
  /\ UNCHANGED <<input, root, libraries, files, roots, indexed>>

AddEntrypoint ==
  /\ step = "entrypoints"
  /\ todo # <<>>
  /\ LET path == LogicalPath(root, Head(todo)) IN
     IF path = Refused
       THEN Fail
       ELSE /\ roots' = roots \union {path}
            /\ todo' = Tail(todo)
            /\ UNCHANGED <<input, step, root, libraries, files, indexed>>

(* Faulty: the files of the libraries are entrypoints too.                    *)
DefaultRootsEverywhere ==
  {path \in files : path # <<>> /\ Last(path) \in TolkNames}

(* Path::starts_with compares whole components. *)
DefaultRoots ==
  {path \in files :
     /\ path # <<>> /\ Last(path) \in TolkNames
     /\ \A library \in libraries : ~ IsPrefix(library, path)}

EntrypointsRead ==
  /\ step = "entrypoints" /\ todo = <<>>
  /\ LET chosen == IF roots = {} THEN DefaultRoots ELSE roots IN
     IF chosen = {}
       THEN Fail
       ELSE /\ roots' = chosen
            /\ step' = "presence"
            /\ UNCHANGED <<input, todo, root, libraries, files, indexed>>

CheckPresence ==
  /\ step = "presence"
  /\ IF roots \subseteq files
       THEN /\ step' = "mappings"
            /\ todo' = input.mappings
            /\ UNCHANGED <<input, root, libraries, files, roots, indexed>>
       ELSE Fail

MapImport ==
  /\ step = "mappings"
  /\ todo # <<>>
  /\ IF LogicalPath(root, Head(todo)) = Refused
       THEN Fail
       ELSE /\ todo' = Tail(todo)
            /\ UNCHANGED <<input, step, root, libraries, files, roots, indexed>>

(* ProjectIndex takes the roots and follows their imports; which files those  *)
(* name is not decided here. The provider serves no file but the given ones.  *)
BuildProject ==
  /\ step = "mappings"
  /\ todo = <<>>
  /\ \E reached \in SUBSET files : roots \subseteq reached /\ indexed' = reached
  /\ step' = "built"
  /\ UNCHANGED <<input, todo, root, libraries, files, roots>>

(* The index reports an error of its own, for one an import it cannot follow. *)
BuildFails == step = "mappings" /\ todo = <<>> /\ Fail

Init ==
  /\ input \in Inputs
  /\ step = "root"
  /\ todo = <<>>
  /\ root = FileSystemRoot
  /\ libraries = {}
  /\ files = {}
  /\ roots = {}
  /\ indexed = {}

Next ==
  \/ NormalizeRoot \/ NormalizeStdlib \/ NormalizeActon
  \/ InsertFile \/ NoFiles \/ FilesRead
  \/ AddEntrypoint \/ EntrypointsRead \/ CheckPresence
  \/ MapImport \/ BuildProject \/ BuildFails

Spec == Init /\ [][Next]_vars
-----------------------------------------------------------------------------
Spellings(i) ==
  ToSet(i.files) \union ToSet(i.entrypoints) \union ToSet(i.mappings)
    \union ({i.stdlib, i.acton} \ {Missing})

(* project.file(): the indexed file under the path that a spelling names, if  *)
(* there is one.                                                              *)
FileAt(spelling) == {LookupPath(root, spelling)} \intersect indexed

(* The analyzer normalizes the spellings of the input and refuses a path that *)
(* escapes; the facade normalizes what it is asked for and clamps there. In   *)
(* an accepted input they agree: no two of its spellings name one file to the *)
(* facade, each names the file it named to the analyzer if that is indexed    *)
(* and none otherwise, so that each indexed file is found under the spelling  *)
(* it was given under, and every entrypoint is found under its own.           *)
IndexedFilesAreFound ==
  step = "built" =>
    /\ \A i, j \in DOMAIN input.files :
         LookupPath(root, input.files[i]) = LookupPath(root, input.files[j]) => i = j
    /\ \A i \in DOMAIN input.files :
         FileAt(input.files[i]) = {LogicalPath(root, input.files[i])} \intersect indexed
    /\ \A path \in indexed : \E i \in DOMAIN input.files : FileAt(input.files[i]) = {path}
    /\ \A i \in DOMAIN input.entrypoints : FileAt(input.entrypoints[i]) # {}

(* The analysis starts from files it was given; when it chooses them itself,  *)
(* none lies in a library, whatever the spelling of the library's root.       *)
RootsAreOwnFiles ==
  step = "built" =>
    /\ roots # {} /\ roots \subseteq files
    /\ input.entrypoints = <<>> =>
         \A path \in roots : \A library \in {input.stdlib, input.acton} \ {Missing} :
           ~ IsPrefix(LookupPath(root, library), path)

(* Climbs(parts) holds when a prefix of parts has more ".." than names. *)
Climbs(parts) ==
  \E n \in DOMAIN parts :
    Cardinality({i \in 1..n : parts[i] = Up})
      > Cardinality({i \in 1..n : parts[i] \notin {Up, Here}})
Illegal(top, spelling) ==
  spelling.blank \/ Climbs(Components(top, spelling))

(* An input is refused for a path that is blank or climbs above the file      *)
(* system in any of its parts, wherever in the input it comes.                *)
IllegalPathsAreRefused ==
  step = "built" =>
    /\ ~ Illegal(FileSystemRoot, input.root)
    /\ \A spelling \in Spellings(input) : ~ Illegal(root, spelling)
=============================================================================
