------------------------------ MODULE Project ------------------------------
(* A project from its input to its disposal: inspect() validates the input,   *)
(* the analyzer answers with a snapshot, and the facade opens projects over   *)
(* it. A snapshot is data: a program may also keep one of another version.    *)
EXTENDS Naturals, Sequences

CONSTANTS
  Inputs, TolkNames, Missing, Up, Here, Refused,            \* see Inspect
  Projects, Iterators, Snapshots, Version, None, Threw      \* see Facade

ASSUME ComponentsAssumption == Up # Here

(* Every path of an input is spelled with components from P, and what stands  *)
(* for a refusal is not a path.                                               *)
SpelledWith(P) == [absolute: BOOLEAN, parts: Seq(P), blank: BOOLEAN]
InputsAreSpelled(P) ==
  /\ Refused \notin Seq(P)
  /\ Inputs \subseteq
       [root: SpelledWith(P), files: Seq(SpelledWith(P)), entrypoints: Seq(SpelledWith(P)),
        stdlib: SpelledWith(P) \union {Missing}, acton: SpelledWith(P) \union {Missing},
        mappings: Seq(SpelledWith(P))]

(* The ids of the nodes are those of a walk in source order: a node comes     *)
(* after its parent, and nothing that follows the node inside its parent      *)
(* hangs above it.                                                            *)
SourceOrdered(parent) ==
  /\ parent \in Seq(Nat) /\ parent # <<>> /\ parent[1] = 0
  /\ \A id \in 2..Len(parent) :
       /\ parent[id] \in 1..(id - 1)
       /\ \A other \in (parent[id] + 1)..(id - 1) : parent[other] >= parent[id]

ASSUME SnapshotsAssumption ==
  \A s \in Snapshots : SourceOrdered(s.parent) /\ s.symbols \subseteq DOMAIN s.parent

(* What stands for nothing or for a throw is neither a node, a list of nodes, *)
(* a state nor a generator.                                                   *)
ASSUME MarksAssumption ==
  None \notin Nat /\ None \notin Iterators /\ Threw \notin Seq(Nat) /\ Threw \notin {"suspended", "done"}

VARIABLES
  input, step, todo, root, libraries, files, roots, indexed, \* see Inspect
  snapshot, status, nodes, iterator, running, lookup         \* see Facade

Validation == INSTANCE Inspect
Use == INSTANCE Facade

validation == <<input, step, todo, root, libraries, files, roots, indexed>>
use == <<snapshot, status, nodes, iterator, running, lookup>>
vars == <<validation, use>>
-----------------------------------------------------------------------------
Init == Validation!Init /\ Use!Init

Validate == Validation!Next /\ UNCHANGED use

(* Only an input that was accepted leads to a snapshot. *)
Built == step = "built"
Uses == Built /\ Use!Next /\ UNCHANGED validation
Advance(i) == Built /\ Use!InNext(i) /\ UNCHANGED validation

Next == Validate \/ Uses

(* next() is synchronous: once called it runs until it returns or throws. *)
Spec == Init /\ [][Next]_vars /\ \A i \in Iterators : WF_vars(Advance(i))
-----------------------------------------------------------------------------
(* See Inspect. *)
IndexedFilesAreFound == Validation!IndexedFilesAreFound
(* See Inspect. *)
RootsAreOwnFiles == Validation!RootsAreOwnFiles
(* See Inspect. *)
IllegalPathsAreRefused == Validation!IllegalPathsAreRefused

(* See Facade. *)
IterationIsWhole == Use!IterationIsWhole
(* See Facade. *)
SymbolForIsNearest == Use!SymbolForIsNearest
(* See Facade. *)
EveryNextReturns == Use!EveryNextReturns
=============================================================================
