----------------------------- MODULE MCProject -----------------------------
(* Inputs of up to two files, one entrypoint and one mapping, spelled in the  *)
(* ways a path can be spelled: relative, absolute, through "." and "..", out  *)
(* of the root, blank. And, behind one of them, every syntax tree of up to    *)
(* Size nodes, in a snapshot of this version or of another one, with every    *)
(* choice of the nodes that declare a symbol in the trees with fewer nodes,   *)
(* some choices in the largest.                                               *)
EXTENDS Project

CONSTANTS P, Lib, A, B, Blank, Size, OtherVersion

Spelling(absolute, parts) == [absolute |-> absolute, parts |-> parts, blank |-> FALSE]
White == [absolute |-> FALSE, parts |-> <<Blank>>, blank |-> TRUE]

Roots == {Spelling(TRUE, <<P>>), Spelling(FALSE, <<Here, P>>), Spelling(TRUE, <<P, Up, Up>>)}
FileSpellings ==
  { Spelling(FALSE, <<A>>), Spelling(FALSE, <<Here, A>>), Spelling(TRUE, <<P, A>>),
    Spelling(FALSE, <<Up, P, A>>), Spelling(FALSE, <<Up, Up, P, A>>),
    Spelling(FALSE, <<Lib, A>>), Spelling(FALSE, <<Lib, Up, B>>), Spelling(TRUE, <<Lib, A>>),
    White }
LibraryRoots ==
  { Missing, Spelling(FALSE, <<Lib>>), Spelling(TRUE, <<P, Here, Lib>>), Spelling(TRUE, <<Lib>>),
    Spelling(FALSE, <<Lib, Up, Lib>>), Spelling(TRUE, <<Up>>) }
UpTo(n, S) == UNION {[1..k -> S] : k \in 0..n}

MCInputs ==
  [ root: Roots,
    files: {s \in UpTo(2, FileSpellings) : Len(s) = 2 => s[1] # s[2]},
    entrypoints: UpTo(1, {Spelling(FALSE, <<A>>), Spelling(FALSE, <<Up, Up>>), Spelling(TRUE, <<P, B>>)}),
    stdlib: LibraryRoots, acton: {Missing, Spelling(TRUE, <<Lib>>)},
    mappings: UpTo(1, {Spelling(FALSE, <<Lib>>), Spelling(FALSE, <<Up, Up>>)}) ]

ASSUME InputsAssumption == InputsAreSpelled({P, Lib, A, B, Blank, Up, Here})

(* Numbered in source order: the parent of a node is the node before it or    *)
(* one of those around that.                                                  *)
InSourceOrder(parent) ==
  \A id \in DOMAIN parent \ {1} :
    /\ parent[id] \in 1..(id - 1)
    /\ \A other \in (parent[id] + 1)..(id - 1) : parent[other] >= parent[id]

Trees(n) == {parent \in [1..n -> 0..n] : parent[1] = 0 /\ InSourceOrder(parent)}

SnapshotsOver(n, symbols) ==
  [parent: Trees(n), symbols: symbols, version: {Version, OtherVersion}]

MCSnapshots ==
  UNION {SnapshotsOver(n, SUBSET (1..n)) : n \in 1..(Size - 1)}
    \union SnapshotsOver(Size, {{}, {1, 2}})

(* All inputs with one snapshot, which is refused, and one with all of them.  *)
MCInit ==
  /\ Init
  /\ \/ snapshot = [parent |-> <<0>>, symbols |-> {}, version |-> OtherVersion]
     \/ input = [root |-> Spelling(TRUE, <<P>>), files |-> <<Spelling(FALSE, <<A>>)>>, entrypoints |-> <<>>,
                 stdlib |-> Missing, acton |-> Missing, mappings |-> <<>>]

MCSpec == MCInit /\ [][Next]_vars /\ \A i \in Iterators : WF_vars(Advance(i))
=============================================================================
