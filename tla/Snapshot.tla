------------------------------ MODULE Snapshot ------------------------------
(* SnapshotBuilder.build for one file, in its order: the nodes, the symbols,  *)
(* the lambdas, the flow graphs, the uses of names, the types. Each part      *)
(* names entries of the others by id; the facade follows these ids. Calls,    *)
(* and the queries of flow graphs, have modules of their own.                 *)
EXTENDS Naturals, SequencesExt, FiniteSetsExt, Positions, Orders

CONSTANTS None, Unresolved, LambdaKind, IsInput(_)

ASSUME NoneAssumption == None \notin Seq(Nat)

VARIABLES
  stage, input,
  frames, nodeIds, nodes,                  \* see SyntaxNodes
  symbolIds, localIds, symbols,            \* ids in use; the entries, by id
  graphs,                                  \* the flow graphs of callables
  reading, inferring, unread, uses,        \* see References
  references, resolutions,                 \* by location
  requests, typeIds, types, converting,    \* see TypeTable
  nodeTypes                                \* of a node with a type: its id

Syntax == INSTANCE SyntaxNodes WITH tree <- input.tree
Uses == INSTANCE References
Table == INSTANCE TypeTable WITH interner <- input.interner

walk == <<frames, nodeIds, nodes>>
naming == <<symbolIds, localIds, symbols, graphs>>
merging == <<reading, inferring, unread, uses>>
reported == <<references, resolutions>>
table == <<requests, typeIds, types, converting>>
vars == <<stage, input, walk, naming, merging, reported, table, nodeTypes>>
-----------------------------------------------------------------------------
(* What is taken for granted of an input. Its types are those of its          *)
(* interner, its uses of names come in lists, and its source is characters of *)
(* at least a byte and a unit.                                                *)
IsList(s) == s \in Seq(ToSet(s))
Interned(file) == DOMAIN file.interner
Declared(file) == UNION {{d} \union ToSet(d.members) : d \in ToSet(file.globals)}

KnowsItsTypes(file) ==
  /\ \A t \in Interned(file) :
       /\ file.interner[t].parts \in Seq(Interned(file))
       /\ file.interner[t].result \in Seq(Interned(file))
  /\ IsList(file.globals) /\ \A d \in ToSet(file.globals) : IsList(d.members)
  /\ \A d \in Declared(file) : d.type \in Interned(file) \union {None}
  /\ IsList(file.expressions)
  /\ \A e \in ToSet(file.expressions) : e.type \in Interned(file)

ListsItsUses(file) == IsList(file.resolver) /\ \A body \in file.bodies : IsList(body)

IsText(source) ==
  /\ IsList(source)
  /\ \A c \in ToSet(source) : c.bytes \in Nat \ {0} /\ c.units \in Nat \ {0} /\ c.newline \in BOOLEAN

(* The nodes of a tree are numbered in source order. Each lies in its parent  *)
(* and after its siblings before it.                                          *)
IsTree(tree) ==
  /\ tree.parent \in Seq(Nat) /\ tree.parent # <<>> /\ tree.parent[1] = 0
  /\ tree.start \in [DOMAIN tree.parent -> Nat] /\ tree.end \in [DOMAIN tree.parent -> Nat]
  /\ \A n \in DOMAIN tree.parent : tree.start[n] <= tree.end[n]
  /\ \A n \in DOMAIN tree.parent \ {1} :
       /\ tree.parent[n] \in 1..(n - 1)
       /\ tree.start[tree.parent[n]] <= tree.start[n] /\ tree.end[n] <= tree.end[tree.parent[n]]
       /\ \A m \in (tree.parent[n] + 1)..(n - 1) : tree.parent[m] >= tree.parent[n]
       /\ \A m \in 1..(n - 1) : tree.parent[m] = tree.parent[n] => tree.end[m] <= tree.start[n]

(* Ids of symbols begin with where they come from.                            *)
InContract == 1
Global == 2
Local == 3
OfLambda == 4

WithMembers(d) == <<d>> \o d.members
AllOf(declarations) == FlattenSeq([i \in DOMAIN declarations |-> WithMembers(declarations[i])])

HaveIds(list) ==
  /\ IsList(list) /\ \A i \in DOMAIN list : list[i].id \in Nat
  /\ \A i, j \in DOMAIN list : list[i].id = list[j].id => i = j

SymbolsIn(file) ==
  {<<Global, d.id>> : d \in ToSet(AllOf(file.globals))} \union {<<Local, l.id>> : l \in ToSet(file.locals)}
UsesIn(file) == UNION {ToSet(read) : read \in file.bodies \union {file.resolver}}

(* The resolver gives each symbol an id of its own; names refer to these. Two *)
(* lambdas do not have the same span.                                         *)
Declares(list) == IsList(list) /\ (\A d \in ToSet(list) : IsList(d.members)) /\ HaveIds(AllOf(list))

GivesIds(file) ==
  /\ Declares(file.contract) /\ Declares(file.globals)
  /\ HaveIds(file.locals)
  /\ \A use \in UsesIn(file) : use.target \in SymbolsIn(file) \union {Unresolved}
  /\ \A m, n \in {n \in DOMAIN file.tree.parent : file.tree.kind[n] = LambdaKind} :
       file.tree.start[m] = file.tree.start[n] /\ file.tree.end[m] = file.tree.end[n] => m = n

(* The uses of names are words of the source, with something between two.     *)
UsesAreWords(file) ==
  \A u, v \in UsesIn(file) :
    /\ u.start \in Boundaries(file.source) /\ u.end \in Boundaries(file.source) /\ u.start <= u.end
    /\ u.name \in Nat
    /\ (u.start = v.start /\ u.end = v.end) \/ u.end < v.start \/ v.end < u.start
-----------------------------------------------------------------------------
Init ==
  /\ IsInput(input)
  /\ stage = "nodes"
  /\ Syntax!StartWalk
  /\ symbolIds = {} /\ localIds = {} /\ symbols = <<>> /\ graphs = {}
  /\ Uses!StartReading(input.resolver, input.bodies)
  /\ references = <<>> /\ resolutions = <<>>
  /\ Table!StartTable(<<>>)
  /\ nodeTypes = [n \in {} |-> 0]

CollectNode ==
  /\ stage = "nodes"
  /\ UNCHANGED <<stage, input, naming, merging, reported, table, nodeTypes>>
  /\ Syntax!Walk
-----------------------------------------------------------------------------
(* Ids sort by where they come from. Within that the code compares strings,   *)
(* numbers digit by digit; nothing depends on their order.                    *)
IdBefore(a, b) == a[1] < b[1] \/ (a[1] = b[1] /\ a[2] < b[2])

(* Sorting keeps entries that are not told apart in their order. *)
ById(entries) ==
  LET before(i, j) ==
        \/ IdBefore(entries[i].id, entries[j].id)
        \/ ~ IdBefore(entries[j].id, entries[i].id) /\ i < j
      sorted == InOrder(DOMAIN entries, before)
  IN  [k \in DOMAIN sorted |-> entries[sorted[k]]]

(* The contract, each of its fields, a struct, an enum or another declaration *)
(* with its members: [id, name, body, type, graph, members].                  *)
NodeOfDeclaration(d) ==
  IF Syntax!ExactNode(d.body) # None THEN Syntax!ExactNode(d.body) ELSE Syntax!ExactNode(d.name)

Location(span) ==
  [span |-> span, start |-> Position(input.source, span[1]), end |-> Position(input.source, span[2])]

Entry(id, span, node, container) ==
  [id |-> id, declaration |-> Location(span), node |-> node, container |-> container]

(* all_global_symbols *)
AllGlobals == AllOf(input.globals)

(* push_global_symbol. Faulty: it does not go into the members.               *)
PushedAlone(d, space) == <<Entry(<<space, d.id>>, d.name, NodeOfDeclaration(d), None)>>

Pushed(d, space) ==
  <<Entry(<<space, d.id>>, d.name, NodeOfDeclaration(d), None)>>
  \o [i \in DOMAIN d.members |->
        Entry(<<space, d.members[i].id>>, d.members[i].name, NodeOfDeclaration(d.members[i]), <<space, d.id>>)]

(* A local is [id, span, within, typeParameter], within a declaration. *)
PushedLocal(l) ==
  Entry(<<Local, l.id>>, l.span, Syntax!ExactNode(l.span),
        IF <<Global, l.within>> \in symbolIds' THEN <<Global, l.within>> ELSE None)

CollectSymbols ==
  /\ stage = "nodes" /\ Syntax!Walked
  /\ symbolIds' = {<<Global, d.id>> : d \in ToSet(AllGlobals)}
  /\ localIds' = {<<Local, l.id>> : l \in ToSet(input.locals)}
  /\ symbols' = ById(
       FlattenSeq([i \in DOMAIN input.contract |-> Pushed(input.contract[i], InContract)])
       \o FlattenSeq([i \in DOMAIN input.globals |-> Pushed(input.globals[i], Global)])
       \o [i \in DOMAIN input.locals |-> PushedLocal(input.locals[i])])
  /\ stage' = "lambdas"
  /\ UNCHANGED <<input, walk, graphs, merging, reported, table, nodeTypes>>
-----------------------------------------------------------------------------
(* Lambdas are found among the nodes. The smallest lambda that is around one  *)
(* contains it, or the declaration that is there; and it takes over the       *)
(* locals in it, but for type parameters.                                     *)
Lambdas ==
  LET places == Rising({i \in DOMAIN nodes : nodes[i].id[3] = LambdaKind})
  IN  [k \in DOMAIN places |-> nodes[places[k]]]
LambdaId(n) == <<OfLambda, n.start, n.end>>

(* Faulty: the widest. *)
WidestLambda(around) ==
  LambdaId(CHOOSE n \in around : \A m \in around : m.end - m.start <= n.end - n.start)

(* min_by_key *)
SmallestLambda(around) ==
  LambdaId(CHOOSE n \in around : \A m \in around : n.end - n.start <= m.end - m.start)

DeclarationAt(offset) ==
  LET there == {d \in ToSet(input.globals) : d.body[1] <= offset /\ offset < d.body[2]}
  IN  IF there = {} THEN None ELSE <<Global, (CHOOSE d \in there : TRUE).id>>

PushedLambda(n) ==
  LET around == {m \in ToSet(Lambdas) : m.start < n.start /\ m.end > n.end}
  IN  Entry(LambdaId(n), <<n.start, n.end>>, n.id,
            IF around = {} THEN DeclarationAt(n.start) ELSE SmallestLambda(around))

IsTypeParameter(symbol) ==
  \E l \in ToSet(input.locals) : <<Local, l.id>> = symbol.id /\ l.typeParameter

Owned(symbol) ==
  LET span == symbol.declaration.span
      around == {m \in ToSet(Lambdas) : m.start <= span[1] /\ m.end >= span[2]}
  IN  IF symbol.id[1] # Local \/ IsTypeParameter(symbol) \/ around = {} THEN symbol
      ELSE [symbol EXCEPT !.container = SmallestLambda(around)]

CollectLambdas ==
  /\ stage = "lambdas"
  /\ symbols' = ById(
       [i \in DOMAIN symbols |-> Owned(symbols[i])]
       \o [i \in DOMAIN Lambdas |-> PushedLambda(Lambdas[i])])
  /\ stage' = "graphs"
  /\ UNCHANGED <<input, walk, symbolIds, localIds, graphs, merging, reported, table, nodeTypes>>

(* A flow graph of Acton is a sequence of nodes [span, reads, writes], the    *)
(* span None where nothing stands for the node; its edges are copied and left *)
(* out. A callable may be without one.                                        *)
NodeAt(span) == IF span = None THEN None ELSE Syntax!NodeOf(span)
Known(locals) == {<<Local, l>> : l \in locals} \intersect localIds

GraphOf(symbol, graph) ==
  [symbol |-> symbol,
   nodes |-> [i \in DOMAIN graph |->
     [ast |-> NodeAt(graph[i].span),
      reads |-> Known(graph[i].reads), writes |-> Known(graph[i].writes)]]]

InScope == input.scope = "all" \/ (input.scope = "workspace" /\ input.workspace)

CollectGraphs ==
  /\ stage = "graphs"
  /\ graphs' =
       IF ~ InScope THEN {}
       ELSE {GraphOf(<<Global, d.id>>, d.graph) : d \in {d \in ToSet(AllGlobals) : d.graph # None}}
            \union {GraphOf(LambdaId(n), input.ofLambda) : n \in {n \in ToSet(Lambdas) : input.ofLambda # None}}
  /\ stage' = "uses"
  /\ UNCHANGED <<input, walk, symbolIds, localIds, symbols, merging, reported, table, nodeTypes>>
-----------------------------------------------------------------------------
ReadUses ==
  /\ stage = "uses"
  /\ Uses!Read
  /\ UNCHANGED <<stage, input, walk, naming, reported, table, nodeTypes>>

SymbolOf(target) == IF target \in symbolIds \union localIds THEN target ELSE None

Reference(key) ==
  [location |-> Location(Uses!SpanOf(key)), name |-> key[3], symbol |-> SymbolOf(uses[key]),
   node |-> Syntax!NodeOf(Uses!SpanOf(key))]

(* The types that are wanted, each for a node: those of the declarations, for *)
(* the node of the body and that of the name, then those of the expressions,  *)
(* which come in the order of their bodies and spans.                         *)
Wanted ==
  LET at(span, type) ==
        IF type = None \/ Syntax!ExactNode(span) = None THEN <<>>
        ELSE <<[node |-> Syntax!ExactNode(span), type |-> type]>>
      ofDeclaration(d) == at(d.body, d.type) \o at(d.name, d.type)
  IN  FlattenSeq([i \in DOMAIN AllGlobals |-> ofDeclaration(AllGlobals[i])])
      \o FlattenSeq([i \in DOMAIN input.expressions |->
                       at(input.expressions[i].span, input.expressions[i].type)])

(* Sorting the resolutions by node keeps those of one node in their order. *)
ReportUses ==
  /\ stage = "uses" /\ Uses!AllRead
  /\ references' = LET keys == Uses!InKeyOrder
                   IN  [i \in DOMAIN keys |-> Reference(keys[i])]
  /\ resolutions' = LET placed == Rising({i \in DOMAIN references' : references'[i].node # None})
                    IN  [k \in DOMAIN placed |-> [node |-> references'[placed[k]].node,
                                                  symbol |-> references'[placed[k]].symbol]]
  /\ requests' = [i \in DOMAIN Wanted |-> Wanted[i].type]
  /\ stage' = "types"
  /\ UNCHANGED <<input, walk, naming, merging, typeIds, types, converting, nodeTypes>>

ConvertTypes ==
  /\ stage = "types"
  /\ UNCHANGED <<stage, input, walk, naming, merging, reported, nodeTypes>>
  /\ Table!Convert

(* Of the types wanted for one node the first counts. *)
Finish ==
  /\ stage = "types" /\ Table!Converted
  /\ nodeTypes' =
       [n \in {Wanted[i].node : i \in DOMAIN Wanted} |->
          typeIds[Wanted[Min({i \in DOMAIN Wanted : Wanted[i].node = n})].type]]
  /\ stage' = "built"
  /\ UNCHANGED <<input, walk, naming, merging, reported, table>>

Next == CollectNode \/ CollectSymbols \/ CollectLambdas \/ CollectGraphs \/ ReadUses \/ ReportUses \/ ConvertTypes \/ Finish

Spec == Init /\ [][Next]_vars
-----------------------------------------------------------------------------
(* The queries of the facade over the snapshot. *)
Resolve(node) ==
  LET there == {i \in DOMAIN resolutions : resolutions[i].node = node}
  IN  IF there = {} THEN None ELSE resolutions[Max(there)].symbol

ReferencesOf(symbol) == {r \in ToSet(references) : r.symbol = symbol}

Covers(location, position) == ContainsPosition(location.start, location.end, position)

SymbolAt(position) ==
  LET used == {i \in DOMAIN references : Covers(references[i].location, position)}
      declared == {i \in DOMAIN symbols : Covers(symbols[i].declaration, position)}
      size(i) == symbols[i].declaration.span[2] - symbols[i].declaration.span[1]
      smallest == {i \in declared : \A j \in declared : size(i) <= size(j)}
  IN  IF used # {} /\ references[Min(used)].symbol # None THEN references[Min(used)].symbol
      ELSE IF declared = {} THEN None ELSE symbols[Min(smallest)].id
-----------------------------------------------------------------------------
Built == stage = "built"

(* See SyntaxNodes. *)
InnermostIsFound == stage = "nodes" => Syntax!InnermostIsFound
(* See TypeTable. *)
TypesUnfold == Table!TypesUnfold
(* See References. *)
BestAnswersAreKept == stage = "uses" => Uses!BestAnswersAreKept(input.resolver, input.bodies)
(* See Positions. *)
PositionsSurvive == Built => OffsetsSurvive(input.source)

(* The ways to ask for a name agree. Asking by node gives what the calls in   *)
(* that place were resolved with; asking by position gives it too, at both    *)
(* ends of the name; and the references of a symbol are exactly the uses that *)
(* these queries resolve to it. Where the uses of two names share a place,    *)
(* or two uses a node, the last one counts.                                   *)
QueriesAgree ==
  Built => \A i \in DOMAIN references :
    LET use == references[i]
        asked == SymbolOf(Uses!ResolvedBySpan(use.location.span))
        others == DOMAIN references \ {i}
        alone == \A j \in others : references[j].location # use.location
    IN  /\ (use.node # None /\ \A j \in others : j > i => references[j].node # use.node) =>
             Resolve(use.node) = asked
        /\ alone => use.symbol = asked
        /\ (alone /\ use.symbol # None) =>
             \A position \in {use.location.start, use.location.end} : SymbolAt(position) = use.symbol
        /\ \A s \in symbolIds \union localIds : use \in ReferencesOf(s) <=> s = use.symbol

(* An id of its own kind above it, or a lambda that is wider. *)
IsAround(c, s) ==
  LET of == s.declaration.span
      by == c.declaration.span
  IN  /\ c.id[1] # OfLambda => c.id[1] # Local /\ (c.id[1] = s.id[1] => c.container = None)
      /\ c.id[1] = OfLambda /\ s.id[1] = OfLambda => by[1] < of[1] /\ of[2] < by[2]
      /\ c.id[1] = OfLambda /\ s.id[1] # OfLambda => s.id[1] = Local /\ by[1] <= of[1] /\ of[2] <= by[2]

(* A lambda that is around another lambda, or around a local that lambdas     *)
(* take over.                                                                 *)
Encloses(lambda, s) ==
  LET of == s.declaration.span
      by == lambda.declaration.span
  IN  /\ lambda.id[1] = OfLambda
      /\ \/ s.id[1] = OfLambda /\ by[1] < of[1] /\ of[2] < by[2]
         \/ s.id[1] = Local /\ ~ IsTypeParameter(s) /\ by[1] <= of[1] /\ of[2] <= by[2]

Extent(s) == s.declaration.span[2] - s.declaration.span[1]

(* No lambda is passed over: what contains s is a lambda around it, and none  *)
(* around it is narrower. A lambda that a declaration contains begins in it.  *)
IsInTheNearest(entries, s) ==
  /\ \A lambda \in ToSet(entries) : Encloses(lambda, s) =>
       \E c \in ToSet(entries) :
         c.id = s.container /\ Encloses(c, s) /\ Extent(c) <= Extent(lambda)
  /\ \A d \in ToSet(input.globals) : s.id[1] = OfLambda /\ s.container = <<Global, d.id>> =>
       d.body[1] <= s.declaration.span[1] /\ s.declaration.span[1] < d.body[2]

NodeIdsOf == {n.id : n \in ToSet(nodes)}
SymbolIdsOf == {s.id : s \in ToSet(symbols)}
TypeIdsOf == {t.id : t \in ToSet(types)}

(* A snapshot is closed: every id that an entry of one part mentions is the   *)
(* id of one entry, in this part or another, so that no query of the facade   *)
(* ends at nothing; the nodes form the tree that was parsed; and the          *)
(* containers of symbols form a forest, in which lambdas and locals are in    *)
(* the nearest lambda around them, and in a declaration only where no lambda  *)
(* is.                                                                        *)
SnapshotIsClosed ==
  Built =>
    /\ Syntax!NodesFormTheTree
    /\ Cardinality(SymbolIdsOf) = Len(symbols)
    /\ \A s \in ToSet(symbols) :
         /\ s.node \in NodeIdsOf \union {None} /\ s.container \in SymbolIdsOf \union {None}
         /\ \A c \in ToSet(symbols) : s.container = c.id => IsAround(c, s)
         /\ IsInTheNearest(symbols, s)
    /\ \A g \in graphs :
         /\ g.symbol \in SymbolIdsOf
         /\ \A h \in graphs : h.symbol = g.symbol => h = g
         /\ \A n \in ToSet(g.nodes) :
              n.ast \in NodeIdsOf \union {None} /\ n.reads \union n.writes \subseteq SymbolIdsOf
    /\ \A r \in ToSet(references) :
         r.symbol \in SymbolIdsOf \union {None} /\ r.node \in NodeIdsOf \union {None}
    /\ \A use \in DOMAIN uses : uses[use] # Unresolved => SymbolOf(uses[use]) # None
    /\ \A n \in DOMAIN nodeTypes : n \in NodeIdsOf /\ nodeTypes[n] \in TypeIdsOf
    /\ \A t \in ToSet(types) : ToSet(t.elements) \union ToSet(t.result) \subseteq TypeIdsOf
=============================================================================
