# A verification development for tolk-inspect

tolk-inspect analyses a Tolk project that is held in memory and returns one snapshot: syntax tree, symbols,
types, control-flow graphs, references and, for every call, the callables it may reach. Almost everything in a
snapshot is a conversion of what the parser, the resolver, the type inference and the dataflow library of
Acton compute; they are crates from elsewhere. The part that is this repository's own, and that has real
algorithms in it, is the **callable-flow analysis**: an abstract domain of nested values, transfer functions
for assignments, collections and calls, a worklist for each body, and rounds of whole-program summaries around
it. It makes one strong claim, repeated through the documentation: *a call site with `complete: true` lists
every callable the call may reach*. This development is about that claim first of all.

Line numbers refer to `crates/tolk-inspect-core/src/lib.rs` unless another file is named.

## 1. Inventory

| Component | State | Operations | What makes it correct |
| --- | --- | --- | --- |
| Callable values (`CallableValue`, 53-229, 3665-3730) | a recursive value: targets, completeness, members, whether the members are all known, tracked array lengths, bottom | construct, `member`, `any_member`, `any_nested_callable`, pack/unpack, push, `set_member_path`, `limit_member_depth`, merge | merging is a join: order and repetition do not matter, nothing absorbed is lost; a read never knows more than was written |
| Standard collections (1959-2112, 2295-2355, 2407-2423, 2510-2635) | the value of the local that holds the collection | every method of array, map and `lisp_list` that carries callables | whatever the real collection returns is described by what the analysis says the call returns |
| Expressions and flow nodes (1819-2293, 2437-2507, 2637-2944) | the callable state: a value for each local | evaluate an expression to a depth of twelve; assign; mutate collections; apply what callees leave in `mutate` arguments | the state after a node describes every local after the node ran |
| Worklist of one body (1771-1817) | states on entry, queue, the copy being propagated | pop a node, propagate along each edge | ends; no edge is dropped; the result solves the flow equations and holds nothing that did not flow there |
| Whole-program rounds (1377-1769) | summaries: parameters, captures, returns, mutations; call sites | one round over all bodies; phase "internal", then "external" | the last round changes nothing; every call that can happen is reported |
| Lambdas (873-998, 1188-1236, 1338-1376, 3599-3655) | lambda identifiers, owners, creation points | find the owner of a call or a creation | captures are the values at the creation |
| Call-site normalisation (3732-3787) | the list of call sites | sort, merge equal keys | one entry for each key; targets united, completeness conjoined |
| Syntax nodes, positions (690-753, 3243-3283, 3578-3597) | `node_ids` by span; the list of nodes | copy the tree; find the node of a span; bytes to lines and UTF-16 units, and back | one entry per node; a span leads to its innermost node; offsets survive the conversion |
| Symbols (754-872, 999-1038, 3519-3546) | ids in use; entries | collect the contract, declarations with members, locals, lambdas | containers form a forest; every id mentioned has an entry |
| Uses of names (1040-1186, 3657-3663) | the answers of the resolver and of the inference, by span and name | merge, make references and resolutions | the better answer is kept in any order; all queries agree |
| Types (3285-3374) | ids and entries, the recursion | convert a graph of types | recursive types end and unfold to what they were |
| Control-flow graphs (3108-3223; `packages/tolk-inspect/src/index.ts` 298-381) | node and edge indexes | conversion for the callables in scope; reachability, dominance, post-dominance | locals and nodes mentioned exist; answers agree with their definitions by paths |
| Project facade (`index.ts` 225-294, 383-586) | indexes over a snapshot; disposed or not | queries, `dispose`, opening a snapshot | indexes agree with the snapshot; nothing answers after `dispose`; a snapshot of another version is refused |
| Paths and input (329-413, 3484-3515; `index.ts` 605-613) | none | normalise, validate files, roots and mappings | two spellings of a path are one file; no path leaves the root |
| Tree-sitter allocator (`crates/tolk-inspect-wasm/src/lib.rs` 30-148) | blocks, each behind a header | `malloc`, `calloc`, `realloc`, `free` | blocks apart, contents kept, layouts handed back as they were taken |
| Constants, diagnostics, WASM boundary | the vectors of the snapshot | walks that copy and sort; serialise | one entry for each thing, in a fixed order |

**How they interact.** `inspect` validates the input, has the Acton crates parse, resolve and infer, and calls
`SnapshotBuilder::build`. That fills the vectors of the snapshot one after the other: nodes, symbols, lambdas,
control-flow graphs, references and calls, types. Later parts name entries of earlier ones by id. Among the
references and calls, `collect_references_and_calls` runs the callable-flow analysis:
`collect_program_call_sites` calls `analyze_program_calls` once per round; that calls `callable_states` for
each body; that calls `transfer_callable_state` for each visited node; and that evaluates expressions to
callable values with the summaries of the previous round. The call sites are normalised; the snapshot is
serialised and indexed by the TypeScript facade, whose queries follow the ids. In the wasm build, the C parser
below all of it takes its memory from an allocator of this repository, which takes it from Rust's.

**What is hard.** The program runs on one thread, keeps no files and does no I/O after its input is read, so
there are no crashes, messages or timeouts to model; the one partner that may fail is Rust's allocator, and
`realloc` has to survive it. What is hard is the long chain from a call in some body to its report in another:
the order in which edges, bodies, rounds and targets are visited; values read from a copy while the original
changes; summaries of the previous round in use while this one finds better ones; two descriptions of one
array that every method changes separately; the start value "bottom", which means "nobody called this yet" and
must never be reported; and termination of two nested fixed points. Beside it stand questions that the code
answers twice, by different means, with nothing that compares the answers: who owns a lambda, which node has a
span, what a name refers to. A test fixes one program and one order; `PROJECT.json` lists these hazards with
their lines and the properties that watch them.

## 2. Modules

```
CallableValue ── the abstract domain
 ├─ ValueAlgebra ── merging two values step by step
 │    ├─ CallableValueReference ── the methods as recursions, the yardstick  [run values]
 │    └─ CallableValueProofs ── the laws of the merge                        (theorems)
 └─ Collections ── what each collection method does to a value
      ├─ CollectionMachine ── a real collection beside its value
      │    │                           [runs collections, add_to_external_map]
      │    └─ CollectionProofs ── the value describes the collection (theorems)
      └─ CallableFlow ── expressions, and one flow node
           └─ ProgramCalls ── rounds and summaries; INSTANCE Worklist solves each body
                └─ Execution ── the analysed program runs beside the result
                                  [runs programs, destructured_slots]
Dataflow ── what solving a body promises
 └─ Worklist ── the loop of callable_states; implements Dataflow   [runs worklist, loop_over_bottom]
      └─ WorklistProofs ── its invariant and the refinement        (theorems)
CallSites ── merging call sites; the call graph
 └─ CallReport ── from the text of a body to its call graph;       [run call_report]
      ├─ INSTANCE LambdaOwnership ── owners by spans and by the walk
      └─ CallReportProofs ── nothing lost, nothing invented; owners agree (theorems)
FlowGraph ── the queries of a control-flow graph                   [run flow_graphs]
 └─ FlowGraphProofs ── dominance is a cut, on every graph          (theorems)
Project ── a project from its input to its disposal                [run project]
 ├─ INSTANCE Inspect ── validation of the input
 │    └─ LogicalPaths ── the two normalisers of paths
 ├─ INSTANCE Facade ── projects, handles, generators
 └─ ProjectProofs ── indexed files are found, iterations are whole (theorems)
Snapshot ── SnapshotBuilder.build for one file, and the queries    [run snapshot]
 ├─ Positions ── bytes, lines and UTF-16 units
 ├─ INSTANCE SyntaxNodes ── copying the tree, finding the node of a span
 ├─ INSTANCE References ── two sources for what a name refers to
 ├─ INSTANCE TypeTable ── the recursion over types
 ├─ Orders ── a finite set as a list in a given order, shared with References
 └─ SnapshotProofs ── the snapshot is closed, its queries agree, and what they rest on (theorems)
Allocator ── malloc, calloc, realloc, free behind a header         [run allocator]
 └─ AllocatorProofs ── blocks apart, contents kept, nothing leaks  (theorems)
```

### CallableValue, CallableValueReference, ValueAlgebra

The struct is recursive. A value is modelled as the *trie of its nodes*: a function from the prefix-closed set
of its member paths to the label of each node. A method that recurses over members is then one quantified
definition over paths, which TLC evaluates and TLAPS reasons about without recursion. `Merge` is the main
case: `TakesRight`/`TakesLeft` are the two early returns for bottoms, `LabelOr` the placeholder for a member
that one side does not have, `Join` the merge of two labels. So that the closed forms are not taken on trust,
`CallableValueReference` writes the struct as a record and the methods as the code recurses, and the run
`values` compares the two on every pair of values of `MCValueAlgebra`, bottoms that carry members included.
`ValueAlgebra` merges two values step by step and has no recursion in it, so that its properties can be proved.

Keys are tagged tuples in place of the strings `int:0`, `0`, `\0dynamic`, ...; `lengths = {}` stands for
`array_lengths = None` (the code never builds `Some` of an empty set).

### Collections, CollectionMachine

`Written(kind, method, v, key, w)` is the match of `apply_collection_mutations`, `Returned` that of
`collection_call_value`. A key argument is a constant or `NoKey`, when `collection_key` finds none.
`CollectionMachine` runs a real array, map or list, as the Tolk standard library defines them, beside its
abstract value; the program may branch (`Fork`) and the branches meet (`Join2`, in either order). Its
properties say of every read method: if the analysis would report a call through the result as complete, the
callable that is really there is among the targets.

### Dataflow, Worklist

`Dataflow` says what solving a body promises: states only grow, and the analysis returns only when they solve
the flow equations, where an exceptional edge carries the state *before* the node (the comment at 1798).
`Worklist` is the loop of `callable_states`: `Pop` is the head of the loop with the copy it takes of the
node's state, `Propagate` one iteration of the inner loop over the edges, so that a self-loop changes the
original under the copy. Both are parameterised by the merge and by the transfer function; the laws they need
of the merge are the assumption `MergeAssumption`.

### CallableFlow

Expressions are records by kind. A dot access carries what resolution and inference found: the symbol of its
field and the collection kind of its object. `Eval` is `callable_value_depth`; `Assigned` is
`collect_callable_assignments`; `MutateCollection` and `MutateArguments` are the two `apply_*` functions at
one call; `TransferNode` chains them in the order of `transfer_callable_state`. The operators recurse over the
syntax, so this module and those on top of it are for TLC only.

### ProgramCalls

One step is a pop or a propagation of the worklist (`SolveStep`), the contribution of one solved body to the
round (`FinishDefinition`: outputs of mutable parameters, return value, captures of the lambdas it creates,
call sites, arguments), or the end of a round (`EndRound`: adopt the summaries, compare them with the last
ones, go on, change phase or stop at the cap). `solved` keeps the states of the last round, which the code
drops; it is a history variable for the properties.

### Execution

The program that was analysed runs: frames with an environment of concrete values, one flow node per step, any
branch, exceptions from any node that has an exceptional edge, lambdas that capture by value, `mutate`
arguments copied back at the return, collections that are full or empty. Every action of it is a step of the
Tolk language, not of this repository. The analysis runs first, by the actions of `ProgramCalls`, and stays
fixed while the program runs.

A node may make several calls. A frame keeps the locals at the start of the node (`env`), the locals as the
calls so far have left them (`now`) and the expression with the answers of those calls in place (`rest`); the
next call is always the first that is left, innermost before outer and left before right. A call is the
caller, the node, its index among the calls of the node and the callee, so that the property can ask for the
entry of this very call.

### CallSites

What the rounds found is a sequence of entries in an arbitrary order. `Sort` puts their positions in the order
of the keys, `Absorb` and `Keep` are the two arms of the loop of `normalize_call_sites`, one entry per step,
and `Flatten` makes the call graph. A key stands for path, span, caller and dispatch, which are compared as
one; targets are a set because the code sorts and deduplicates them at every change.

### LambdaOwnership, CallReport

The code answers the question who owns something inside a lambda twice. `collect_lambda_symbols` compares
spans (`ContainingSymbol`, `LocalOwner`), `collect_owned_call_nodes` carries the owner along its recursion
(`EnterLambda`, `CollectCall`, `LeaveLambda`). The module first writes a body token by token (the actions that
stand for Tolk source are external), then walks it. A place in the token sequence is an offset. `Captures` is
`lambda_captures`. Lambdas without a symbol or in another file do not occur.

`CallReport` puts the two together: the walk collects the calls of a body (`Collect`), the rounds find entries
for calls that were collected and for no others (`Find`), and the report merges and flattens them (`Report`,
the actions of `CallSites`).

### FlowGraph

`#reachableIds` is run one node at a time (`Visit`); each query is the sequence of searches it makes, with one
`Decide` action for each way it can go on or return. The queue is a set (`pending`): the result does not
depend on the order. The graph itself is what `convert_control_flow_graph` hands over; kinds, locations, reads
and writes are left out here, since no query looks at them; they are part of `Snapshot`.

### LogicalPaths, Inspect, Facade, Project

A spelling is a sequence of components. `Normalize` is the loop of `normalize_path`, `LookupPath` the one of
the facade; they differ in what `..` does at the root and in what a blank path is. `Inspect` has one action
for each path that `inspect` normalizes and for each of its checks, in the order of the code. The last step
belongs to Acton: `ProjectIndex` starts from the entrypoints and follows imports, and `MemoryProvider` serves
it the given files on demand (314-327, 402-410). What it holds in the end, and with it the snapshot's list of
files, is `indexed`: any set of given files around the entrypoints (`BuildProject`), unless it refuses
(`BuildFails`). A given file that nothing reaches is accepted without an error and is not part of the project.

In `Facade` projects share a snapshot. A handle is a project and a node id; it outlives the project.
`Children` is the getter that asks the project for every child, and throws when it was disposed of. A
generator of descendants runs only inside `next()` (`running`), is suspended when it yields, and anything may
happen before it resumes. `SymbolFor` climbs from the handle; its parents come from the project that gave the
handle out, the symbols from the project that was asked.

`Project` is the order of the two: only an input that was accepted leads to a snapshot. A program may also
hold a snapshot it kept, of another version.

### SyntaxNodes, Positions, References, TypeTable, Snapshot

`Snapshot` is `SnapshotBuilder::build` for one file, a stage for each `collect_*` in its order: the actions
`CollectNode`, `CollectSymbols`, `CollectLambdas`, `CollectGraphs`, `ReadUses`, `ReportUses`, `ConvertTypes`
and `Finish`. Its input is what the Acton crates hand over: a tree, a source, declarations and locals, the
uses of the resolver and of each body, an interner and flow graphs. The queries at its end are those of the
facade.

The stages with a loop are modules of their own. `SyntaxNodes` is `collect_node`, one child per step
(`PassToken`, `EnterChild`, `PushNode`), with the two ways from a span to a node: `ExactNode` reads the map
that the walk fills on the way down, `SmallestNode` searches the list that it fills on the way up.
`References` reads one use per step and opens the bodies in any order, as a hash map yields them; `Replaces`
is `should_replace`. `TypeTable` is the recursion of `TypeBuilder.convert`, one operand per step, over any
graph of types with cycles. `Positions` is pure: a text is a sequence of characters of one to four bytes and
one or two units.

An id is a tuple whose first part says where it comes from, and ids of different origin sort as the code's
strings do. The numbers of locals are compared as numbers, while the code compares their digits (870); the
order of the list of symbols has no other use, and no property depends on it.
Lambdas have ids of their own kind and are found among the nodes; they take over the locals that lie in them
and may contain each other. What the code sorts is a list given by its result, the rank of each entry in the
order (`InOrder` of `Orders`, `ById`); a stable sort is the order by key and then by place. Of a flow graph
the part that mentions other parts of the snapshot is kept: the node of each flow node, and the locals it
reads and writes.

### Allocator

A memory of bytes; a byte is data or part of a header, so that a header which something else has overwritten
cannot be read back. `Room` is the nondeterminism of Rust's allocator: any aligned place that is free.
Refusing is always allowed (`Fails`). `relied` is a history variable: what the parser may expect at each
address, because it wrote it, or because `calloc` promised zeros. Machine words are bounded by `MaxWord`,
layouts by `MaxLayout`; the additions and the product that the code checks (`checked_add`, `checked_mul`,
`Layout::from_size_align`) are checked by comparing with them. `AlignAssumption` and `WordAssumption` are all
that is assumed of the constants.

### Conventions

A definition that a comment calls "Faulty" is a plausible bug in the definition that follows it; it is used by
no behaviour, only put in its place to see that a property notices. The pairs are listed under `mutants` in
`PROJECT.json`.

## 3. Runs

| Run | What it asks | Instance |
| --- | --- | --- |
| `values` | do the closed forms compute what the code's recursions compute; is the merge commutative, absorbing and stable | values of every label shape and depth two, with bottoms inside and bottoms that carry members; all pairs |
| `collections` | are reads sound after any calls and merges | arrays, maps and lists of up to three elements, built by the program or of unknown contents; three calls; two callables of the program and one foreign; constant and unknown keys. On unknown contents all methods but the conditional map writes (see the findings) |
| `worklist` | does the loop end with the least solution, and implement `Dataflow` | every graph of three nodes with up to two edges, normal or exceptional, from entry and body; three transfer functions; two facts |
| `programs` | is every call of the running program reported; do the states describe the run; are the rounds stable at the end | thirteen shapes: branch, factory, recursion, entrypoint with a callback, mutation, pushes in a loop, capture, exception, containers, destructuring, calls in the arguments of a call, calls on the result of a call, calls side by side; and all 144 programs that do two of twelve things, the second in a loop, to an object with a callable and an array |
| `call_report` | do spans and walk agree; is what a lambda captures at hand where it is created; is there one entry per key that says what was found; is the graph the sites | all bodies of up to eight tokens: lambdas, declarations, uses in scope, calls; for those of up to three tokens, all sequences of up to three entries for their calls, over two callables |
| `flow_graphs` | does every query return, with the answer its definition demands | every graph of entry, exit and two inner nodes; every query with every argument, a foreign id included |
| `project` | is an input refused, or what the index reached of it found again under the spellings it used; what do handles and generators answer while projects are disposed of | up to two files, of which the index reaches any that include the entrypoints, one entrypoint, one mapping, two libraries, in all spellings; behind one input, all trees of up to four nodes, all choices of symbols up to three nodes, two projects, one generator, a snapshot of another version |
| `snapshot` | does a snapshot mention only what it has; do resolve, references and symbolAt agree; does a span lead to its innermost node; do recursive types unfold; do offsets survive | six slices, each of which varies one part of the input and keeps a small example for the others: all trees of up to four nodes over two bytes, listed or not; declarations whose locals have nodes or not; a lambda in or beside another with two locals anywhere and every scope of the flow graphs; up to two uses from the resolver and up to two and one from two bodies; all graphs of three types; all texts of up to four characters |
| `allocator` | do blocks stay apart, go back as they came and keep what they hold | five calls or writes in a memory of 28 bytes, alignment four, header two; sizes zero, fitting, refused as a layout, wrapping a word |
| `add_to_external_map`, `destructured_slots`, `loop_over_bottom` | the findings of section 6 | one program or one method each |

**Bounds.** `MaxArrayLengths` is 2 in the runs and 16 in the code: three joined lengths already pass the
limit, which three pushes and merges reach. `MaxLength = 3` and `MaxCalls = 3` allow a collection to be
filled, changed at an unknown place and read. `MaxStack = 4` lets the recursive program call itself three
times; a deeper recursion sees the same summaries. `MaxDepth = 12`, `MinRounds = 8` and `RoundsPerDefinition =
4` are the constants of the code. Three call sites of one key are absorbed one after the other, and a third
key between them tests that they are brought together. Eight tokens hold a lambda in a lambda with a
declaration outside and a use inside, and something beside it; the report of a longer body differs from that
of three tokens only in the number of its keys. Two inner nodes make diamonds, loops, dead nodes and nodes
that never reach the exit. Two bytes and four nodes are enough for chains of nodes with one span, empty nodes
at each end and an anonymous token between two nodes. Three types make every cycle of length one to three. Of
two uses in one place one may be the better answer, the later one or the one of a body, and two bodies have
two orders. The memory of the allocator has room for three blocks, so that a block may be moved over the place
of an old one; with an alignment of four and a header of two, base and header are different places, and
`AllocatorProofs` covers the values of the code. In the programs of `programs` the calls of one node do not
read what another of them has changed (section 6).

**Fairness.** Four modules have it, always for code that is synchronous and that nothing interrupts once it
was called: the loop of `callable_states` as a whole (`FairSpec` of `Worklist`); a query of a graph
(`WF(Visit)`, `WF(Decide)` in `FlowGraph`, so `EveryQueryReturns`); the inside of `next()` (`WF(InNext)` in
`Facade`, `WF(Advance)` in `Project`, so `EveryNextReturns`). Nothing is assumed of the caller: it may never
ask again. That the whole analysis ends is not stated as a temporal formula: the enabledness of its actions is
too expensive for TLC to evaluate at every state. What `programs` shows in its stead is that no analysis of
the documented shapes is cut off by the cap (`ShapesEndStable`, which also fails where the cap decides).

**Deadlock** is checked in `flow_graphs`, where a next query can always be asked. Elsewhere it is not: a run
ends when its program has returned, its worklist is empty, its input is read, its snapshot is built or its
calls are used up.

## 4. Properties

* *Merge.* `MergeFollowsTheRecursion` and `MethodsFollowTheRecursion` tie the model to the code's recursion.
  `OrderIsIrrelevant` and `MergeAbsorbs` are the laws the fixed points need; they are stated for *normal*
  values, in which no bottom has been written to (see the finding `loop_over_bottom`).
* *Collections.* `ArrayReadsAreSound`, `MapReadsAreSound`, `ListReadsAreSound`, `PackingKeepsElements` compare
  each read with the real collection. `ContentsAreDescribed` is the invariant they rest on: which nodes of the
  abstract value describe which elements, and, while lengths are tracked, that the real one is among them.
* *Worklist.* `NoEdgeForgotten` is the invariant: each edge of a visited node has been followed since the
  node's state last changed, or is outstanding. `LeastWhenDone`: what it returns is the least solution of
  the flow equations. This is asked of transfers that generate and kill, the classical ones, which are
  monotone. The transfer of the code is not, so that the promise does not carry over to it (section 5). `Terminates`, and the refinement `ImplementsDataflow`, which includes that states
  only grow.
* *Program.* `CallsAreReported` is the promise of the documentation: each call the program makes has a call
  site, found by its node and its place among the calls of the node, and a complete one names the callee.
  `StatesDescribeTheRun` is why: at every point of every active callable the state of that node describes each
  local, to the bottom of its members. `ShapesEndStable`: in the documented shapes another round would change
  nothing, so the sites do not depend on the cap.
* *Report.* `OneEntryPerKey`, `EntriesAreWhatWasFound` and `GraphIsTheSites` say of the result what the loop
  never looks at: all entries at once. `OwnersAgree` compares the two answers about owners;
  `CapturesAreAtHand` is what reading captures at the creation relies on: at each level in between, a lambda
  captures what the lambdas in it capture.
* *Queries.* `DominanceIsACut` and `PostDominanceIsACut` state the meaning of an answer without a search: a
  region of the graph that can be left only through the required node. `AnswersSpeakOfPaths` does so for
  `isReachable` and `reachableFrom`.
* *Facade and input.* `IterationIsWhole`: an iteration that ends normally has left nothing out, whatever was
  disposed of meanwhile. `SymbolForIsNearest`. `IndexedFilesAreFound`: where the analyzer accepts, its
  normaliser and that of the facade agree on the spellings of the input, so that `project.file()` finds each
  file that the index reached, every entrypoint among them, under the spelling it was given under. For a file
  that was not reached it answers `undefined`, and that under each of its spellings; `RootsAreOwnFiles`; `IllegalPathsAreRefused` states when a path climbs too far
  by counting, not by a stack.
* *Snapshot.* `SnapshotIsClosed`: an id that one part mentions is the id of one entry of another, the nodes
  form the tree that was parsed, and the containers of symbols form a forest. In it a lambda or a local that
  lies in lambdas is in the nearest of them, the smallest one that encloses it, and a lambda in no other
  begins within the declaration that contains it. `QueriesAgree`: asking for a name by its node, by either end of its position, or by the
  references of its symbol leads to one answer, which is also the one that calls were resolved with.
  `InnermostIsFound`: the map filled on the way down and the search in the list filled on the way up give the
  same node. `BestAnswersAreKept`: the order in which bodies come out of a hash map never makes an answer
  worse. `TypesUnfold`: the table of types, with its forward names, unfolds to the graph it was made of.
  `PositionsSurvive`: positions keep the order of offsets and tell two characters apart, in any text.
* *Allocator.* `BlocksAreApart` (headers included), `HeapIsAccountedFor` (each block goes back with its own
  base and layout, and none leaks), `ContentsAreKept` (through every `realloc`, the one that fails included).

## 5. Proofs

TLAPS checks the following for *all* values of the constants. A theorem rests on the assumptions of the
modules it extends, which TLC evaluates in every run, and on the hypotheses it names, given here with each
module. An induction over data cannot be cited from the library, so wherever one is needed the proof takes the
least counterexample instead, from the fact that `<` is well-founded on the naturals.

**`WorklistProofs`**, about any graph, any set of states and any transfer function, from `TaskAssumption` and
`MergeAssumption`. The inductive invariant `IInv` is `TypeOK` with `NoEdgeForgotten` and two facts that make
it inductive: the copy `before` and the result `after` belong to the node `at`, and the state of `at` is still
the copy unless `at` is queued again. That last fact is the point of the proof: a self-loop makes the copy
stale, and the edges already followed stay accounted for only because the change put the node back into the
queue. A pop moves the obligation of the popped node from the queue to the cursor; a propagation discharges
the edge at the cursor, and `MergeAssumption` keeps all other edges into the successor absorbed, while edges
out of a changed successor become outstanding because it is queued. From `IInv`: `TypeCorrect`,
`NoEdgeIsForgotten`, `SolvedAtTheEnd` (with an empty queue and the cursor past the last edge nothing is
outstanding, so all edges are absorbed), `StatesGrow`, and `Implements`, the refinement of `Dataflow` (a pop
stutters, a propagation is a `Grow` or, when it was the last one, a `Finish`). `NothingIsInvented` is the other
half, that states say no more than they have to: call a *region* a set of states for each node; it is closed if
it holds the initial state, what the transfer function makes of its states along every edge, and the merge of
any two of its states at one node (`Closed`). Whatever the loop says at a node lies in every closed region
(`OnlyWhatFlows`), and so does the copy under propagation, which is what makes this inductive.

That the states are the *least* solution is not proved: the argument needs a monotone transfer, and that of the
code is not. Take an array x of known length one with a callable at `int:0`, and let s be the merge of x
with an unknown value. s absorbs x and has no lengths. After a push, x has a second callable at `int:1`, which s
has at the dynamic entry only, so that s no longer absorbs x (174-196). `PushIsNotMonotone` of
`MCExecution` has TLC evaluate this example. For targets the region argument is enough
(`StatesInventNoTarget` of the next module): the states that name only targets of a given set are closed under
merging, so no target is reported that was not there at first or came with a transfer.

**`CallableValueProofs`** discharges `MergeAssumption` for the merge the program really uses. A view of a
value at a path is its label there or the placeholder; the merge of normal values joins the views pointwise
(`JoinViews`), and the laws are first proved of labels and then lifted to values: `MergeType`,
`MergeCommutes`, `MergeIdempotent`, `MergeSettles`, `MergeKeeps`, `MergeAssociates`, and for states
`StatesMergeAsTheWorklistNeeds` and `StatesMergeInAnyGrouping`. `OrderNeverMatters` and `MergeAlwaysAbsorbs`
are the two properties of the run `values`, for any set of values (`ValuesAssumption`);
`StatesInventNoTarget` gives `NothingIsInvented` its regions. Together with
`WorklistProofs` this gives: on states of normal values, of any width and depth, `callable_states` returns a
solution whenever it returns. The second half of the module says through the same views what the other
operators do: what stands where after `Put`, `Sub` and `MergeMember`, what `Member` returns, and that
`AnyMember`, a fold over the members, covers each of them in whatever order it takes them.

**`CollectionProofs`**: for any number of calls, forks, joins, elements, keys and callables, and any
`MaxArrayLengths`, reads are sound. The reads alone are not inductive: they do not say under which nodes of
the value the elements are, and the next write moves them. The invariant is `ContentsAreDescribed`, which a
run checks too. An array has each element covered by its slot or by the dynamic entry, with its real length
among the tracked ones if there are any; a map has its entries covered likewise; a lisp list has a spine of
nodes that are never bottom, and each element is covered at its head, as far down as the spine is known. A node
*covers* a callable if it is not bottom and, where it is complete, has the callable among its targets. The proof
has a lemma for each arm of `apply_collection_mutations` (`PushKeeps`, `SetKeeps`, `PopKeeps`, `StoreKeeps`,
`OfferKeeps`, `DeleteKeeps`, `PrependKeeps`, `PopHeadKeeps`) and one for the meeting of two branches
(`BranchesKeep`); a push at each of several lengths and the tails of a list are folds. Two hypotheses.
`KeysAreKeys`: the slots, members and constants that are written are keys; integer keys are unbounded, because
a program may push for ever. `StartsAreSound`: the first value describes the first contents. TLC checks it of
every start of `collections` (`KnownAndExternalAreSound`), and `ExternalIsDescribed` proves it of whatever
comes from outside as a parameter, with one exception: a map on which the program makes conditional adds. That
is the finding `add_to_external_map`, and TLC checks that the hypothesis fails there.

**`FlowGraphProofs`**, about any graph and any ids. The invariant (`Inv`: `TypeOK`, `SearchKeeps`, `Asked` and
the two properties) says of the search that it finds nothing that some region around its start keeps out (each
step stays inside every region), and that only pending nodes may have successors that were not found. When
nothing is pending the set that was found is itself a region, hence the least one, and so finding a node is
the same as having no region that keeps it out. `Asked` carries the results of the first search, which the
later ones rest on. `DominanceIsRight` and `PostDominanceIsRight` follow. `AnswersAreAboutPaths` goes from
regions to paths, on finite graphs (its hypothesis): a path stays inside every region, and the nodes that
paths reach are a region. The property looks only at paths no longer than there are nodes; that this loses
none is the pigeonhole principle, since a walk of least length visits no node twice.

**`CallReportProofs`**, about any number of call sites, keys and callables, and bodies of any length; the only
assumption is that a callable is not mistaken for a place in the text (`CallableAssumption`). Its first part
is the merge. The sort lost no position and put keys in order; the entries kept so far are strictly increasing
and none of their keys is above the next one, so comparing with the last kept entry is comparing with all;
each entry says exactly what the entries compared so far say of its key. `OneEntry`, `EntriesAreExact` and
`GraphIsExact` follow once all were compared, and `ReportIsExact` carries them over to the composition:
nothing is merged before `Find` has found something, and what it leaves is a start of the merge. The second
part is the two answers about owners. The *level* of a place is the number of lambdas opened before it less
those closed. It changes by at most one per token, so a lambda ends where the level first falls below its own,
and the lambdas that are unclosed at a place form a stack with the innermost on top. A lambda is around a
place exactly if it is unclosed there, and of those around a place the latest is the smallest. The invariant
`WalkStands` says that the owner the walk carries is the callable with this stack on it, and that what was
collected so far has the owners that the spans name; `OwnersAgree` speaks of the end only and would not
survive a step. `CapturesAreAlwaysAtHand` needs of the walk only that the text was written in scope: a lambda
around a use and not around its declaration has the creator around it or is created by the callable itself.

**`ProjectProofs`**, for inputs and syntax trees of any size. For the validation the hypothesis is
`InputsAreSpelled(P)`: paths are spelled with some set of components. The invariant `InputIsRead` records at
each step which spellings were accepted under which root and what became of them, which the properties at the
end cannot say of the steps before. `IndexedFilesFound` rests on the two normalisers reading alike: where the
analyzer never refuses a component, the facade's loop passes through the same paths. `IllegalRefused` rests on
counting: after any components the depth is the names less the `..`, so the loop is refused exactly where that
would fall below zero. `RootsAreOwn` needs that libraries are marked by the normalised root. For the facade
the assumptions are `SnapshotsAssumption` (ids number a tree in the order of the source) and
`MarksAssumption`. `NearestIsFound` unrolls the climb along the parents, which have smaller ids.
`IterationIsComplete` has the invariant `IterationsStand`: every generator splits the descendants into those
it has still to visit (its stack and what lies below, and what it is about to expand) and those it has seen;
all seen come before all pending, the stack is nested, and what was yielded is the wanted part of what was
seen, in order. What was yielded alone would not do: it does not say what is still to come. An ordered list is
determined by its elements, so at the end it is the one that was promised. None of it depends on the project
staying open, except that a throw is answered by a disposal.

**`SnapshotProofs`**, for files of any size. The hypotheses are about what Acton's crates hand over; TLC
evaluates each on every input of the run `snapshot`. `TypesUnfoldAlways` (`KnowsItsTypes`: what is converted
is in the interner): the property speaks of the end, where no conversion is under way; the invariant
`TableStands` speaks of the stack of conversions as well. Every type that was met has one id and is either on
the stack, once, or has an entry; a frame has the ids of its first operands and waits for the one above it;
entries and frames together are as many as ids. That gives each type one entry although the recursion comes
back to types that are still being converted. `BestAnswersAreKeptAlways` (`ListsItsUses`): `UsesStand` says
that there are numbers of uses read, of the resolver and of each body, such that each answer is the best of
exactly those. `PositionsSurviveAlways` (`IsText`): prefix sums of bytes and units rise strictly, rows rise
with offsets, and two offsets in one row have the line's start in common. `InnermostIsAlwaysFound` and
`NodesAlwaysFormTheTree` (`IsTree`: nodes are numbered in source order, and each lies in its parent, after its
siblings before it): the invariant `NodesStand` says that there is an order in which nodes were pushed, one
copy for each, such that the nodes on the recursion rise, a child that was passed was pushed or is the next on
the recursion, and one that is left comes after all that were entered; a span has the id of the last node that
was entered with it. So at the end nothing that is copied is missing, and children were pushed before their
parents. A node that begins before an earlier one has ended lies in it, parent by parent
(`ParentIsNotBefore`); therefore the last of the nodes around a span is the smallest of them and the first
that was pushed, and where the span has an id it is that one's.

`SnapshotIsAlwaysClosed` needs these together and `IdsAreGiven`: the resolver gives each symbol an id of its
own, uses refer to symbols that were declared, and no two lambdas have one span. The property speaks of the
snapshot once it is built; the invariant `Standing` says what of it is there at each stage and that this much
is closed: `NodesStand`, `TableStands` and `UsesStand` as above, `EntriesAreOfTypes`, and `PartsStand` for the
symbols, lambdas, flow graphs, references and types of nodes. Two facts carry it. Sorting entries by id
permutes them, since the rank of an entry is its place and no two have the same (`InOrder`); and the symbols
stay a list in which each entry has an id of its own and its container stands in the list, before the lambdas
are added and after they have taken over the locals that lie in them. A lambda is taken over by one with a
strictly larger span only, which is why containers form a forest. What
the code asks of spans is what `Encloses` says of entries (`EnclosingIsNear`), and the one it picks has an
entry that is no wider than any other around the symbol (`NearestTakes`). Of the locals that a flow graph reads and
writes it keeps those that have an id, and each of these has an entry.

`QueriesAlwaysAgree` needs the hypotheses on texts and uses, and `WordsAreUsed`: uses are words of the source,
two of them either in the same place or with something between them. The invariant `ReportsStand` says that
references and resolutions are those of the keys in their order. Of all keys with one span the last decides
what a call is resolved with (`ResolvedBySpan`); a node has the id of its span, so the last resolution of a
node is of the last key with its span. Positions keep the order of offsets (`PlaceOfBoundary`, from
`PositionsSurvive`), so at either end of a name `symbolAt` meets no reference but those of this name.

**`AllocatorProofs`**, about any alignment, header size, memory, word and sizes. `HeapIsAccountedFor` is not
inductive alone: that a header still tells the truth after the parser has written needs that the header lies
outside every block. The invariant `IInv` ties each pointer to its base (`NamesInv`: the pointer is the base
rounded up behind a header, the layout in the header is that of the heap, and pointers and bases are one to
one), keeps the blocks of the heap apart (`HeapInv`), and says that whatever the parser relies on lies in a
block it holds and is there (`ReliedInv`). Underneath is one lemma of arithmetic (`UserFits`): the slack of
`Align - 1` bytes is enough for every base. Then each action is shown to keep the three parts: a grant touches
only bytes of a place that was free, a write only bytes of one block and no header, and a move is a grant, a
copy of no more than both blocks hold, and a release. `BlocksStayApart`, `HeapStaysAccountedFor` and
`ContentsStay` follow from `HeadersStayTrue`.

**Only model-checked:** liveness (`Terminates`, `EveryQueryReturns`, `EveryNextReturns`); everything about
`CallableFlow`, `ProgramCalls` and `Execution`, whose operators recurse over syntax (`CallsAreReported`,
`StatesDescribeTheRun`, `ShapesEndStable`); the agreement of the closed forms with the recursions, which is an
induction over data (`MergeFollowsTheRecursion`, `MethodsFollowTheRecursion`); that the loop's result is the
least solution where the transfer is monotone (`LeastWhenDone`).

**What the proofs changed in the model.** `IsAround`, the relation of a symbol to its container in
`SnapshotIsClosed`, was a CASE with two overlapping arms, of which a prover may not choose the first; it is
now three implications. The hypotheses `GivesIds`, `UsesAreWords` and `NoneAssumption` were implicit in the
inputs of the run; they are now stated in `Snapshot` and evaluated by TLC. Sorted lists are defined by their
result, for the same reason as in `Facade`.

## 6. Findings

Each is a run that TLC ends with a counterexample to a sentence of the documentation.

* **`loop_over_bottom`** (3666). A bottom value keeps the members that a store at a constant key writes to it,
  and the merge of two bottoms returns the one that arrives. In the first round a `mutate` parameter is
  bottom; two different stores into it that meet in a loop replace each other for ever, and `callable_states`
  does not return. `docs/call-graph.md:109`: "Standard collection operations participate in the same CFG and
  whole-program fixed point."
* **`destructured_slots`** (1878). A member store rebuilds the local from the state before the node, so of
  `(o.a, o.b) = (g, g)` only the last store survives, and a call of `o.a` is reported complete with the old
  callable. The same line loses what a collection method of the same node did to the local: `o.a = o.b.pop()`.
  `docs/callable-flow-audit.md:19`: "Nested values preserved; destructuring assigns each slot".
* **`add_to_external_map`** (2084). A conditional add at a constant key of a map of unknown contents merges
  the value into a bottom entry, so the entry the map may already have had is not among the targets and the
  call is reported complete. `docs/callable-flow-audit.md:48`: "When known and unknown flows merge,
  `callSites()` retains the known targets and sets `complete: false`."

Two limits belong here, though no listed run shows them. Both are programs of `MCDivergences` with a
configuration of their own.

* Every round starts its summaries afresh from those of the round before (1416), so information about two
  branches can take turns and the rounds never become stable; the cap ends them somewhere in between.
  `MCTwice.cfg` shows it (`EndsStable` fails); it is why `ShapesEndStable` speaks of the documented shapes
  only. The calls of such programs are still reported (`CallsAreReported` in `programs`).
* The calls of one node take effect one after the other, but the value of the node and the targets of its
  calls are computed from the state before all of them (1969). Of `[a.pop(), a.pop()]` both slots are reported
  to hold the last element of the array. `MCBothPops.cfg` shows it (`CallsAreReported` fails): it has the same
  cause as `destructured_slots`, which is why it is not a finding of its own. In `programs` the calls of one
  node do not read what another one has changed.

## 7. What is abstracted and what is left out

* Resolution, inference, syntax and the graphs come from other crates. The model takes a program that is
  resolved and typed, and graphs with the writes of each node, as inputs. Writes are the locals assigned or
  declared at a node; the receiver of a mutating method is not one.
* Parentheses, `!` and type arguments are one group of wrappers where the code treats them alike, and apart
  where it does not (keys, paths). The arm of `local_assignment_target` for a declaration that is not a
  pattern is not modelled; declarations reach `collect_callable_assignments` first.
* Bodies are analysed in the order of their symbols, the targets of a call in an arbitrary fixed order, the
  calls of a node innermost first. Definitions of the standard library count among the definitions of a real
  project, so that its cap is higher than that of the programs here.
* `Snapshot` builds one file. With several, every id carries the file, and nothing of one file looks into
  another but a use whose declaration is there. Names, flags and documentation of symbols, the kind of access
  of a reference, the `call_node` and the `symbol_id` of an entry, and the edges of a flow graph are copied
  and left out. Members are one level deep, as structs and enums have them. Two nodes of one tree are taken to
  differ in span, kind or index (698); whether the recovery from errors may nest two empty nodes of one kind
  is up to tree-sitter.
* In `CallReport` any entries may be found for the calls that were collected: which ones is the business of
  `ProgramCalls`, whose bodies are given by their flow nodes and not by tokens.
* `Allocator` takes one step per call: the parser and the allocator run on one thread. That a pointer the
  parser gives back is one it holds is the contract of C and taken for granted, as `realloc` and `free` do.
  `realloc` to size zero is `Free`, of a null pointer `Malloc`.
* Not modelled: constants and diagnostics (conversions without state: each entry is copied by its kind, and
  the positions in them are those of `Positions`); the wasm boundary (it deserialises, calls `inspect`,
  serialises); Acton's parser, resolver, inference, linter and dataflow graphs (other repositories). Integer
  keys that do not fit 64 bits (2376) would need a model of the literal parser; whether a parameter may be
  without a local (1313) is decided by Acton's resolver.

## 8. Plan

Done, in the order of importance: the domain, the collections, the worklist, the flow nodes, the rounds, the
running program; call sites and graph queries; the facade, the input and the ownership of lambdas, composed
into projects and call reports; the snapshot with its nodes, symbols, lambdas, flow graphs, references and
types; several calls in one flow node; the allocator. Proofs about all of it that does not recurse over
syntax.

Next, to prove, in this order:

1. That `Join` of labels is the least upper bound of the order it induces, and in which arguments the reads
   are monotone in the value.
2. `Rounds`, an abstraction of `ProgramCalls` without syntax, with the theorem that a stable last round means
   that the summaries solve the equations of the program.

Next, to model: several files in `Snapshot`, once symbols of one file are used in another.
