------------------------------- MODULE Facade -------------------------------
(* InspectedProject of the facade: projects opened over one snapshot, the     *)
(* handles to syntax nodes they give out, and what such a handle answers      *)
(* while projects are disposed of. A handle keeps the ids of its parent and   *)
(* children and asks its project for the nodes; it outlives the project. A    *)
(* generator of descendants is suspended between two results, and anything    *)
(* may happen to the project meanwhile.                                       *)
EXTENDS Naturals, SequencesExt

CONSTANTS
  Projects,   \* the projects a program opens over the snapshot
  Iterators,  \* the generators of descendants it holds
  Snapshots,  \* [parent, symbols, version]: a tree numbered in source order
  Version,    \* of the analyzer that opens the snapshot
  None,
  Threw       \* in place of a result: the call threw

VARIABLES
  snapshot,   \* the plain data, shared by the projects over it
  status,     \* of each project: "closed", "open" or "disposed"
  nodes,      \* #nodes: the ids each project has a node for
  iterator,   \* the state of each generator, None before it is created
  running,    \* the generator whose next() is executing, or None
  lookup      \* a call of symbolFor that returns: its node, its owner, the answer

vars == <<snapshot, status, nodes, iterator, running, lookup>>
-----------------------------------------------------------------------------
Root == 1
Ids == DOMAIN snapshot.parent
ChildIds(id) == {c \in Ids : snapshot.parent[c] = id}

(* Nodes in the order of the source, in which they are numbered.              *)
InOrder(ids) ==
  CHOOSE list \in [1..Cardinality(ids) -> ids] :
    \A i, j \in DOMAIN list : i < j => list[i] < list[j]

Active(p) == status[p] = "open"

(* The facade is synchronous: calls do not overlap. *)
Idle == running = None /\ lookup = None

(* Faulty: node() does not ask whether the project was disposed of.           *)
ChildrenUnguarded(p, id) == InOrder(ChildIds(id) \intersect nodes[p])

(* AstNode.children: every child is fetched from the project, which throws    *)
(* once it is disposed of. A node without children never asks it.             *)
Children(p, id) ==
  IF ChildIds(id) # {} /\ ~ Active(p)
    THEN Threw
    ELSE InOrder(ChildIds(id) \intersect nodes[p])

(* projectFromSnapshot refuses a snapshot of another version. *)
Open(p) ==
  /\ Idle
  /\ status[p] = "closed"
  /\ snapshot.version = Version
  /\ status' = [status EXCEPT ![p] = "open"]
  /\ nodes' = [nodes EXCEPT ![p] = Ids]
  /\ UNCHANGED <<snapshot, iterator, running, lookup>>

Dispose(p) ==
  /\ Idle
  /\ status[p] # "closed"
  /\ status' = [status EXCEPT ![p] = "disposed"]
  /\ nodes' = [nodes EXCEPT ![p] = {}]
  /\ UNCHANGED <<snapshot, iterator, running, lookup>>

(* descendants(kind): nothing runs before the first next(). The handle to its *)
(* origin was given out earlier and may be of a disposed project.             *)
Descendants(i, p, origin, wanted) ==
  /\ Idle
  /\ status[p] # "closed"
  /\ iterator[i] = None
  /\ iterator' = [iterator EXCEPT ![i] =
       [project |-> p, origin |-> origin, wanted |-> wanted,
        unexpanded |-> origin, stack |-> <<>>, yielded |-> <<>>, state |-> "suspended"]]
  /\ UNCHANGED <<snapshot, status, nodes, running, lookup>>

CallNext(i) ==
  /\ Idle
  /\ iterator[i] # None
  /\ iterator[i].state = "suspended"
  /\ running' = i
  /\ UNCHANGED <<snapshot, status, nodes, iterator, lookup>>

Stop(i, state) ==
  /\ iterator' = [iterator EXCEPT ![i].state = state]
  /\ running' = None

(* Faulty: the node stays unexpanded.                                         *)
ExpandAgain(i) ==
  /\ running = i
  /\ iterator[i].unexpanded # None
  /\ IF Children(iterator[i].project, iterator[i].unexpanded) = Threw
       THEN Stop(i, Threw)
       ELSE UNCHANGED <<iterator, running>>
  /\ UNCHANGED <<snapshot, status, nodes, lookup>>

(* The children of the origin, or of the node that was popped last, are       *)
(* pushed in reverse. This is where a suspended generator resumes.            *)
Expand(i) ==
  /\ running = i
  /\ iterator[i].unexpanded # None
  /\ LET children == Children(iterator[i].project, iterator[i].unexpanded) IN
     IF children = Threw
       THEN Stop(i, Threw)
       ELSE /\ iterator' = [iterator EXCEPT ![i].stack = @ \o Reverse(children),
                                            ![i].unexpanded = None]
            /\ UNCHANGED running
  /\ UNCHANGED <<snapshot, status, nodes, lookup>>

(* A node of the wanted kind is yielded before its children are looked at. *)
Pop(i) ==
  /\ running = i
  /\ iterator[i].unexpanded = None
  /\ iterator[i].stack # <<>>
  /\ LET node == Last(iterator[i].stack)
         yields == node \in iterator[i].wanted
     IN /\ iterator' = [iterator EXCEPT
             ![i].stack = Front(@),
             ![i].unexpanded = node,
             ![i].yielded = IF yields THEN Append(@, node) ELSE @]
        /\ running' = IF yields THEN None ELSE i
  /\ UNCHANGED <<snapshot, status, nodes, lookup>>

Exhausted(i) ==
  /\ running = i
  /\ iterator[i].unexpanded = None
  /\ iterator[i].stack = <<>>
  /\ Stop(i, "done")
  /\ UNCHANGED <<snapshot, status, nodes, lookup>>

(* The walk of symbolFor from a node that owner gave out: each parent is      *)
(* fetched from the owner, each symbol looked up in p.                        *)
SymbolOfNode(p, id) == id \in snapshot.symbols /\ nodes[p] # {}
Climb(p, owner) ==
  LET from[id \in Ids] ==
        IF SymbolOfNode(p, id) THEN id
        ELSE IF id = Root THEN None
        ELSE IF ~ Active(owner) THEN Threw
        ELSE IF snapshot.parent[id] \notin nodes[owner] THEN None
        ELSE from[snapshot.parent[id]]
  IN from

(* Faulty: a query that does not ask whether its own project is active.       *)
SymbolForUnguarded(p, owner, id) == Climb(p, owner)[id]

SymbolFor(p, owner, id) == IF Active(p) THEN Climb(p, owner)[id] ELSE Threw

AskSymbolFor(p, owner, id) ==
  /\ Idle
  /\ status[p] # "closed" /\ status[owner] # "closed"
  /\ lookup' = [project |-> p, owner |-> owner, node |-> id, answer |-> SymbolFor(p, owner, id)]
  /\ UNCHANGED <<snapshot, status, nodes, iterator, running>>

Return ==
  /\ lookup # None
  /\ lookup' = None
  /\ UNCHANGED <<snapshot, status, nodes, iterator, running>>

Init ==
  /\ snapshot \in Snapshots
  /\ status = [p \in Projects |-> "closed"]
  /\ nodes = [p \in Projects |-> {}]
  /\ iterator = [i \in Iterators |-> None]
  /\ running = None
  /\ lookup = None

InNext(i) == Expand(i) \/ Pop(i) \/ Exhausted(i)

Next ==
  \/ \E p \in Projects : Open(p) \/ Dispose(p)
  \/ \E i \in Iterators, p \in Projects, origin \in Ids, wanted \in SUBSET Ids :
       Descendants(i, p, origin, wanted)
  \/ \E i \in Iterators : CallNext(i) \/ InNext(i)
  \/ \E p, owner \in Projects, id \in Ids : AskSymbolFor(p, owner, id)
  \/ Return

(* next() is synchronous: once called it runs until it returns or throws. *)
Spec == Init /\ [][Next]_vars /\ \A i \in Iterators : WF_vars(InNext(i))
-----------------------------------------------------------------------------
Ancestors ==
  LET above[id \in Ids] ==
        IF id = Root THEN {} ELSE {snapshot.parent[id]} \union above[snapshot.parent[id]]
  IN above

(* What descendants(kind) promises: the wanted nodes below the origin in the  *)
(* order of the source.                                                       *)
Promised(it) == InOrder({id \in it.wanted : it.origin \in Ancestors[id]})

(* Whatever is disposed of between two results, a generator yields the wanted *)
(* descendants in source order, and when it ends normally none is missing: it *)
(* throws rather than leave out what an emptied index no longer has, and only *)
(* where its own project was disposed of.                                     *)
IterationIsWhole ==
  \A i \in Iterators : iterator[i] # None =>
    /\ IsPrefix(iterator[i].yielded, Promised(iterator[i]))
    /\ iterator[i].state = "done" => iterator[i].yielded = Promised(iterator[i])
    /\ iterator[i].state = Threw => status[iterator[i].project] = "disposed"

(* symbolFor answers the nearest symbol at or above the node, also for a node *)
(* that another project over the snapshot gave out, or it throws, and then    *)
(* one of the two projects was disposed of.                                   *)
SymbolForIsNearest ==
  lookup # None =>
    LET around == {lookup.node} \union Ancestors[lookup.node]
        symbols == around \intersect snapshot.symbols
    IN \/ lookup.answer = None /\ symbols = {}
       \/ lookup.answer \in symbols /\ \A id \in symbols : id <= lookup.answer
       \/ lookup.answer = Threw /\ {"disposed"} \intersect {status[lookup.project], status[lookup.owner]} # {}

(* Every call of next() returns, whatever kinds it has to skip. *)
EveryNextReturns == \A i \in Iterators : (running = i) ~> (running = None)
=============================================================================
