----------------------------- MODULE FlowGraph -----------------------------
(* ControlFlowGraph of the facade: the indexes its constructor builds over    *)
(* the nodes and edges of one callable, and the queries that auditors write   *)
(* rules with. Every query is one or more runs of the same search,            *)
(* #reachableIds, which may be told not to enter one node. The search keeps a *)
(* queue and an index into it; what it returns does not depend on the order   *)
(* of the queue, so the entries that are still to be visited are a set.       *)
EXTENDS Naturals, Sequences, FiniteSets

CONSTANTS
  Ids,     \* what a caller may pass as the id of a node
  NoId,    \* the search is told to avoid nothing
  Graphs   \* the graphs the analyzer may hand over

Ops == {"isReachable", "reachableFrom", "dominates", "postDominates"}

GraphType ==
  [nodes: SUBSET Ids, edges: SUBSET (Ids \X Ids), entry: Ids, exit: Ids]

ASSUME IdsAssumption == NoId \notin Ids
ASSUME GraphsAssumption ==
  \A g \in Graphs : g \in GraphType /\ g.entry \in g.nodes /\ g.exit \in g.nodes

VARIABLES
  graph,      \* the graph the project holds
  query,      \* the query that was asked: its name and its two arguments
  search,     \* where the current search starts and what it avoids
  reachable,  \* the ids the current search has found
  pending,    \* those of them whose successors were not looked at yet
  stage,      \* which search of the query runs, or "idle" or "answered"
  answer      \* of the query: whether it holds, and the nodes of reachableFrom

vars == <<graph, query, search, reachable, pending, stage, answer>>
-----------------------------------------------------------------------------
(* Only an edge that leaves a known node is in the index of successors. *)
Successors(id) ==
  {to \in Ids : id \in graph.nodes /\ <<id, to>> \in graph.edges}

(* Faulty: the start is entered even where it is the node to avoid.           *)
FoundAnyway(start, blocked) == IF start \notin graph.nodes THEN {} ELSE {start}

(* #reachableIds before its loop: nothing is found from a start that is not a *)
(* node or is the very node to avoid.                                         *)
Found(start, blocked) ==
  IF start \notin graph.nodes \/ start = blocked THEN {} ELSE {start}

Begin(start, blocked, next) ==
  /\ search' = [start |-> start, blocked |-> blocked]
  /\ reachable' = Found(start, blocked)
  /\ pending' = Found(start, blocked)
  /\ stage' = next

NoQuery == [op |-> "isReachable", required |-> graph.entry, target |-> graph.entry]
NoSearch == [start |-> graph.entry, blocked |-> NoId]
NoAnswer == [holds |-> FALSE, nodes |-> {}]
(* Faulty: the node to avoid is entered; what was found is queued again.     *)
DiscoveredThrough(id) == {to \in Successors(id) : to \notin reachable}
DiscoveredAgain(id) == {to \in Successors(id) : to # search.blocked}

Discovered(id) == {to \in Successors(id) : to # search.blocked /\ to \notin reachable}

(* One round of the loop of #reachableIds. *)
Visit ==
  /\ stage \in {"first", "second", "third"}
  /\ \E id \in pending :
       /\ reachable' = reachable \union Discovered(id)
       /\ pending' = (pending \ {id}) \union Discovered(id)
  /\ UNCHANGED <<graph, query, search, stage, answer>>

Ask(op, required, target) ==
  /\ stage = "idle"
  /\ query' = [op |-> op, required |-> required, target |-> target]
  /\ Begin(IF op = "reachableFrom" THEN target ELSE graph.entry, NoId, "first")
  /\ UNCHANGED <<graph, answer>>

Answer(holds, nodes) ==
  /\ answer' = [holds |-> holds, nodes |-> nodes]
  /\ stage' = "answered"
  /\ UNCHANGED <<graph, query, search, reachable, pending>>

Returned(next) == stage = next /\ pending = {}

IsReachable ==
  /\ query.op = "isReachable" /\ Returned("first")
  /\ Answer(query.target \in reachable, {})

ReachableFrom ==
  /\ query.op = "reachableFrom" /\ Returned("first")
  /\ Answer(TRUE, graph.nodes \intersect reachable)

DominatesUnreachable ==
  /\ query.op = "dominates" /\ Returned("first")
  /\ ~ {query.required, query.target} \subseteq reachable
  /\ Answer(FALSE, {})

DominatesItself ==
  /\ query.op = "dominates" /\ Returned("first")
  /\ {query.required, query.target} \subseteq reachable
  /\ query.required = query.target
  /\ Answer(TRUE, {})

DominatesAround ==
  /\ query.op = "dominates" /\ Returned("first")
  /\ {query.required, query.target} \subseteq reachable
  /\ query.required # query.target
  /\ Begin(graph.entry, query.required, "second")
  /\ UNCHANGED <<graph, query, answer>>

Dominates ==
  /\ query.op = "dominates" /\ Returned("second")
  /\ Answer(query.target \notin reachable, {})

(* postDominates names its second argument origin: it is query.target here. *)
PostDominatesUnreachable ==
  /\ query.op = "postDominates" /\ Returned("first")
  /\ query.target \notin reachable
  /\ Answer(FALSE, {})

(* Faulty: whether the exit can be reached is asked of the entry.             *)
PostDominatesFromEntry ==
  /\ query.op = "postDominates" /\ Returned("first")
  /\ query.target \in reachable
  /\ Begin(graph.entry, NoId, "second")
  /\ UNCHANGED <<graph, query, answer>>

PostDominatesForward ==
  /\ query.op = "postDominates" /\ Returned("first")
  /\ query.target \in reachable
  /\ Begin(query.target, NoId, "second")
  /\ UNCHANGED <<graph, query, answer>>

PostDominatesStuck ==
  /\ query.op = "postDominates" /\ Returned("second")
  /\ graph.exit \notin reachable
  /\ Answer(FALSE, {})

PostDominatesItself ==
  /\ query.op = "postDominates" /\ Returned("second")
  /\ graph.exit \in reachable
  /\ query.required = query.target
  /\ Answer(TRUE, {})

PostDominatesAround ==
  /\ query.op = "postDominates" /\ Returned("second")
  /\ graph.exit \in reachable
  /\ query.required # query.target
  /\ Begin(query.target, query.required, "third")
  /\ UNCHANGED <<graph, query, answer>>

PostDominates ==
  /\ query.op = "postDominates" /\ Returned("third")
  /\ Answer(graph.exit \notin reachable, {})

(* The query returned; the graph keeps nothing of it. *)
Deliver ==
  /\ stage = "answered"
  /\ stage' = "idle"
  /\ query' = NoQuery
  /\ search' = NoSearch
  /\ reachable' = {}
  /\ pending' = {}
  /\ answer' = NoAnswer
  /\ UNCHANGED graph

Decide ==
  \/ IsReachable \/ ReachableFrom
  \/ DominatesUnreachable \/ DominatesItself \/ DominatesAround \/ Dominates
  \/ PostDominatesUnreachable \/ PostDominatesForward \/ PostDominatesStuck
  \/ PostDominatesItself \/ PostDominatesAround \/ PostDominates

Init ==
  /\ graph \in Graphs
  /\ query = NoQuery
  /\ search = NoSearch
  /\ reachable = {}
  /\ pending = {}
  /\ stage = "idle"
  /\ answer = NoAnswer

Next ==
  \/ \E op \in Ops, required, target \in Ids : Ask(op, required, target)
  \/ Visit
  \/ Decide
  \/ Deliver

(* The facade is synchronous: a query that was asked runs to its answer. *)
Spec == Init /\ [][Next]_vars /\ WF_vars(Visit) /\ WF_vars(Decide)
-----------------------------------------------------------------------------
TypeOK ==
  /\ graph \in Graphs
  /\ query \in [op: Ops, required: Ids, target: Ids]
  /\ search \in [start: Ids, blocked: Ids \union {NoId}]
  /\ reachable \in SUBSET Ids
  /\ pending \in SUBSET reachable
  /\ stage \in {"idle", "first", "second", "third", "answered"}
  /\ answer \in [holds: BOOLEAN, nodes: SUBSET Ids]

(* A region around start that the graph leaves only through blocked. *)
Region(S, start, blocked) ==
  /\ Found(start, blocked) \subseteq S
  /\ \A id \in S : \A to \in Successors(id) : to = blocked \/ to \in S

(* No path leads from start to id without blocked: some region keeps id out. *)
Separated(start, id, blocked) ==
  \E S \in SUBSET Ids : Region(S, start, blocked) /\ id \notin S

Connected(start, id) == ~ Separated(start, id, NoId)

(* The conditions the searches of the running query were started under. *)
Asked ==
  /\ (stage = "first" /\ query.op # "reachableFrom") => search = NoSearch
  /\ (stage = "first" /\ query.op = "reachableFrom") =>
       search = [start |-> query.target, blocked |-> NoId]
  /\ (stage = "second" /\ query.op = "dominates") =>
       /\ search = [start |-> graph.entry, blocked |-> query.required]
       /\ query.required # query.target
       /\ Connected(graph.entry, query.required)
       /\ Connected(graph.entry, query.target)
  /\ (stage \in {"second", "third"} /\ query.op = "postDominates") =>
       /\ Connected(graph.entry, query.target)
       /\ search = [start |-> query.target,
                    blocked |-> IF stage = "second" THEN NoId ELSE query.required]
  /\ stage = "second" => query.op \in {"dominates", "postDominates"}
  /\ stage = "third" =>
       /\ query.op = "postDominates"
       /\ query.required # query.target
       /\ Connected(query.target, graph.exit)

(* What every round of #reachableIds keeps: nothing is found that some region *)
(* keeps out, and only pending ids may have successors that were not found.   *)
SearchKeeps ==
  stage \in {"first", "second", "third"} =>
    /\ Found(search.start, search.blocked) \subseteq reachable
    /\ \A id \in reachable \ pending :
         \A to \in Successors(id) : to = search.blocked \/ to \in reachable
    /\ \A S \in SUBSET Ids : Region(S, search.start, search.blocked) => reachable \subseteq S

(* An answer "dominates" comes with a cut of the graph: a region around the   *)
(* entry that has the target outside and that no edge leaves except into      *)
(* the required node; and an answer "does not dominate" means that there is   *)
(* no such cut, or that one of the two nodes cannot be reached.               *)
DominanceIsACut ==
  (stage = "answered" /\ query.op = "dominates") =>
    answer.holds = ( /\ Connected(graph.entry, query.required)
                     /\ Connected(graph.entry, query.target)
                     /\ \/ query.required = query.target
                        \/ Separated(graph.entry, query.target, query.required) )

(* The same of postDominates, whose cut separates the exit from the origin;   *)
(* an origin that is dead or can never terminate gets the answer FALSE.       *)
PostDominanceIsACut ==
  (stage = "answered" /\ query.op = "postDominates") =>
    answer.holds = ( /\ Connected(graph.entry, query.target)
                     /\ Connected(query.target, graph.exit)
                     /\ \/ query.required = query.target
                        \/ Separated(query.target, graph.exit, query.required) )

(* The paths of the graph, as the documentation speaks of them. A path that   *)
(* avoids a node can do without visiting any node twice, so that those of at  *)
(* most as many nodes as there are decide. An id that is no node may be where *)
(* a path ends, but no path leads on from there.                              *)
PathsTo(start, target) ==
  LET ids == graph.nodes \union {target}
  IN  {p \in UNION {[1..n -> ids] : n \in 1..Cardinality(ids)} :
         /\ start \in graph.nodes /\ p[1] = start /\ p[Len(p)] = target
         /\ \A i \in 1..(Len(p) - 1) : p[i + 1] \in Successors(p[i])}
Through(id, p) == \E i \in DOMAIN p : p[i] = id

(* docs/control-flow.md: "A dominates B when every path from function entry   *)
(* to B passes through A"; "every terminating path from origin to the         *)
(* function exit passes through required", false when there is none; and the  *)
(* reachable nodes are those with a path.                                     *)
AnswersSpeakOfPaths ==
  (stage = "answered") =>
    LET fromEntry == PathsTo(graph.entry, query.target)
        toExit == PathsTo(query.target, graph.exit)
    IN CASE query.op = "isReachable" -> answer.holds = (fromEntry # {})
         [] query.op = "reachableFrom" ->
              answer.nodes = {id \in graph.nodes : PathsTo(query.target, id) # {}}
         [] query.op = "dominates" ->
              answer.holds = ( /\ fromEntry # {}
                               /\ PathsTo(graph.entry, query.required) # {}
                               /\ \A p \in fromEntry : Through(query.required, p) )
         [] query.op = "postDominates" ->
              answer.holds = ( /\ fromEntry # {}
                               /\ toExit # {}
                               /\ \A p \in toExit : Through(query.required, p) )

(* Every query of the facade returns, on graphs with loops too. *)
EveryQueryReturns == (stage = "first") ~> (stage = "answered")
=============================================================================
