-------------------------- MODULE FlowGraphProofs --------------------------
(* The queries are right on every graph, of any size: the search finds the   *)
(* least region around its start, so that what it does not find is exactly    *)
(* what some region keeps out, and a region keeps a node out exactly when     *)
(* every path that leads to it passes the node to avoid.                      *)
EXTENDS FlowGraph, FiniteSetTheorems, WellFoundedInduction, TLAPS

(* The answers of isReachable and reachableFrom.                              *)
ReachabilityIsRight ==
  /\ (stage = "answered" /\ query.op = "isReachable") =>
       answer.holds = Connected(graph.entry, query.target)
  /\ (stage = "answered" /\ query.op = "reachableFrom") =>
       answer.nodes = {id \in graph.nodes : Connected(query.target, id)}

(* The inductive invariant: the types, the conditions under which the current *)
(* search was started, what its loop keeps, and what the answers say.         *)
Inv ==
  /\ TypeOK /\ Asked /\ SearchKeeps
  /\ ReachabilityIsRight /\ DominanceIsACut /\ PostDominanceIsACut

(* A search that has nothing pending found exactly what is not separated from *)
(* its start by a region.                                                     *)
LEMMA SearchDecides ==
  ASSUME TypeOK, SearchKeeps, stage \in {"first", "second", "third"}, pending = {},
         NEW id \in Ids
  PROVE  id \notin reachable <=> Separated(search.start, id, search.blocked)
PROOF
  <1>1. Region(reachable, search.start, search.blocked)
    BY DEF TypeOK, SearchKeeps, Region
  <1>2. reachable \in SUBSET Ids
    BY DEF TypeOK
  <1>3. ASSUME id \notin reachable PROVE Separated(search.start, id, search.blocked)
    BY <1>1, <1>2, <1>3 DEF Separated
  <1>4. ASSUME Separated(search.start, id, search.blocked) PROVE id \notin reachable
    <2>1. PICK S \in SUBSET Ids : Region(S, search.start, search.blocked) /\ id \notin S
      BY <1>4 DEF Separated
    <2>2. reachable \subseteq S
      BY <2>1 DEF SearchKeeps
    <2>3. QED BY <2>1, <2>2
  <1>5. QED BY <1>3, <1>4

(* A search that begins has the invariant of searches. *)
LEMMA BeginKeeps ==
  ASSUME TypeOK, NEW start \in Ids, NEW blocked \in Ids \union {NoId},
         NEW next \in {"first", "second", "third"},
         Begin(start, blocked, next), UNCHANGED graph
  PROVE  SearchKeeps' /\ search' \in [start: Ids, blocked: Ids \union {NoId}]
         /\ reachable' \in SUBSET Ids /\ pending' \in SUBSET reachable'
PROOF
  <1>1. search'.start = start /\ search'.blocked = blocked
    BY DEF Begin
  <1>2. reachable' = Found(start, blocked)' /\ pending' = reachable'
    BY DEF Begin, Found
  <1>3. \A S \in SUBSET Ids : Region(S, start, blocked)' => reachable' \subseteq S
    BY <1>2 DEF Region
  <1>4. SearchKeeps'
    BY <1>1, <1>2, <1>3 DEF SearchKeeps
  <1>5. reachable' \in SUBSET Ids
    BY DEF Begin, Found
  <1>6. QED BY <1>2, <1>4, <1>5 DEF Begin

(* One round of the loop of #reachableIds keeps the invariant. *)
LEMMA VisitKeeps ==
  ASSUME Inv, Visit
  PROVE  Inv'
PROOF
  <1> USE DEF Inv
  <1>1. PICK id \in pending :
          /\ reachable' = reachable \union Discovered(id)
          /\ pending' = (pending \ {id}) \union Discovered(id)
    BY DEF Visit
  <1>2. UNCHANGED <<graph, query, search, stage, answer>>
        /\ stage \in {"first", "second", "third"}
    BY DEF Visit
  <1>3. Discovered(id) \in SUBSET Ids
    BY DEF Discovered, Successors
  <1>4. TypeOK'
    BY <1>1, <1>2, <1>3 DEF TypeOK
  <1>5. Asked'
    BY <1>2 DEF Asked, Connected, Separated, Region, Found, Successors, NoSearch
  <1>6. SearchKeeps'
    <2>1. Found(search.start, search.blocked)' \subseteq reachable'
      BY <1>1, <1>2 DEF SearchKeeps, Found
    <2>2. \A x : Successors(x)' = Successors(x)
      BY <1>2 DEF Successors
    <2>3. ASSUME NEW x \in reachable' \ pending', NEW to \in Successors(x)'
          PROVE  to = search'.blocked \/ to \in reachable'
      <3>1. to \in Successors(x)
        BY <2>2
      <3>2. CASE x = id
        BY <1>1, <1>2, <3>1, <3>2 DEF Discovered
      <3>3. CASE x # id
        <4>1. x \in reachable \ pending
          BY <1>1, <3>3
        <4>2. QED BY <1>1, <1>2, <3>1, <4>1 DEF SearchKeeps
      <3>4. QED BY <3>2, <3>3
    <2>4. ASSUME NEW S \in SUBSET Ids, Region(S, search.start, search.blocked)'
          PROVE  reachable' \subseteq S
      <3>1. Region(S, search.start, search.blocked)
        BY <1>2, <2>4 DEF Region, Found, Successors
      <3>2. reachable \subseteq S
        BY <1>2, <3>1 DEF SearchKeeps
      <3>3. id \in S
        BY <3>2 DEF TypeOK
      <3>4. Discovered(id) \subseteq S
        BY <3>1, <3>3 DEF Discovered, Region
      <3>5. QED BY <1>1, <3>2, <3>4
    <2>5. QED BY <2>1, <2>3, <2>4 DEF SearchKeeps
  <1>7. ReachabilityIsRight' /\ DominanceIsACut' /\ PostDominanceIsACut'
    BY <1>2 DEF ReachabilityIsRight, DominanceIsACut, PostDominanceIsACut
  <1>8. QED BY <1>4, <1>5, <1>6, <1>7

(* A query starts its first search from the entry, or from its argument. *)
LEMMA AskKeeps ==
  ASSUME Inv, NEW op \in Ops, NEW required \in Ids, NEW target \in Ids,
         Ask(op, required, target)
  PROVE  Inv'
PROOF
  <1> USE DEF Inv
  <1> DEFINE start == IF op = "reachableFrom" THEN target ELSE graph.entry
  <1>1. /\ stage = "idle" /\ UNCHANGED <<graph, answer>>
        /\ query' = [op |-> op, required |-> required, target |-> target]
        /\ Begin(start, NoId, "first")
    BY DEF Ask
  <1>2. graph.entry \in Ids
    BY GraphsAssumption DEF TypeOK, GraphType
  <1>3. start \in Ids
    BY <1>2
  <1>4. /\ SearchKeeps' /\ search' \in [start: Ids, blocked: Ids \union {NoId}]
        /\ reachable' \in SUBSET Ids /\ pending' \in SUBSET reachable'
    BY <1>1, <1>3, BeginKeeps
  <1>5. stage' = "first" /\ search' = [start |-> start, blocked |-> NoId]
    BY <1>1 DEF Begin
  <1>6. TypeOK'
    BY <1>1, <1>4, <1>5 DEF TypeOK
  <1>7. Asked'
    BY <1>1, <1>5 DEF Asked, NoSearch
  <1>8. QED BY <1>4, <1>5, <1>6, <1>7 DEF ReachabilityIsRight, DominanceIsACut, PostDominanceIsACut

(* A search that decides nothing is followed by another of the same query. *)
LEMMA AroundKeeps ==
  ASSUME Inv, DominatesAround \/ PostDominatesForward \/ PostDominatesAround
  PROVE  Inv'
PROOF
  <1> USE DEF Inv
  <1>1. graph.entry \in Ids /\ graph.exit \in Ids
    BY GraphsAssumption DEF TypeOK, GraphType
  <1>2. query.required \in Ids /\ query.target \in Ids /\ query.op \in Ops
    BY DEF TypeOK
  <1>3. CASE DominatesAround
    <2>1. /\ Begin(graph.entry, query.required, "second")
          /\ UNCHANGED <<graph, query, answer>>
          /\ stage = "first" /\ pending = {} /\ query.op = "dominates"
          /\ query.required \in reachable /\ query.target \in reachable
          /\ query.required # query.target
      BY <1>3 DEF DominatesAround, Returned
    <2>2. /\ SearchKeeps' /\ search' \in [start: Ids, blocked: Ids \union {NoId}]
          /\ reachable' \in SUBSET Ids /\ pending' \in SUBSET reachable'
      BY <2>1, <1>1, <1>2, BeginKeeps
    <2>3. stage' = "second" /\ search' = [start |-> graph.entry, blocked |-> query.required]
      BY <2>1 DEF Begin
    <2>4. search.start = graph.entry /\ search.blocked = NoId
      BY <2>1 DEF Asked, NoSearch
    <2>5. Connected(graph.entry, query.required) /\ Connected(graph.entry, query.target)
      BY <2>1, <2>4, <1>2, SearchDecides DEF Connected
    <2>6. Connected(graph.entry, query.required)' /\ Connected(graph.entry, query.target)'
      BY <2>1, <2>5 DEF Connected, Separated, Region, Found, Successors
    <2>7. TypeOK' /\ Asked'
      BY <2>1, <2>2, <2>3, <2>6 DEF TypeOK, Asked
    <2>8. QED BY <2>2, <2>3, <2>7 DEF ReachabilityIsRight, DominanceIsACut, PostDominanceIsACut
  <1>4. CASE PostDominatesForward
    <2>1. /\ Begin(query.target, NoId, "second")
          /\ UNCHANGED <<graph, query, answer>>
          /\ stage = "first" /\ pending = {} /\ query.op = "postDominates"
          /\ query.target \in reachable
      BY <1>4 DEF PostDominatesForward, Returned
    <2>2. /\ SearchKeeps' /\ search' \in [start: Ids, blocked: Ids \union {NoId}]
          /\ reachable' \in SUBSET Ids /\ pending' \in SUBSET reachable'
      BY <2>1, <1>2, BeginKeeps
    <2>3. stage' = "second" /\ search' = [start |-> query.target, blocked |-> NoId]
      BY <2>1 DEF Begin
    <2>4. search.start = graph.entry /\ search.blocked = NoId
      BY <2>1 DEF Asked, NoSearch
    <2>5. Connected(graph.entry, query.target)
      BY <2>1, <2>4, <1>2, SearchDecides DEF Connected
    <2>6. Connected(graph.entry, query.target)'
      BY <2>1, <2>5 DEF Connected, Separated, Region, Found, Successors
    <2>7. TypeOK' /\ Asked'
      BY <2>1, <2>2, <2>3, <2>6 DEF TypeOK, Asked
    <2>8. QED BY <2>2, <2>3, <2>7 DEF ReachabilityIsRight, DominanceIsACut, PostDominanceIsACut
  <1>5. CASE PostDominatesAround
    <2>1. /\ Begin(query.target, query.required, "third")
          /\ UNCHANGED <<graph, query, answer>>
          /\ stage = "second" /\ pending = {} /\ query.op = "postDominates"
          /\ graph.exit \in reachable /\ query.required # query.target
      BY <1>5 DEF PostDominatesAround, Returned
    <2>2. /\ SearchKeeps' /\ search' \in [start: Ids, blocked: Ids \union {NoId}]
          /\ reachable' \in SUBSET Ids /\ pending' \in SUBSET reachable'
      BY <2>1, <1>2, BeginKeeps
    <2>3. stage' = "third" /\ search' = [start |-> query.target, blocked |-> query.required]
      BY <2>1 DEF Begin
    <2>4. /\ search.start = query.target /\ search.blocked = NoId
          /\ Connected(graph.entry, query.target)
      BY <2>1 DEF Asked
    <2>5. Connected(query.target, graph.exit)
      BY <2>1, <2>4, <1>1, SearchDecides DEF Connected
    <2>6. Connected(query.target, graph.exit)' /\ Connected(graph.entry, query.target)'
      BY <2>1, <2>4, <2>5 DEF Connected, Separated, Region, Found, Successors
    <2>7. TypeOK' /\ Asked'
      BY <2>1, <2>2, <2>3, <2>6 DEF TypeOK, Asked
    <2>8. QED BY <2>2, <2>3, <2>7 DEF ReachabilityIsRight, DominanceIsACut, PostDominanceIsACut
  <1>6. QED BY <1>3, <1>4, <1>5

(* The right-hand sides of the two cut properties. *)
CutOfDominance ==
  /\ Connected(graph.entry, query.required)
  /\ Connected(graph.entry, query.target)
  /\ \/ query.required = query.target
     \/ Separated(graph.entry, query.target, query.required)

CutOfPostDominance ==
  /\ Connected(graph.entry, query.target)
  /\ Connected(query.target, graph.exit)
  /\ \/ query.required = query.target
     \/ Separated(query.target, graph.exit, query.required)

(* An answer that agrees with the cuts keeps the invariant. *)
LEMMA AnswerKeeps ==
  ASSUME Inv, NEW holds \in BOOLEAN, NEW nodes \in SUBSET Ids, Answer(holds, nodes),
         query.op = "isReachable" => holds = Connected(graph.entry, query.target),
         query.op = "reachableFrom" => nodes = {id \in graph.nodes : Connected(query.target, id)},
         query.op = "dominates" => holds = CutOfDominance,
         query.op = "postDominates" => holds = CutOfPostDominance
  PROVE  Inv'
PROOF
  <1> USE DEF Inv
  <1>1. /\ UNCHANGED <<graph, query, search, reachable, pending>>
        /\ stage' = "answered" /\ answer'.holds = holds /\ answer'.nodes = nodes
        /\ answer' \in [holds: BOOLEAN, nodes: SUBSET Ids]
    BY DEF Answer
  <1>2. TypeOK'
    BY <1>1 DEF TypeOK
  <1>3. Asked' /\ SearchKeeps'
    BY <1>1 DEF Asked, SearchKeeps
  <1>4. CutOfDominance' = CutOfDominance
    BY <1>1 DEF CutOfDominance, Connected, Separated, Region, Found, Successors
  <1>5. CutOfPostDominance' = CutOfPostDominance
    BY <1>1 DEF CutOfPostDominance, Connected, Separated, Region, Found, Successors
  <1>6. DominanceIsACut'
    <2>1. ASSUME query.op = "dominates" PROVE answer'.holds = CutOfDominance'
      BY <1>1, <1>4, <2>1
    <2>2. QED BY <1>1, <2>1 DEF DominanceIsACut, CutOfDominance
  <1>7. PostDominanceIsACut'
    <2>1. ASSUME query.op = "postDominates" PROVE answer'.holds = CutOfPostDominance'
      BY <1>1, <1>5, <2>1
    <2>2. QED BY <1>1, <2>1 DEF PostDominanceIsACut, CutOfPostDominance
  <1>8. ReachabilityIsRight'
    <2>1. Connected(graph.entry, query.target)' = Connected(graph.entry, query.target)
      BY <1>1 DEF Connected, Separated, Region, Found, Successors
    <2>2. \A id : Connected(query.target, id)' = Connected(query.target, id)
      BY <1>1 DEF Connected, Separated, Region, Found, Successors
    <2>3. QED BY <1>1, <2>1, <2>2 DEF ReachabilityIsRight
  <1>9. QED BY <1>2, <1>3, <1>6, <1>7, <1>8

(* Each of the actions that answer does so in agreement with the cuts. *)
LEMMA DecideKeeps ==
  ASSUME Inv, Decide
  PROVE  Inv'
PROOF
  <1> USE DEF Inv
  <1>1. graph.entry \in Ids /\ graph.exit \in Ids
    BY GraphsAssumption DEF TypeOK, GraphType
  <1>2. query.required \in Ids /\ query.target \in Ids /\ reachable \in SUBSET Ids
    BY DEF TypeOK
  <1>3. ASSUME stage \in {"first", "second", "third"}, pending = {}
        PROVE  \A id \in Ids : id \notin reachable <=> Separated(search.start, id, search.blocked)
    BY <1>3, SearchDecides
  <1>4. CASE IsReachable
    <2>1. query.op = "isReachable" /\ Answer(query.target \in reachable, {})
      BY <1>4 DEF IsReachable
    <2>2. (query.target \in reachable) \in BOOLEAN
      OBVIOUS
    <2>3. query.op # "dominates" /\ query.op # "postDominates"
      BY <2>1
    <2>4. {} \in SUBSET Ids
      OBVIOUS
    <2>5. (query.target \in reachable) = Connected(graph.entry, query.target)
      <3>1. search.start = graph.entry /\ search.blocked = NoId
        BY <1>4 DEF Asked, NoSearch, IsReachable, Returned
      <3>2. stage = "first" /\ pending = {}
        BY <1>4 DEF IsReachable, Returned
      <3>3. query.target \in reachable <=> Connected(graph.entry, query.target)
        BY <3>1, <3>2, <1>2, <1>3 DEF Connected
      <3>4. QED BY <3>3 DEF Connected
    <2>6. QED BY <2>1, <2>2, <2>3, <2>4, <2>5, AnswerKeeps
  <1>5. CASE ReachableFrom
    <2>1. graph.nodes \intersect reachable \in SUBSET Ids
      BY <1>2
    <2>2. /\ query.op = "reachableFrom" /\ stage = "first" /\ pending = {}
          /\ Answer(TRUE, graph.nodes \intersect reachable)
      BY <1>5 DEF ReachableFrom, Returned
    <2>3. search.start = query.target /\ search.blocked = NoId
      BY <2>2 DEF Asked
    <2>4. graph.nodes \subseteq Ids
      BY GraphsAssumption DEF TypeOK, GraphType
    <2>5. \A id \in Ids : id \in reachable <=> Connected(query.target, id)
      BY <1>3, <2>2, <2>3 DEF Connected
    <2>6. graph.nodes \intersect reachable = {id \in graph.nodes : Connected(query.target, id)}
      BY <2>4, <2>5
    <2>7. QED BY <2>1, <2>2, <2>6, AnswerKeeps
  <1>6. ASSUME stage = "first", pending = {}, query.op # "reachableFrom"
        PROVE  \A id \in Ids : id \in reachable <=> Connected(graph.entry, id)
    <2>1. search.start = graph.entry /\ search.blocked = NoId
      BY <1>6 DEF Asked, NoSearch
    <2>2. QED BY <2>1, <1>3, <1>6 DEF Connected
  <1>7. CASE DominatesUnreachable
    <2>1. query.op = "dominates" /\ stage = "first" /\ pending = {}
          /\ (query.required \notin reachable \/ query.target \notin reachable)
          /\ Answer(FALSE, {})
      BY <1>7 DEF DominatesUnreachable, Returned
    <2>2. ~ CutOfDominance
      BY <2>1, <1>2, <1>6 DEF CutOfDominance
    <2>3. CutOfDominance = FALSE
      BY <2>2 DEF CutOfDominance
    <2>4. QED BY <2>1, <2>3, AnswerKeeps
  <1>8. CASE DominatesItself
    <2>1. query.op = "dominates" /\ stage = "first" /\ pending = {}
          /\ query.required \in reachable /\ query.target \in reachable
          /\ query.required = query.target
          /\ Answer(TRUE, {})
      BY <1>8 DEF DominatesItself, Returned
    <2>2. CutOfDominance
      BY <2>1, <1>2, <1>6 DEF CutOfDominance
    <2>3. CutOfDominance = TRUE
      BY <2>2 DEF CutOfDominance
    <2>4. QED BY <2>1, <2>3, AnswerKeeps
  <1>9. CASE Dominates
    <2>1. query.op = "dominates" /\ stage = "second" /\ pending = {}
          /\ Answer(query.target \notin reachable, {})
      BY <1>9 DEF Dominates, Returned
    <2>2. /\ search.start = graph.entry /\ search.blocked = query.required
          /\ query.required # query.target
          /\ Connected(graph.entry, query.required)
          /\ Connected(graph.entry, query.target)
      BY <2>1 DEF Asked
    <2>3. (query.target \notin reachable) <=> Separated(graph.entry, query.target, query.required)
      BY <2>1, <2>2, <1>2, <1>3
    <2>4. (query.target \notin reachable) = CutOfDominance
      BY <2>2, <2>3 DEF CutOfDominance
    <2>5. QED BY <2>1, <2>4, AnswerKeeps
  <1>10. CASE PostDominatesUnreachable
    <2>1. query.op = "postDominates" /\ stage = "first" /\ pending = {}
          /\ query.target \notin reachable
          /\ Answer(FALSE, {})
      BY <1>10 DEF PostDominatesUnreachable, Returned
    <2>2. ~ CutOfPostDominance
      BY <2>1, <1>2, <1>6 DEF CutOfPostDominance
    <2>3. CutOfPostDominance = FALSE
      BY <2>2 DEF CutOfPostDominance
    <2>4. QED BY <2>1, <2>3, AnswerKeeps
  <1>11. ASSUME query.op = "postDominates", stage = "second", pending = {}
         PROVE  graph.exit \in reachable <=> Connected(query.target, graph.exit)
    <2>1. search.start = query.target /\ search.blocked = NoId
      BY <1>11 DEF Asked
    <2>2. QED BY <2>1, <1>1, <1>3, <1>11 DEF Connected
  <1>12. CASE PostDominatesStuck
    <2>1. query.op = "postDominates" /\ stage = "second" /\ pending = {}
          /\ graph.exit \notin reachable
          /\ Answer(FALSE, {})
      BY <1>12 DEF PostDominatesStuck, Returned
    <2>2. ~ CutOfPostDominance
      BY <2>1, <1>11 DEF CutOfPostDominance
    <2>3. CutOfPostDominance = FALSE
      BY <2>2 DEF CutOfPostDominance
    <2>4. QED BY <2>1, <2>3, AnswerKeeps
  <1>13. CASE PostDominatesItself
    <2>1. query.op = "postDominates" /\ stage = "second" /\ pending = {}
          /\ graph.exit \in reachable /\ query.required = query.target
          /\ Answer(TRUE, {})
      BY <1>13 DEF PostDominatesItself, Returned
    <2>2. Connected(graph.entry, query.target)
      BY <2>1 DEF Asked
    <2>3. CutOfPostDominance
      BY <2>1, <2>2, <1>11 DEF CutOfPostDominance
    <2>4. CutOfPostDominance = TRUE
      BY <2>3 DEF CutOfPostDominance
    <2>5. QED BY <2>1, <2>4, AnswerKeeps
  <1>14. CASE PostDominates
    <2>1. query.op = "postDominates" /\ stage = "third" /\ pending = {}
          /\ Answer(graph.exit \notin reachable, {})
      BY <1>14 DEF PostDominates, Returned
    <2>2. /\ search.start = query.target /\ search.blocked = query.required
          /\ query.required # query.target
          /\ Connected(graph.entry, query.target)
          /\ Connected(query.target, graph.exit)
      BY <2>1 DEF Asked
    <2>3. (graph.exit \notin reachable) <=> Separated(query.target, graph.exit, query.required)
      BY <2>1, <2>2, <1>1, <1>3
    <2>4. (graph.exit \notin reachable) = CutOfPostDominance
      BY <2>2, <2>3 DEF CutOfPostDominance
    <2>5. QED BY <2>1, <2>4, AnswerKeeps
  <1>15. QED
    BY <1>4, <1>5, <1>7, <1>8, <1>9, <1>10, <1>12, <1>13, <1>14, AroundKeeps DEF Decide

LEMMA IdleKeeps ==
  ASSUME graph' \in Graphs, stage' = "idle", query' = NoQuery', search' = NoSearch',
         reachable' = {}, pending' = {}, answer' = NoAnswer'
  PROVE  Inv'
PROOF
  <1>1. graph'.entry \in Ids
    BY GraphsAssumption DEF GraphType
  <1>2. TypeOK'
    BY <1>1 DEF TypeOK, NoQuery, NoSearch, NoAnswer, Ops
  <1>3. QED
    BY <1>2 DEF Inv, Asked, SearchKeeps, ReachabilityIsRight, DominanceIsACut, PostDominanceIsACut

THEOREM Invariance == Spec => []Inv
PROOF
  <1>1. Init => Inv
    <2>1. ASSUME Init PROVE Inv
      <3>1. graph.entry \in Ids
        BY <2>1, GraphsAssumption DEF Init, GraphType
      <3>2. TypeOK
        BY <2>1, <3>1 DEF Init, TypeOK, NoQuery, NoSearch, NoAnswer, Ops
      <3>3. QED
        BY <2>1, <3>2 DEF Init, Inv, Asked, SearchKeeps, ReachabilityIsRight, DominanceIsACut, PostDominanceIsACut
    <2>2. QED BY <2>1
  <1>2. Inv /\ [Next]_vars => Inv'
    <2> SUFFICES ASSUME Inv, [Next]_vars PROVE Inv'
      OBVIOUS
    <2>1. CASE \E op \in Ops, required, target \in Ids : Ask(op, required, target)
      BY <2>1, AskKeeps
    <2>2. CASE Visit
      BY <2>2, VisitKeeps
    <2>3. CASE Decide
      BY <2>3, DecideKeeps
    <2>4. CASE Deliver
      <3>1. graph' \in Graphs
        BY <2>4 DEF Deliver, Inv, TypeOK
      <3>2. QED
        BY <2>4, <3>1, IdleKeeps DEF Deliver, NoQuery, NoSearch, NoAnswer
    <2>5. CASE UNCHANGED vars
      <3>1. UNCHANGED <<graph, query, search, reachable, pending, stage, answer>>
        BY <2>5 DEF vars
      <3>2. \A start, id, blocked : Separated(start, id, blocked)' = Separated(start, id, blocked)
        BY <3>1 DEF Separated, Region, Found, Successors
      <3>3. \A start, id : Connected(start, id)' = Connected(start, id)
        BY <3>2 DEF Connected
      <3>4. TypeOK'
        BY <3>1 DEF Inv, TypeOK
      <3>5. Asked'
        BY <3>1, <3>3 DEF Inv, Asked, NoSearch
      <3>6. SearchKeeps'
        BY <3>1 DEF Inv, SearchKeeps, Region, Found, Successors
      <3>7. ReachabilityIsRight'
        BY <3>1, <3>3 DEF Inv, ReachabilityIsRight
      <3>8. DominanceIsACut'
        BY <3>1, <3>2, <3>3 DEF Inv, DominanceIsACut
      <3>9. PostDominanceIsACut'
        BY <3>1, <3>2, <3>3 DEF Inv, PostDominanceIsACut
      <3>10. QED BY <3>4, <3>5, <3>6, <3>7, <3>8, <3>9 DEF Inv
    <2>6. QED BY <2>1, <2>2, <2>3, <2>4, <2>5 DEF Next
  <1>3. QED BY <1>1, <1>2, PTL DEF Spec

(* On a graph of any size, an answer of dominates is TRUE exactly when both   *)
(* nodes can be reached and a region around the entry that is left only       *)
(* through the required node keeps the target out.                            *)
THEOREM DominanceIsRight == Spec => []DominanceIsACut
PROOF
  <1>1. Inv => DominanceIsACut
    BY DEF Inv
  <1>2. QED BY <1>1, Invariance, PTL

(* The same of postDominates: both searches it makes from the origin and the  *)
(* one from the entry, taken together, decide the cut before the exit.        *)
THEOREM PostDominanceIsRight == Spec => []PostDominanceIsACut
PROOF
  <1>1. Inv => PostDominanceIsACut
    BY DEF Inv
  <1>2. QED BY <1>1, Invariance, PTL
-----------------------------------------------------------------------------
(* Regions and paths. What no region keeps out of reach is at the end of a    *)
(* path, and the shortest one visits no node twice: it is among PathsTo.      *)

(* A walk of n nodes, which may come back to where it was, and avoids one.    *)
Walks(start, id, blocked, n) ==
  {p \in [1..n -> Ids] :
     /\ p[1] = start /\ p[n] = id
     /\ \A i \in 1..(n - 1) : p[i + 1] \in Successors(p[i])
     /\ \A i \in 1..n : p[i] # blocked}

(* There is a least natural number with a property that some number has.      *)
LEMMA LeastNatural ==
  ASSUME NEW T \in SUBSET Nat, T # {}
  PROVE  \E n \in T : \A m \in T : n <= m
PROOF
  <1>1. PICK n \in T : \A m \in T : ~ (<<m, n>> \in OpToRel(<, Nat))
    BY WFMin, NatLessThanWellFounded
  <1>2. \A m \in T : ~ (m < n)
    BY <1>1 DEF OpToRel
  <1>3. QED BY <1>2

(* Where a region contains the start, a path that avoids the blocked node     *)
(* never leaves it.                                                           *)
LEMMA PathsStayInside ==
  ASSUME graph.nodes \subseteq Ids, NEW start, NEW id \in Ids, NEW blocked,
         NEW S \in SUBSET Ids, Region(S, start, blocked),
         NEW p \in PathsTo(start, id), ~ Through(blocked, p)
  PROVE  id \in S
PROOF
  <1> DEFINE ids == graph.nodes \union {id}
  <1>1. PICK n \in 1..Cardinality(ids) : p \in [1..n -> ids]
    BY DEF PathsTo
  <1>2. n \in Nat /\ n >= 1 /\ Len(p) = n /\ DOMAIN p = 1..n
    BY <1>1
  <1>3. /\ start \in graph.nodes /\ p[1] = start /\ p[n] = id
        /\ \A i \in 1..(n - 1) : p[i + 1] \in Successors(p[i])
    BY <1>2 DEF PathsTo
  <1>4. \A i \in 1..n : p[i] # blocked
    BY <1>2 DEF Through
  <1>5. start \in S
    BY <1>2, <1>3, <1>4 DEF Region, Found
  <1> DEFINE Outside == {i \in 1..n : p[i] \notin S}
  <1>6. ASSUME Outside # {} PROVE FALSE
    <2>1. PICK m \in Outside : \A i \in Outside : m <= i
      <3>1. Outside \in SUBSET Nat
        BY <1>2
      <3>2. QED BY <3>1, <1>6, LeastNatural
    <2>2. m \in 1..n /\ p[m] \notin S /\ m # 1
      BY <1>3, <1>5
    <2>3. m - 1 \in 1..(n - 1) /\ (m - 1) + 1 = m /\ m - 1 \in 1..n
      BY <2>2, <1>2
    <2>4. p[m - 1] \in S
      BY <2>1, <2>2, <2>3
    <2>5. p[m] \in Successors(p[m - 1]) /\ p[m] # blocked
      BY <2>2, <2>3, <1>3, <1>4
    <2>6. QED BY <2>2, <2>4, <2>5 DEF Region
  <1>7. QED BY <1>2, <1>3, <1>6

(* What no region keeps out ends a walk: the ends of walks are a region.      *)
LEMMA WalksReach ==
  ASSUME graph.nodes \subseteq Ids, NEW start \in Ids, NEW id \in Ids, NEW blocked,
         ~ Separated(start, id, blocked)
  PROVE  /\ start \in graph.nodes
         /\ \E n \in Nat : n >= 1 /\ Walks(start, id, blocked, n) # {}
PROOF
  <1>1. start \in graph.nodes
    <2>1. ASSUME start \notin graph.nodes PROVE FALSE
      <3>1. Region({}, start, blocked)
        BY <2>1 DEF Region, Found
      <3>2. QED BY <3>1 DEF Separated
    <2>2. QED BY <2>1
  <1> DEFINE Ends == {x \in Ids : \E n \in Nat : n >= 1 /\ Walks(start, x, blocked, n) # {}}
  <1>2. Found(start, blocked) \subseteq Ends
    <2>1. ASSUME start # blocked PROVE start \in Ends
      <3>1. [i \in 1..1 |-> start] \in Walks(start, start, blocked, 1)
        BY <2>1 DEF Walks
      <3>2. QED BY <3>1
    <2>2. QED BY <2>1 DEF Found
  <1>3. ASSUME NEW x \in Ends, NEW to \in Successors(x), to # blocked
        PROVE  to \in Ends
    <2>1. PICK n \in Nat : n >= 1 /\ Walks(start, x, blocked, n) # {}
      BY <1>3
    <2>2. PICK p : p \in Walks(start, x, blocked, n)
      BY <2>1
    <2>3. /\ p \in [1..n -> Ids] /\ p[1] = start /\ p[n] = x
          /\ \A i \in 1..(n - 1) : p[i + 1] \in Successors(p[i])
          /\ \A i \in 1..n : p[i] # blocked
      BY <2>2 DEF Walks
    <2>4. to \in Ids
      BY <1>3 DEF Successors
    <2> DEFINE q == [i \in 1..(n + 1) |-> IF i <= n THEN p[i] ELSE to]
    <2>5. q \in [1..(n + 1) -> Ids] /\ q[1] = start /\ q[n + 1] = to
      BY <2>1, <2>3, <2>4
    <2>6. ASSUME NEW i \in 1..((n + 1) - 1) PROVE q[i + 1] \in Successors(q[i])
      <3>1. CASE i = n
        BY <3>1, <2>1, <2>3, <1>3
      <3>2. CASE i # n
        <4>1. i \in 1..(n - 1) /\ i + 1 <= n /\ i <= n
          BY <3>2, <2>1
        <4>2. q[i + 1] = p[i + 1] /\ q[i] = p[i]
          BY <4>1, <2>1
        <4>3. QED BY <4>1, <4>2, <2>3
      <3>3. QED BY <3>1, <3>2
    <2>7. \A i \in 1..(n + 1) : q[i] # blocked
      BY <2>1, <2>3, <1>3
    <2>8. q \in Walks(start, to, blocked, n + 1)
      BY <2>5, <2>6, <2>7 DEF Walks
    <2>9. n + 1 \in Nat /\ n + 1 >= 1
      BY <2>1
    <2>10. QED BY <2>4, <2>8, <2>9
  <1>4. Region(Ends, start, blocked)
    BY <1>2, <1>3 DEF Region
  <1>5. id \in Ends
    BY <1>4 DEF Separated
  <1>6. QED BY <1>1, <1>5

(* The shortest of the walks visits no node twice: what lies between two      *)
(* visits can be left out.                                                    *)
LEMMA LoopsCanBeCut ==
  ASSUME NEW start, NEW id, NEW blocked, NEW n \in Nat, n >= 1,
         NEW p \in Walks(start, id, blocked, n),
         NEW i \in 1..n, NEW j \in 1..n, i < j, p[i] = p[j]
  PROVE  \E m \in Nat : m >= 1 /\ m < n /\ Walks(start, id, blocked, m) # {}
PROOF
  <1>1. /\ p \in [1..n -> Ids] /\ p[1] = start /\ p[n] = id
        /\ \A k \in 1..(n - 1) : p[k + 1] \in Successors(p[k])
        /\ \A k \in 1..n : p[k] # blocked
    BY DEF Walks
  <1> DEFINE m == n - (j - i)
             q == [k \in 1..m |-> IF k <= i THEN p[k] ELSE p[k + (j - i)]]
  <1>2. m \in Nat /\ m >= 1 /\ m < n /\ i <= m
    OBVIOUS
  <1>3. \A k \in 1..m : (k <= i => k \in 1..n) /\ (k > i => k + (j - i) \in 1..n)
    BY <1>2
  <1>4. q \in [1..m -> Ids]
    BY <1>1, <1>3
  <1>5. q[1] = start
    BY <1>1, <1>2
  <1>6. q[m] = id
    <2>1. CASE m = i
      <3>1. j = n
        BY <2>1
      <3>2. q[m] = p[i]
        BY <2>1, <1>2
      <3>3. QED BY <3>1, <3>2, <1>1
    <2>2. CASE m > i
      <3>1. m + (j - i) = n
        OBVIOUS
      <3>2. q[m] = p[m + (j - i)]
        BY <2>2, <1>2
      <3>3. QED BY <3>1, <3>2, <1>1
    <2>3. QED BY <2>1, <2>2, <1>2
  <1>7. ASSUME NEW k \in 1..(m - 1) PROVE q[k + 1] \in Successors(q[k])
    <2>1. k \in 1..m /\ k + 1 \in 1..m
      BY <1>2
    <2>2. CASE k < i
      <3>1. q[k + 1] = p[k + 1] /\ q[k] = p[k] /\ k \in 1..(n - 1)
        BY <2>1, <2>2, <1>2
      <3>2. QED BY <3>1, <1>1
    <2>3. CASE k = i
      <3>1. j \in 1..(n - 1) /\ (i + 1) + (j - i) = j + 1
        BY <2>1, <2>3, <1>2
      <3>2. q[k + 1] = p[j + 1] /\ q[k] = p[j]
        BY <2>1, <2>3, <3>1
      <3>3. QED BY <3>1, <3>2, <1>1
    <2>4. CASE k > i
      <3>1. k + (j - i) \in 1..(n - 1) /\ (k + 1) + (j - i) = (k + (j - i)) + 1
        BY <2>1, <2>4, <1>2
      <3>2. q[k + 1] = p[(k + (j - i)) + 1] /\ q[k] = p[k + (j - i)]
        BY <2>1, <2>4, <3>1
      <3>3. QED BY <3>1, <3>2, <1>1
    <2>5. QED BY <2>2, <2>3, <2>4
  <1>8. \A k \in 1..m : q[k] # blocked
    BY <1>1, <1>3
  <1>9. q \in Walks(start, id, blocked, m)
    BY <1>4, <1>5, <1>6, <1>7, <1>8 DEF Walks
  <1>10. QED BY <1>2, <1>9

(* A node is separated from the start exactly when every path that leads to   *)
(* it passes the blocked node.                                                *)
LEMMA SeparatedByPaths ==
  ASSUME graph.nodes \subseteq Ids, IsFiniteSet(graph.nodes),
         NEW start \in Ids, NEW id \in Ids, NEW blocked
  PROVE  Separated(start, id, blocked) <=> \A p \in PathsTo(start, id) : Through(blocked, p)
PROOF
  <1>1. ASSUME Separated(start, id, blocked), NEW p \in PathsTo(start, id)
        PROVE  Through(blocked, p)
    BY <1>1, PathsStayInside DEF Separated
  <1>2. ASSUME ~ Separated(start, id, blocked)
        PROVE  \E p \in PathsTo(start, id) : ~ Through(blocked, p)
    <2> DEFINE lengths == {n \in Nat : n >= 1 /\ Walks(start, id, blocked, n) # {}}
               ids == graph.nodes \union {id}
    <2>1. start \in graph.nodes /\ lengths # {}
      BY <1>2, WalksReach
    <2>2. PICK n \in lengths : \A m \in lengths : n <= m
      BY <2>1, LeastNatural
    <2>3. n \in Nat /\ n >= 1
      BY <2>2
    <2>4. PICK p : p \in Walks(start, id, blocked, n)
      BY <2>2
    <2>5. /\ p \in [1..n -> Ids] /\ p[1] = start /\ p[n] = id
          /\ \A k \in 1..(n - 1) : p[k + 1] \in Successors(p[k])
          /\ \A k \in 1..n : p[k] # blocked
      BY <2>4 DEF Walks
    <2>6. ASSUME NEW i \in 1..n PROVE p[i] \in ids
      <3>1. CASE i = n
        BY <3>1, <2>5
      <3>2. CASE i # n
        <4>1. i \in 1..(n - 1)
          BY <3>2, <2>3
        <4>2. p[i + 1] \in Successors(p[i])
          BY <4>1, <2>5
        <4>3. QED BY <4>2 DEF Successors
      <3>3. QED BY <3>1, <3>2
    <2>7. p \in [1..n -> ids]
      BY <2>5, <2>6
    <2>8. ASSUME NEW i \in 1..n, NEW j \in 1..n, i < j, p[i] = p[j] PROVE FALSE
      <3>1. PICK m \in Nat : m >= 1 /\ m < n /\ Walks(start, id, blocked, m) # {}
        BY <2>3, <2>4, <2>8, LoopsCanBeCut
      <3>2. m \in lengths
        BY <3>1
      <3>3. QED BY <3>1, <3>2, <2>2, <2>3
    <2>9. \A i, j \in 1..n : i # j => p[i] # p[j]
      BY <2>3, <2>8
    <2>10. IsFiniteSet(ids)
      BY FS_AddElement
    <2>11. IsFiniteSet(1..n) /\ Cardinality(1..n) = n
      BY <2>3, FS_Interval
    <2>12. Cardinality(ids) \in Nat
      BY <2>10, FS_CardinalityType
    <2>13. n <= Cardinality(ids)
      BY <2>3, <2>7, <2>9, <2>10, <2>11, <2>12, FS_PigeonHole
    <2>14. n \in 1..Cardinality(ids) /\ Len(p) = n
      BY <2>3, <2>7, <2>12, <2>13
    <2>15. p \in UNION {[1..k -> ids] : k \in 1..Cardinality(ids)}
      BY <2>7, <2>14
    <2>16. p \in PathsTo(start, id)
      BY <2>1, <2>5, <2>14, <2>15 DEF PathsTo
    <2>17. ~ Through(blocked, p)
      BY <2>5 DEF Through
    <2>18. QED BY <2>16, <2>17
  <1>3. QED BY <1>1, <1>2

(* Nothing is avoided when a search is told to avoid nothing.                 *)
LEMMA ConnectedByPaths ==
  ASSUME graph.nodes \subseteq Ids, IsFiniteSet(graph.nodes),
         NEW start \in Ids, NEW id \in Ids
  PROVE  Connected(start, id) <=> PathsTo(start, id) # {}
PROOF
  <1>1. ASSUME NEW p \in PathsTo(start, id) PROVE ~ Through(NoId, p)
    <2>1. PICK n \in 1..Cardinality(graph.nodes \union {id}) :
            p \in [1..n -> graph.nodes \union {id}]
      BY DEF PathsTo
    <2>2. QED BY <2>1, IdsAssumption DEF Through
  <1>2. Separated(start, id, NoId) <=> \A p \in PathsTo(start, id) : Through(NoId, p)
    BY SeparatedByPaths
  <1>3. QED BY <1>1, <1>2 DEF Connected

(* Every path ends where it leads.                                            *)
LEMMA PathsEndThere ==
  ASSUME NEW start, NEW id, NEW p \in PathsTo(start, id)
  PROVE  Through(id, p)
PROOF
  <1>1. PICK n \in 1..Cardinality(graph.nodes \union {id}) :
          p \in [1..n -> graph.nodes \union {id}]
    BY DEF PathsTo
  <1>2. n \in DOMAIN p /\ Len(p) = n
    BY <1>1
  <1>3. p[n] = id
    BY <1>2 DEF PathsTo
  <1>4. QED BY <1>2, <1>3 DEF Through

(* On every finite graph, what the four queries answer is what the            *)
(* documentation says of paths: a node is reachable when a path leads to it,  *)
(* and a dominator (postdominator) is on every path from the entry (to the    *)
(* exit), of which there is one.                                              *)
THEOREM AnswersAreAboutPaths ==
  ASSUME \A g \in Graphs : IsFiniteSet(g.nodes)
  PROVE  Spec => []AnswersSpeakOfPaths
PROOF
  <1>1. ASSUME Inv, stage = "answered" PROVE AnswersSpeakOfPaths
    <2>1. /\ graph.nodes \subseteq Ids /\ IsFiniteSet(graph.nodes)
          /\ graph.entry \in Ids /\ graph.exit \in Ids
          /\ query.op \in Ops /\ query.required \in Ids /\ query.target \in Ids
      BY <1>1, GraphsAssumption DEF Inv, TypeOK, GraphType
    <2>2. \A start, id \in Ids : Connected(start, id) <=> PathsTo(start, id) # {}
      BY <2>1, ConnectedByPaths
    <2>3. \A start, id, blocked \in Ids :
            Separated(start, id, blocked)
              <=> \A p \in PathsTo(start, id) : Through(blocked, p)
      BY <2>1, SeparatedByPaths
    <2>4. \A start, id : \A p \in PathsTo(start, id) : Through(id, p)
      BY PathsEndThere
    <2>5. \A start, id : \A p \in PathsTo(start, id) : Through(start, p)
      <3>1. ASSUME NEW start, NEW id, NEW p \in PathsTo(start, id) PROVE Through(start, p)
        <4>1. PICK n \in 1..Cardinality(graph.nodes \union {id}) :
                p \in [1..n -> graph.nodes \union {id}]
          BY DEF PathsTo
        <4>2. 1 \in DOMAIN p /\ p[1] = start
          BY <4>1 DEF PathsTo
        <4>3. QED BY <4>2 DEF Through
      <3>2. QED BY <3>1
    <2>6. CASE query.op = "isReachable"
      <3>1. answer.holds = (PathsTo(graph.entry, query.target) # {})
        <4>1. answer.holds = Connected(graph.entry, query.target)
          BY <1>1, <2>6 DEF Inv, ReachabilityIsRight
        <4>2. answer.holds \in BOOLEAN
          BY <1>1 DEF Inv, TypeOK
        <4>3. Connected(graph.entry, query.target) <=> PathsTo(graph.entry, query.target) # {}
          BY <2>1, <2>2
        <4>4. QED BY <4>1, <4>2, <4>3
      <3>2. QED BY <2>6, <3>1 DEF AnswersSpeakOfPaths
    <2>7. CASE query.op = "reachableFrom"
      <3>1. answer.nodes = {id \in graph.nodes : PathsTo(query.target, id) # {}}
        <4>1. answer.nodes = {id \in graph.nodes : Connected(query.target, id)}
          BY <1>1, <2>7 DEF Inv, ReachabilityIsRight
        <4>2. \A id \in graph.nodes : id \in Ids
          BY <2>1
        <4>3. QED BY <2>1, <2>2, <4>1, <4>2
      <3>2. QED BY <2>7, <3>1 DEF AnswersSpeakOfPaths
    <2>8. CASE query.op = "dominates"
      <3>1. answer.holds = ( /\ PathsTo(graph.entry, query.target) # {}
                             /\ PathsTo(graph.entry, query.required) # {}
                             /\ \A p \in PathsTo(graph.entry, query.target) :
                                  Through(query.required, p) )
        <4>1. (\A p \in PathsTo(graph.entry, query.target) : Through(query.required, p))
                <=> \/ query.required = query.target
                    \/ Separated(graph.entry, query.target, query.required)
          BY <2>1, <2>3, <2>4
        <4>2. answer.holds = ( /\ Connected(graph.entry, query.required)
                               /\ Connected(graph.entry, query.target)
                               /\ \/ query.required = query.target
                                  \/ Separated(graph.entry, query.target, query.required) )
          BY <1>1, <2>8 DEF Inv, DominanceIsACut
        <4>3. answer.holds \in BOOLEAN
          BY <1>1 DEF Inv, TypeOK
        <4>4. QED BY <2>1, <2>2, <4>1, <4>2, <4>3
      <3>2. QED BY <2>8, <3>1 DEF AnswersSpeakOfPaths
    <2>9. CASE query.op = "postDominates"
      <3>1. answer.holds = ( /\ PathsTo(graph.entry, query.target) # {}
                             /\ PathsTo(query.target, graph.exit) # {}
                             /\ \A p \in PathsTo(query.target, graph.exit) :
                                  Through(query.required, p) )
        <4>1. (\A p \in PathsTo(query.target, graph.exit) : Through(query.required, p))
                <=> \/ query.required = query.target
                    \/ Separated(query.target, graph.exit, query.required)
          BY <2>1, <2>3, <2>5
        <4>2. answer.holds = ( /\ Connected(graph.entry, query.target)
                               /\ Connected(query.target, graph.exit)
                               /\ \/ query.required = query.target
                                  \/ Separated(query.target, graph.exit, query.required) )
          BY <1>1, <2>9 DEF Inv, PostDominanceIsACut
        <4>3. QED BY <2>1, <2>2, <4>1, <4>2
      <3>2. QED BY <2>9, <3>1 DEF AnswersSpeakOfPaths
    <2>10. QED BY <2>1, <2>6, <2>7, <2>8, <2>9 DEF Ops
  <1>2. Inv => AnswersSpeakOfPaths
    BY <1>1 DEF AnswersSpeakOfPaths
  <1>3. QED BY <1>2, Invariance, PTL
=============================================================================
