------------------------------ MODULE Worklist ------------------------------
(***************************************************************************)
(* The worklist loop of callable_states                                    *)
(* (crates/tolk-inspect-core/src/lib.rs), which solves the flow equations  *)
(* of one callable body.  The loop pops a node, computes the state after   *)
(* it from a copy of the state before it, and merges the result into every *)
(* successor in the order of the graph's edges; a successor that changed   *)
(* is queued again.  Pop is the head of the loop, Propagate one iteration  *)
(* of its inner loop, so that the steps in which a node's own entry        *)
(* changes under its copy (a self-loop) are there.                         *)
(***************************************************************************)
EXTENDS Naturals, Sequences

CONSTANTS Node, State, Unvisited, Tasks, MergeStates(_, _), Transfer(_, _, _)

VARIABLES
  task,      \* the graph being solved
  incoming,  \* Node -> State or Unvisited: `incoming` of the code
  work,      \* the queue of nodes to visit
  at,        \* the node popped last
  before,    \* the copy of its incoming state taken when it was popped
  after,     \* what Transfer made of the copy
  cursor     \* the next edge of `at` to propagate along

vars == <<task, incoming, work, at, before, after, cursor>>

Pending == cursor <= Len(task.out[at])
Done == work = <<>> /\ ~Pending

(* The analysis as module Dataflow promises it.                            *)
Promise == INSTANCE Dataflow WITH done <- Done

Edge == Promise!Edge
Absorbs(s, x) == Promise!Absorbs(s, x)

(***************************************************************************)
(* What the loop needs of its parameters.  MergeStates returns its first   *)
(* argument once it has absorbed the second, absorbs what it is given, and *)
(* never loses what it has absorbed.  merge_callable_states has these laws *)
(* on states of normal values.                                             *)
(***************************************************************************)
ASSUME TaskAssumption ==
  /\ Unvisited \notin State
  /\ \A t \in Tasks :
       /\ t.entry \in Node
       /\ t.initial \in State
       /\ t.out \in [Node -> Seq(Edge)]
       /\ \A n \in Node, s \in State : Transfer(t, n, s) \in State

ASSUME MergeAssumption ==
  \A s \in State :
    /\ MergeStates(s, s) = s
    /\ \A x \in State :
         /\ MergeStates(s, x) \in State
         /\ MergeStates(MergeStates(s, x), x) = MergeStates(s, x)
         /\ MergeStates(s, x) = s =>
              \A y \in State : MergeStates(MergeStates(s, y), x) = MergeStates(s, y)

(* What the least solution needs besides: states may be merged in any      *)
(* grouping, as those of normal values may, and whoever knows more before  *)
(* a node knows more after it.  The second holds of transfers that kill    *)
(* and generate facts.  It does not hold of every operation of the code: a *)
(* push adds a member at each tracked length, and the value that absorbed  *)
(* the array may track none.                                               *)
(***************************************************************************)
StatesAssociate ==
  \A s, x, y \in State : MergeStates(MergeStates(s, x), y) = MergeStates(s, MergeStates(x, y))

TransferIsMonotone ==
  \A t \in Tasks, n \in Node, s, x \in State :
    Absorbs(s, x) => Absorbs(Transfer(t, n, s), Transfer(t, n, x))

(***************************************************************************)
(* The loop.  Before the first pop there is nothing to propagate: the      *)
(* cursor is past the last edge.                                           *)
(***************************************************************************)
StartOn(t) ==
  /\ task = t
  /\ incoming = [n \in Node |-> IF n = t.entry THEN t.initial ELSE Unvisited]
  /\ work = <<t.entry>>
  /\ at = t.entry
  /\ before = t.initial
  /\ after = t.initial
  /\ cursor = Len(t.out[t.entry]) + 1

Init == \E t \in Tasks : StartOn(t)

Pop ==
  /\ ~Pending
  /\ work # <<>>
  /\ at' = Head(work)
  /\ work' = Tail(work)
  /\ before' = incoming[Head(work)]
  /\ after' = Transfer(task, Head(work), incoming[Head(work)])
  /\ cursor' = 1
  /\ UNCHANGED <<task, incoming>>

Merged(current, arriving) ==
  IF current = Unvisited THEN arriving ELSE MergeStates(current, arriving)

(* Faulty: a node is not queued by its own edges; only a node without a    *)
(* state is queued; every node not yet queued is queued; an edge taken on  *)
(* an exception carries the assignments.                                   *)
PropagateWith(requeue(_, _, _), flow(_)) ==
  /\ Pending
  /\ LET edge == task.out[at][cursor]
         merged == Merged(incoming[edge.to], flow(edge))
     IN  /\ incoming' = [incoming EXCEPT ![edge.to] = merged]
         /\ work' = IF requeue(edge.to, incoming[edge.to], merged) THEN Append(work, edge.to) ELSE work
  /\ cursor' = cursor + 1
  /\ UNCHANGED <<task, at, before, after>>

Flow(edge) == IF edge.exceptional THEN before ELSE after
Changed(n, old, new) == new # old

PropagateSkippingSelf ==
  PropagateWith(LAMBDA n, old, new : new # old /\ n # at, Flow)
PropagateOnce ==
  PropagateWith(LAMBDA n, old, new : old = Unvisited, Flow)
PropagateAlways ==
  PropagateWith(LAMBDA n, old, new : \A i \in DOMAIN work : work[i] # n, Flow)
PropagateAfterThrow == PropagateWith(Changed, LAMBDA edge : after)
Propagate ==
  /\ Pending
  /\ LET edge == task.out[at][cursor]
         propagated == IF edge.exceptional THEN before ELSE after
         merged == Merged(incoming[edge.to], propagated)
     IN  /\ incoming' = [incoming EXCEPT ![edge.to] = merged]
         /\ work' = IF merged # incoming[edge.to] THEN Append(work, edge.to) ELSE work
  /\ cursor' = cursor + 1
  /\ UNCHANGED <<task, at, before, after>>

Next == Pop \/ Propagate

Spec == Init /\ [][Next]_vars

(* The loop is ordinary sequential code: while it can take a step it does. *)
FairSpec == Spec /\ WF_vars(Next)

-----------------------------------------------------------------------------
TypeOK ==
  /\ task \in Tasks
  /\ incoming \in [Node -> State \cup {Unvisited}]
  /\ work \in Seq(Node)
  /\ at \in Node
  /\ before \in State
  /\ after \in State
  /\ cursor \in 1 .. (Len(task.out[at]) + 1)

Queued(n) == \E i \in DOMAIN work : work[i] = n

(* Edge i of node n still has to be followed: the loop is in the middle of *)
(* the edges of n, or will visit n again.                                  *)
Outstanding(n, i) == Queued(n) \/ (n = at /\ i >= cursor)

(* At every moment, each edge out of a node that has a state either has    *)
(* been followed since that state last changed or is outstanding.  Nothing *)
(* is lost when a node's entry changes while its own edges are followed.   *)
NoEdgeForgotten ==
  \A n \in Node : incoming[n] # Unvisited =>
    \A i \in DOMAIN task.out[n] :
      \/ Outstanding(n, i)
      \/ Absorbs(incoming[task.out[n][i].to],
                 Promise!FlowOf(task, n, incoming[n], task.out[n][i]))

(* When the loop ends, the states it returns solve the flow equations.     *)
SolvedWhenDone == Done => Promise!Solves(task, incoming)

(* No more is known at a node than the equations force: the result lies    *)
(* below every other solution, so the loop adds no target of its own.  For *)
(* monotone transfers.                                                     *)
LeastWhenDone ==
  Done => \A other \in [Node -> State \cup {Unvisited}] :
            Promise!Solves(task, other) =>
              \A n \in Node : incoming[n] # Unvisited => Absorbs(other[n], incoming[n])

(* The state on entry to a node never loses what it knew.                  *)
StatesOnlyGrow ==
  [][\A n \in Node : incoming[n] # Unvisited => Absorbs(incoming'[n], incoming[n])]_vars

(* The loop implements what module Dataflow promises.                      *)
ImplementsDataflow == Promise!Spec

(* The loop ends.                                                          *)
Terminates == <>Done
=============================================================================
