------------------------------ MODULE Dataflow ------------------------------
(***************************************************************************)
(* What the analysis of one callable body promises, whatever the order in  *)
(* which it visits the control-flow graph: the state known on entry to a   *)
(* node only ever grows, a node gets a state only through an edge from a   *)
(* node that has one, and when the analysis says it is done its states     *)
(* solve the flow equations of the graph.                                  *)
(*                                                                         *)
(* A task is one graph to solve: a record of its entry node, the state on  *)
(* entry and the outgoing edges of every node.                             *)
(***************************************************************************)
EXTENDS Naturals, Sequences

CONSTANTS Node,               \* the nodes of the control-flow graphs
          State,              \* what may be known on entry to a node
          Unvisited,          \* the entry of a node no path has reached
          Tasks,              \* the graphs to solve
          MergeStates(_, _),  \* merge_callable_states: the state there, the state arriving
          Transfer(_, _, _)   \* transfer_callable_state: task, node, state on entry

VARIABLES task,      \* the graph being solved
          incoming,  \* the state on entry to each node, or Unvisited
          done       \* whether the analysis has returned

vars == <<task, incoming, done>>

Edge == [to : Node, exceptional : BOOLEAN]

(* The order and laws of MergeStates are stated in module Worklist.        *)
Absorbs(s, x) == s # Unvisited /\ MergeStates(s, x) = s

(* What flows along edge e out of a node whose state on entry is s: an     *)
(* evaluation that throws leaves nothing assigned.                         *)
FlowOf(t, n, s, e) == IF e.exceptional THEN s ELSE Transfer(t, n, s)

EdgeIndices(t, n) == DOMAIN t.out[n]

(* The assignment of states to nodes `sol` solves the equations of t.      *)
Solves(t, sol) ==
  /\ Absorbs(sol[t.entry], t.initial)
  /\ \A n \in Node : sol[n] # Unvisited =>
       \A i \in EdgeIndices(t, n) :
         Absorbs(sol[t.out[n][i].to], FlowOf(t, n, sol[n], t.out[n][i]))

Init ==
  /\ task \in Tasks
  /\ incoming = [n \in Node |-> IF n = task.entry THEN task.initial ELSE Unvisited]
  /\ done = FALSE

Grow ==
  /\ ~done
  /\ \E m \in Node, s \in State : \E i \in EdgeIndices(task, m) :
       LET n == task.out[m][i].to
       IN  /\ incoming[m] # Unvisited
           /\ incoming[n] # Unvisited => Absorbs(s, incoming[n])
           /\ incoming' = [incoming EXCEPT ![n] = s]
  /\ UNCHANGED <<task, done>>

Finish ==
  /\ ~done
  /\ Solves(task, incoming)
  /\ done' = TRUE
  /\ UNCHANGED <<task, incoming>>

Next == Grow \/ Finish

Spec == Init /\ [][Next]_vars
=============================================================================
