----------------------------- MODULE MCWorklist -----------------------------
(***************************************************************************)
(* Every graph of three nodes in which the entry and the body each have up *)
(* to two edges, normal or exceptional, and the exit has none; a state is  *)
(* the set of facts that hold on some path, and a node kills and generates *)
(* facts as an assignment replaces what a local may denote.                *)
(***************************************************************************)
EXTENDS Worklist, FiniteSets, SequencesExt

CONSTANTS a, b, none

Nodes == {"entry", "body", "exit"}
Facts == {a, b}
States == {{}, {a}, {b}, Facts}

Edges == [to : Nodes, exceptional : BOOLEAN]
EdgeLists == BoundedSeq(Edges, 2)

Effects == {[kill |-> {}, gen |-> {}], [kill |-> {a}, gen |-> {b}], [kill |-> {b}, gen |-> {a}]}

MCTasks ==
  {[entry |-> "entry", initial |-> {},
    out |-> [entry |-> first, body |-> second, exit |-> <<>>],
    effect |-> [entry |-> [kill |-> {}, gen |-> {a}], body |-> effect,
                exit |-> [kill |-> {}, gen |-> {}]]] :
   first \in EdgeLists, second \in EdgeLists, effect \in Effects}

Union(s, x) == s \cup x
GenKill(t, n, s) == (s \ t.effect[n].kill) \cup t.effect[n].gen

(* What LeastWhenDone needs of the parameters, they have.                  *)
ASSUME LeastAssumption == StatesAssociate /\ TransferIsMonotone
=============================================================================
