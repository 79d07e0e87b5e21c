---------------------------- MODULE MCFlowGraph ----------------------------
(* Every graph over an entry, an exit and Inner nodes whose edges neither     *)
(* enter the entry nor leave the exit, and every query of it, with ids that   *)
(* belong to no node among the arguments.                                     *)
EXTENDS FlowGraph

CONSTANTS Entry, Exit, Inner, Foreign

AllNodes == {Entry, Exit} \union Inner
MCIds == AllNodes \union {Foreign}
MCGraphs ==
  {[nodes |-> AllNodes, edges |-> E, entry |-> Entry, exit |-> Exit] :
     E \in SUBSET ((AllNodes \ {Exit}) \X (AllNodes \ {Entry}))}
=============================================================================
