---------------------------- MODULE ValueAlgebra ----------------------------
(***************************************************************************)
(* What the fixed points of the analysis need of merged_callable_value:    *)
(* one step of the loop in merge_callable_states, which merges an incoming *)
(* value into the value that is already there, for the values in Values.   *)
(***************************************************************************)
EXTENDS CallableValue

CONSTANTS Values,   \* the values compared
          Probes    \* values that may arrive between two arrivals of the same one

ASSUME ValuesAssumption == \A v \in Values \cup Probes : IsValue(v)

VARIABLES current, incoming

TwoValues == current \in Values /\ incoming \in Values

MergeIncoming == current' = Merge(current, incoming) /\ UNCHANGED incoming

Merging == TwoValues /\ [][MergeIncoming]_<<current, incoming>>

(* Two normal values merge to the same value in either order, so what the  *)
(* analysis finds at a control-flow join does not depend on the order in   *)
(* which the worklist delivers the edges.                                  *)
OrderIsIrrelevant ==
  Normal(current) /\ Normal(incoming) => Merge(current, incoming) = Merge(incoming, current)

(* A merge of normal values yields a normal value that has absorbed the    *)
(* incoming one: merge_callable_states reports no change if the same value *)
(* arrives again, whatever arrived in between.                             *)
MergeAbsorbs ==
  [][Normal(current) /\ Normal(incoming) =>
       /\ Normal(current')
       /\ Merge(current', incoming) = current'
       /\ \A v \in Probes : Normal(v) =>
            Merge(Merge(current', v), incoming) = Merge(current', v)]_<<current, incoming>>

=============================================================================
