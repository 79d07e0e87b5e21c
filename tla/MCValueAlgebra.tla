--------------------------- MODULE MCValueAlgebra ---------------------------
(***************************************************************************)
(* Every value with an optional member a, an optional member a.a under it  *)
(* and an optional dynamic member, each of several labels.                 *)
(***************************************************************************)
EXTENDS CallableValueReference

CONSTANTS f, g

MCTarget == {f, g}
MCKey == {IntKey(0), Dynamic}

a == IntKey(0)
OneElement == [AggregateLabel EXCEPT !.lengths = {1}]

Attach(v, key, children) == {v} \cup {Put(v, <<key>>, child) : child \in children}

Elements == UNION {Attach(Leaf(label), a, {TargetValue(f), Bottom}) :
                     label \in {TargetLabel(f), UnknownLabel, BottomLabel, AggregateLabel}}

MCValues ==
  UNION {Attach(v, Dynamic, {TargetValue(g)}) :
           v \in UNION {Attach(Leaf(label), a, Elements) :
                          label \in {AggregateLabel, OneElement, UnknownLabel, BottomLabel}}}

MCProbes == {Bottom, Unknown, Put(EmptyAggregate, <<a>>, TargetValue(g)),
             Put(EmptyAggregate, <<a>>, Bottom)}
=============================================================================
