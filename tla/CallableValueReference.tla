----------------------- MODULE CallableValueReference -----------------------
(***************************************************************************)
(* CallableValue in its own shape: a record of a label and a function from *)
(* keys to values, with the recursive methods written as the code recurses *)
(* (crates/tolk-inspect-core/src/lib.rs).  It is the yardstick for the     *)
(* closed forms over tries of module CallableValue; TLC only.              *)
(***************************************************************************)
EXTENDS ValueAlgebra

RECURSIVE Tree(_)
Tree(v) == [label |-> v[<<>>], members |-> [k \in MemberKeys(v) |-> Tree(Sub(v, <<k>>))]]

LeafTree(label) == [label |-> label, members |-> [k \in {} |-> label]]

RECURSIVE TreeMerge(_, _)
TreeMerge(l, r) ==
  LET missing(t) == LeafTree(IF t.label.membersComplete THEN NonCallableLabel ELSE UnknownLabel)
      at(t, k) == IF k \in DOMAIN t.members THEN t.members[k] ELSE missing(t)
  IN  IF l.label.bottom THEN r
      ELSE IF r.label.bottom THEN l
      ELSE [label |-> Join(l.label, r.label),
            members |-> [k \in DOMAIN l.members \cup DOMAIN r.members |->
                           TreeMerge(at(l, k), at(r, k))]]

RECURSIVE TreeAnyNested(_)
TreeAnyNested(t) ==
  LET own == LeafTree([UnknownLabel EXCEPT
               !.targets = t.label.targets,
               !.complete = t.label.complete
                              /\ (t.label.membersComplete \/ t.label.targets # {})])
  IN  IF t.label.bottom THEN LeafTree(BottomLabel)
      ELSE FoldSet(LAMBDA k, acc : TreeMerge(acc, TreeAnyNested(t.members[k])),
                   own, DOMAIN t.members)

RECURSIVE TreeLimit(_, _)
TreeLimit(t, remaining) ==
  IF t.label.bottom \/ DOMAIN t.members = {} THEN t
  ELSE IF remaining = 0
  THEN LeafTree([t.label EXCEPT !.membersComplete = FALSE, !.lengths = {}])
  ELSE [t EXCEPT !.members = [k \in DOMAIN t.members |-> TreeLimit(t.members[k], remaining - 1)]]

RECURSIVE TreeSetPath(_, _, _)
TreeSetPath(t, path, w) ==
  LET self == IF t.label.bottom THEN LeafTree(UnknownLabel) ELSE t
      key == Head(path)
      child == IF key \in DOMAIN self.members THEN self.members[key] ELSE LeafTree(UnknownLabel)
      placed == IF Len(path) = 1 THEN w ELSE TreeSetPath(child, Tail(path), w)
  IN  IF path = <<>> THEN w
      ELSE [self EXCEPT !.members = [k \in DOMAIN self.members \cup {key} |->
                                       IF k = key THEN placed ELSE self.members[k]]]

(* The closed form of Merge computes what the recursion of                 *)
(* merged_callable_value computes, bottoms that carry members included.    *)
MergeFollowsTheRecursion == Tree(Merge(current, incoming)) = TreeMerge(Tree(current), Tree(incoming))

(* The closed forms of any_nested_callable, limit_member_depth and         *)
(* set_member_path compute what their recursions compute, through missing  *)
(* members and through bottoms.                                            *)
MethodsFollowTheRecursion ==
  /\ Tree(AnyNestedCallable(current)) = TreeAnyNested(Tree(current))
  /\ \A depth \in 0 .. 2 : Tree(LimitMemberDepth(current, depth)) = TreeLimit(Tree(current), depth)
  /\ \A path \in DOMAIN incoming \cup {p \o p : p \in DOMAIN incoming} :
       Tree(SetMemberPath(current, path, incoming)) = TreeSetPath(Tree(current), path, Tree(incoming))

=============================================================================
