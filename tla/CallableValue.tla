--------------------------- MODULE CallableValue ---------------------------
(***************************************************************************)
(* The abstract value of the callable-flow analysis: which callables an    *)
(* expression may denote, whether that set is complete, and the same for   *)
(* every member the expression may carry (struct CallableValue and its     *)
(* methods, crates/tolk-inspect-core/src/lib.rs).                          *)
(*                                                                         *)
(* The struct is recursive: `members` maps a key to a value.  Here a value *)
(* is the trie of its nodes: a function whose domain is the prefix-closed  *)
(* set of member paths the value has and which gives each path the label   *)
(* of its node.  The root is the empty path.  Every operator of the code   *)
(* that recurses over members becomes one quantified definition over       *)
(* paths, which TLC evaluates and TLAPS reasons about.                     *)
(***************************************************************************)
EXTENDS Naturals, Sequences, SequencesExt

CONSTANTS Target,          \* the callables a value may denote (SymbolId)
          Key,             \* the member keys of the instance under study
          MaxArrayLengths  \* MAX_TRACKED_ARRAY_LENGTHS

ASSUME MaxArrayLengthsAssumption == MaxArrayLengths \in Nat

(***************************************************************************)
(* Keys.  The code spells them as strings: int:N, bool:B, string:S for     *)
(* collection entries, a field name or a bare position for members, and    *)
(* two reserved spellings.                                                 *)
(***************************************************************************)
IntKey(n) == <<"int", n>>
FieldKey(name) == <<"field", name>>
Dynamic == <<"dynamic", 0>>
MapValue == <<"mapValue", 0>>

(***************************************************************************)
(* Labels: everything a CallableValue holds except its members.  An empty  *)
(* `lengths` stands for array_lengths = None; the code never builds        *)
(* Some(empty set).                                                        *)
(***************************************************************************)
Label == [targets: SUBSET Target, complete: BOOLEAN, membersComplete: BOOLEAN,
          lengths: SUBSET Nat, bottom: BOOLEAN]

PlainLabel(targets, complete, membersComplete, bottom) ==
  [targets |-> targets, complete |-> complete, membersComplete |-> membersComplete,
   lengths |-> {}, bottom |-> bottom]

UnknownLabel == PlainLabel({}, FALSE, FALSE, FALSE)
NonCallableLabel == PlainLabel({}, TRUE, FALSE, FALSE)
AggregateLabel == PlainLabel({}, TRUE, TRUE, FALSE)
BottomLabel == PlainLabel({}, TRUE, TRUE, TRUE)
TargetLabel(f) == PlainLabel({f}, TRUE, FALSE, FALSE)

Leaf(label) == [p \in {<<>>} |-> label]
Unknown == Leaf(UnknownLabel)
NonCallable == Leaf(NonCallableLabel)
EmptyAggregate == Leaf(AggregateLabel)
Bottom == Leaf(BottomLabel)
TargetValue(f) == Leaf(TargetLabel(f))

(***************************************************************************)
(* Values.                                                                 *)
(***************************************************************************)
Upto(p, i) == SubSeq(p, 1, i)
Parent(p) == SubSeq(p, 1, Len(p) - 1)

IsValue(v) ==
  /\ v \in [DOMAIN v -> Label]
  /\ <<>> \in DOMAIN v
  /\ \A p \in DOMAIN v : p \in Seq(Key) /\ \A i \in 0 .. Len(p) : Upto(p, i) \in DOMAIN v

(* The depths at which the path p of v meets a bottom node.                *)
BottomAt(v, p) == {i \in 0 .. Len(p) : Upto(p, i) \in DOMAIN v /\ v[Upto(p, i)].bottom}

IsBottom(v) == v[<<>>].bottom

(***************************************************************************)
(* A bottom value is neutral in a merge only as a whole: the members that  *)
(* the code may insert into a bottom collection stay attached to it.  A    *)
(* value is normal when none of its bottom nodes has been so written to.   *)
(***************************************************************************)
Normal(v) ==
  \A p \in DOMAIN v : \A i \in BottomAt(v, p) : i = Len(p) /\ v[p] = BottomLabel

(***************************************************************************)
(* The subtree of v at a path, and v with that subtree replaced            *)
(* (BTreeMap::insert for a single key; `entry(..).or_default()` gives the  *)
(* missing inner nodes of a longer path).                                  *)
(***************************************************************************)
Drop(p, n) == SubSeq(p, n + 1, Len(p))

Sub(v, path) ==
  [p \in {Drop(q, Len(path)) : q \in {q \in DOMAIN v : IsPrefix(path, q)}} |-> v[path \o p]]

Put(v, path, w) ==
  LET kept == {q \in DOMAIN v : ~IsPrefix(path, q)}
      inner == {Upto(path, i) : i \in 0 .. (Len(path) - 1)}
      placed == {path \o p : p \in DOMAIN w}
  IN  [q \in kept \cup inner \cup placed |->
         IF q \in placed THEN w[Drop(q, Len(path))]
         ELSE IF q \in kept THEN v[q] ELSE UnknownLabel]

RemoveMember(v, key) == [q \in {q \in DOMAIN v : ~IsPrefix(<<key>>, q)} |-> v[q]]

MemberKeys(v) == {p[1] : p \in DOMAIN v \ {<<>>}}

(* Faulty: a bottom met on the way stays what it is.                       *)
SetMemberPathThroughBottom(v, path, w) == Put(v, path, w)

(* CallableValue::set_member_path: a bottom met on the way is replaced by  *)
(* an unknown value before the member is written.                          *)
SetMemberPath(v, path, w) ==
  LET hits == {i \in BottomAt(v, path) : i < Len(path)}
      cleared == IF hits = {} THEN v ELSE Put(v, Upto(path, Min(hits)), Unknown)
  IN  Put(cleared, path, w)

(***************************************************************************)
(* merged_callable_value.  Descending both values together, the code       *)
(*   - returns the right node with everything under it where the left one  *)
(*     is bottom, and otherwise the left one where the right one is;       *)
(*   - stands a placeholder in for a member one side does not have: not    *)
(*     callable if that side knows all its members, unknown if not;        *)
(*   - joins the labels of two nodes that are not bottom.                  *)
(***************************************************************************)
LabelOr(v, p) ==
  IF p \in DOMAIN v THEN v[p]
  ELSE IF Parent(p) \in DOMAIN v /\ v[Parent(p)].membersComplete
  THEN NonCallableLabel ELSE UnknownLabel

(* Faulty: the members are known if the left node knows its own; the last  *)
(* lengths win; the last completeness wins.                                *)
JoinTrustsLeftMembers(a, b) ==
  [PlainLabel(a.targets \cup b.targets, a.complete /\ b.complete, a.membersComplete, FALSE)
     EXCEPT !.lengths = IF a.lengths = {} \/ b.lengths = {} THEN {} ELSE a.lengths \cup b.lengths]
JoinKeepsOneLength(a, b) ==
  [PlainLabel(a.targets \cup b.targets, a.complete /\ b.complete,
              a.membersComplete /\ b.membersComplete, FALSE) EXCEPT !.lengths = b.lengths]
JoinLastWins(a, b) ==
  PlainLabel(a.targets \cup b.targets, b.complete, a.membersComplete /\ b.membersComplete, FALSE)

Join(a, b) ==
  [targets |-> a.targets \cup b.targets,
   complete |-> a.complete /\ b.complete,
   membersComplete |-> a.membersComplete /\ b.membersComplete,
   lengths |-> IF a.lengths = {} \/ b.lengths = {} THEN {} ELSE a.lengths \cup b.lengths,
   bottom |-> FALSE]

(* Faulty: two bottoms are joined as if they were values.                  *)
TakesRightStrictly(l, r, p) ==
  \E i \in BottomAt(l, p) : \A j \in BottomAt(r, p) : i < j

TakesRight(l, r, p) ==
  \E i \in BottomAt(l, p) : \A j \in BottomAt(r, p) : i <= j
TakesLeft(l, r, p) ==
  \E j \in BottomAt(r, p) : \A i \in BottomAt(l, p) : j < i

UnderBottom(v, p) == \E i \in BottomAt(v, p) : i < Len(p)

Merge(l, r) ==
  [p \in {p \in DOMAIN l : UnderBottom(l, p) => TakesLeft(l, r, p)}
           \cup {p \in DOMAIN r : UnderBottom(r, p) => TakesRight(l, r, p)} |->
     IF TakesRight(l, r, p) THEN LabelOr(r, p)
     ELSE IF TakesLeft(l, r, p) THEN LabelOr(l, p)
     ELSE Join(LabelOr(l, p), LabelOr(r, p))]

(***************************************************************************)
(* Reading members.                                                        *)
(***************************************************************************)
(* The member a missing key stands for (`unwrap_or_else` in member).       *)
Placeholder(v) == IF v[<<>>].membersComplete THEN NonCallable ELSE Unknown

Member(v, key) ==
  LET exact == IF <<key>> \in DOMAIN v THEN Sub(v, <<key>>) ELSE Placeholder(v)
  IN  IF IsBottom(v) THEN Bottom
      ELSE IF <<Dynamic>> \in DOMAIN v THEN Merge(exact, Sub(v, <<Dynamic>>))
      ELSE exact

MemberPath(v, path) == FoldLeft(Member, v, path)

AnyMember(v) ==
  IF IsBottom(v) THEN Bottom
  ELSE FoldSet(LAMBDA key, value : Merge(value, Sub(v, <<key>>)), Placeholder(v), MemberKeys(v))

(* Faulty: what is stored at unknown keys is not counted.                  *)
AnyNestedOfSlots(v) ==
  LET nodes == {v[p] : p \in {p \in DOMAIN v : Dynamic \notin Range(p) /\ BottomAt(v, p) = {}}}
  IN  IF IsBottom(v) THEN Bottom
      ELSE Leaf([UnknownLabel EXCEPT
             !.targets = UNION {n.targets : n \in nodes},
             !.complete = \A n \in nodes : n.complete /\ (n.membersComplete \/ n.targets # {})])

(* any_nested_callable folds a value into one node: whatever any node that *)
(* is not bottom, nor under a bottom, may denote.                          *)
AnyNestedCallable(v) ==
  LET nodes == {v[p] : p \in {p \in DOMAIN v : BottomAt(v, p) = {}}}
  IN  IF IsBottom(v) THEN Bottom
      ELSE Leaf([UnknownLabel EXCEPT
             !.targets = UNION {n.targets : n \in nodes},
             !.complete = \A n \in nodes : n.complete /\ (n.membersComplete \/ n.targets # {})])

(***************************************************************************)
(* Writing members.                                                        *)
(***************************************************************************)
(* `entry(key).or_insert_with(bottom)` followed by a merge into it.        *)
MergeMember(v, key, w) ==
  Put(v, <<key>>, Merge(IF <<key>> \in DOMAIN v THEN Sub(v, <<key>>) ELSE Bottom, w))

SetDynamicMember(v, w) == MergeMember(v, Dynamic, w)

PackedTuple(v) ==
  IF IsBottom(v) THEN Bottom
  ELSE SetDynamicMember(EmptyAggregate, AnyNestedCallable(v))

UnpackedTuple(v) ==
  LET flat == AnyNestedCallable(v)
  IN  IF IsBottom(v) THEN Bottom
      ELSE SetDynamicMember(
             [v EXCEPT ![<<>>].targets = flat[<<>>].targets,
                       ![<<>>].complete = flat[<<>>].complete], flat)

(* Faulty: the pushed value replaces what the slot may already hold.       *)
PushReplaces(v, w) ==
  LET lengths == v[<<>>].lengths
      landed == FoldSet(LAMBDA n, array : Put(array, <<IntKey(n)>>, w), v, lengths)
      next == {n + 1 : n \in lengths}
  IN  IF lengths = {} \/ Cardinality(next) > MaxArrayLengths
      THEN SetDynamicMember([landed EXCEPT ![<<>>].lengths = {}], w)
      ELSE [landed EXCEPT ![<<>>].lengths = next]

(* push_array_member: the value lands at every tracked length; past the    *)
(* limit, or with no tracked lengths, it lands at an unknown index.        *)
PushArrayMember(v, w) ==
  LET lengths == v[<<>>].lengths
      landed == FoldSet(LAMBDA n, array : MergeMember(array, IntKey(n), w), v, lengths)
      next == {n + 1 : n \in lengths}
  IN  IF lengths = {} THEN SetDynamicMember(v, w)
      ELSE IF Cardinality(next) > MaxArrayLengths
      THEN SetDynamicMember([landed EXCEPT ![<<>>].lengths = {}], w)
      ELSE [landed EXCEPT ![<<>>].lengths = next]

(* limit_member_depth: members below the depth are forgotten, and the node *)
(* that had them no longer knows its members; a bottom on the way ends the *)
(* descent.                                                                *)
LimitMemberDepth(v, depth) ==
  LET reached(p) == \A i \in BottomAt(v, p) : i > depth
      cut(p) == Len(p) = depth /\ reached(p)
                  /\ \E q \in DOMAIN v : Len(q) > depth /\ Upto(q, depth) = p
  IN  [p \in {p \in DOMAIN v : Len(p) > depth => ~reached(p)} |->
         IF cut(p) THEN [v[p] EXCEPT !.membersComplete = FALSE, !.lengths = {}] ELSE v[p]]

(***************************************************************************)
(* A call made through a value is reported complete when the value is not  *)
(* bottom and its targets are all the callables it may denote.             *)
(***************************************************************************)
ReportsComplete(v) == ~IsBottom(v) /\ v[<<>>].complete
Targets(v) == v[<<>>].targets

(***************************************************************************)
(* merge_callable_states.  A state gives every local of a body its value;  *)
(* analyze_program_calls enters each local into the initial state, so both *)
(* states bind the same locals.                                            *)
(***************************************************************************)
MergeStates(current, arriving) ==
  [local \in DOMAIN current |-> Merge(current[local], arriving[local])]

=============================================================================
