------------------------ MODULE CallableValueProofs ------------------------
(***************************************************************************)
(* Machine-checked proofs that merging normal values is a semilattice      *)
(* join, whatever the callables, keys and depth of the values: the laws    *)
(* that module Worklist asks of MergeStates.  The argument goes through    *)
(* the view of a value, which extends its labels to every path, and shows  *)
(* that Merge joins views point by point.  The second part says what       *)
(* reading and writing members does to a value that is not bottom.         *)
(***************************************************************************)
EXTENDS ValueAlgebra, SequenceTheorems, FiniteSetTheorems, TLAPS

Path == Seq(Key)

NormalValue == {v \in UNION {[D -> Label] : D \in SUBSET Path} : IsValue(v) /\ Normal(v)}

(* The label of a value at any path: under a bottom everything is bottom.  *)
View(v, p) == IF BottomAt(v, p) # {} THEN BottomLabel ELSE LabelOr(v, p)

(* Join with bottom as its neutral element.                                *)
JoinViews(a, b) == IF a.bottom THEN b ELSE IF b.bottom THEN a ELSE Join(a, b)

ViewLabel == {a \in Label : a.bottom => a = BottomLabel}

-----------------------------------------------------------------------------
LEMMA LabelFacts ==
  /\ UnknownLabel = [targets |-> {}, complete |-> FALSE, membersComplete |-> FALSE,
                     lengths |-> {}, bottom |-> FALSE]
  /\ NonCallableLabel = [targets |-> {}, complete |-> TRUE, membersComplete |-> FALSE,
                         lengths |-> {}, bottom |-> FALSE]
  /\ BottomLabel = [targets |-> {}, complete |-> TRUE, membersComplete |-> TRUE,
                    lengths |-> {}, bottom |-> TRUE]
  /\ UnknownLabel \in ViewLabel /\ NonCallableLabel \in ViewLabel /\ BottomLabel \in ViewLabel
<1>1. /\ UnknownLabel = [targets |-> {}, complete |-> FALSE, membersComplete |-> FALSE,
                         lengths |-> {}, bottom |-> FALSE]
      /\ NonCallableLabel = [targets |-> {}, complete |-> TRUE, membersComplete |-> FALSE,
                             lengths |-> {}, bottom |-> FALSE]
      /\ BottomLabel = [targets |-> {}, complete |-> TRUE, membersComplete |-> TRUE,
                        lengths |-> {}, bottom |-> TRUE]
  BY DEF UnknownLabel, NonCallableLabel, BottomLabel, PlainLabel
<1>2. UnknownLabel \in Label /\ NonCallableLabel \in Label /\ BottomLabel \in Label
  BY <1>1 DEF Label
<1>3. ~UnknownLabel.bottom /\ ~NonCallableLabel.bottom
  BY <1>1
<1>4. UnknownLabel \in ViewLabel /\ NonCallableLabel \in ViewLabel /\ BottomLabel \in ViewLabel
  BY <1>2, <1>3 DEF ViewLabel
<1> QED
  BY <1>1, <1>4

LEMMA JoinType ==
  ASSUME NEW a \in Label, NEW b \in Label
  PROVE  Join(a, b) \in Label /\ ~Join(a, b).bottom
BY DEF Join, Label

LEMMA JoinLaws ==
  ASSUME NEW a \in Label, NEW b \in Label, NEW c \in Label
  PROVE  /\ Join(a, b) = Join(b, a)
         /\ Join(Join(a, b), c) = Join(a, Join(b, c))
         /\ ~a.bottom => Join(a, a) = a
<1>1. Join(a, b) = Join(b, a)
  BY DEF Join, Label
<1>2. Join(Join(a, b), c) = Join(a, Join(b, c))
  BY DEF Join, Label
<1>3. ~a.bottom => Join(a, a) = a
  BY DEF Join, Label
<1> QED
  BY <1>1, <1>2, <1>3

(* JoinViews makes the labels a view can have a semilattice with a least   *)
(* element.                                                                *)
LEMMA JoinViewsLaws ==
  ASSUME NEW a \in ViewLabel, NEW b \in ViewLabel, NEW c \in ViewLabel
  PROVE  /\ JoinViews(a, b) \in ViewLabel
         /\ JoinViews(a, b).bottom <=> a.bottom /\ b.bottom
         /\ JoinViews(a, b) = JoinViews(b, a)
         /\ JoinViews(JoinViews(a, b), c) = JoinViews(a, JoinViews(b, c))
         /\ JoinViews(a, a) = a
<1>1. a \in Label /\ b \in Label /\ c \in Label
  BY DEF ViewLabel
<1>2. /\ a.bottom => a = BottomLabel
      /\ b.bottom => b = BottomLabel
      /\ c.bottom => c = BottomLabel
  BY DEF ViewLabel
<1>3. /\ Join(a, b) \in Label /\ ~Join(a, b).bottom
      /\ Join(b, c) \in Label /\ ~Join(b, c).bottom
  BY <1>1, JoinType
<1>4. /\ Join(a, b) = Join(b, a)
      /\ Join(Join(a, b), c) = Join(a, Join(b, c))
      /\ ~a.bottom => Join(a, a) = a
  BY <1>1, JoinLaws
<1>5. JoinViews(a, b) \in ViewLabel
  BY <1>1, <1>2, <1>3 DEF JoinViews, ViewLabel
<1>6. JoinViews(a, b).bottom <=> a.bottom /\ b.bottom
  BY <1>3 DEF JoinViews
<1>7. JoinViews(a, b) = JoinViews(b, a)
  BY <1>2, <1>4 DEF JoinViews
<1>8. JoinViews(JoinViews(a, b), c) = JoinViews(a, JoinViews(b, c))
  BY <1>3, <1>4 DEF JoinViews
<1>9. JoinViews(a, a) = a
  BY <1>4 DEF JoinViews
<1> QED
  BY <1>5, <1>6, <1>7, <1>8, <1>9

-----------------------------------------------------------------------------
(* Prefixes of paths.                                                      *)
LEMMA PrefixFacts ==
  ASSUME NEW p \in Path, NEW i \in 0 .. Len(p)
  PROVE  /\ Upto(p, i) \in Path
         /\ Len(Upto(p, i)) = i
         /\ \A j \in 0 .. i : Upto(Upto(p, i), j) = Upto(p, j)
         /\ Upto(p, Len(p)) = p
<1>1. Upto(p, i) \in Path /\ Len(Upto(p, i)) = i
  BY DEF Upto, Path
<1>2. ASSUME NEW j \in 0 .. i
      PROVE  Upto(Upto(p, i), j) = Upto(p, j)
  <2>1. /\ Upto(p, j) \in Path /\ Len(Upto(p, j)) = j
        /\ Upto(Upto(p, i), j) \in Path /\ Len(Upto(Upto(p, i), j)) = j
    BY <1>1 DEF Upto, Path
  <2>2. \A k \in 1 .. j : Upto(p, j)[k] = p[k] /\ Upto(Upto(p, i), j)[k] = p[k]
    BY <1>1 DEF Upto, Path
  <2> QED
    BY <2>1, <2>2, SeqEqual DEF Path
<1>3. Upto(p, Len(p)) = p
  <2>1. Upto(p, Len(p)) \in Path /\ Len(Upto(p, Len(p))) = Len(p)
    BY DEF Upto, Path
  <2>2. \A k \in 1 .. Len(p) : Upto(p, Len(p))[k] = p[k]
    BY DEF Upto, Path
  <2> QED
    BY <2>1, <2>2, SeqEqual DEF Path
<1> QED
  BY <1>1, <1>2, <1>3

(* The bottoms met on the way to a prefix are met on the way to the path.  *)
LEMMA BottomAtPrefix ==
  ASSUME NEW v, NEW p \in Path, NEW i \in 0 .. Len(p)
  PROVE  /\ BottomAt(v, Upto(p, i)) = {j \in BottomAt(v, p) : j <= i}
         /\ BottomAt(v, p) \subseteq 0 .. Len(p)
BY PrefixFacts DEF BottomAt

(* What being a normal value gives: a bottom ends its path.                *)
LEMMA NormalFacts ==
  ASSUME NEW v \in NormalValue
  PROVE  /\ v \in [DOMAIN v -> Label] /\ DOMAIN v \subseteq Path /\ <<>> \in DOMAIN v
         /\ \A p \in DOMAIN v, i \in Nat : i <= Len(p) => Upto(p, i) \in DOMAIN v
         /\ \A p \in DOMAIN v : \A i \in BottomAt(v, p) : i = Len(p) /\ v[p] = BottomLabel
         /\ \A p \in DOMAIN v : v[p] \in ViewLabel /\ View(v, p) = v[p]
<1>1. IsValue(v) /\ Normal(v)
  BY DEF NormalValue
<1>2. /\ v \in [DOMAIN v -> Label] /\ DOMAIN v \subseteq Path /\ <<>> \in DOMAIN v
      /\ \A p \in DOMAIN v, i \in Nat : i <= Len(p) => Upto(p, i) \in DOMAIN v
  <2>1. \A p \in DOMAIN v : p \in Seq(Key) /\ \A i \in 0 .. Len(p) : Upto(p, i) \in DOMAIN v
    BY <1>1 DEF IsValue
  <2>2. v \in [DOMAIN v -> Label] /\ <<>> \in DOMAIN v
    BY <1>1 DEF IsValue
  <2>3. \A p \in DOMAIN v, i \in Nat : i <= Len(p) => i \in 0 .. Len(p)
    BY <2>1
  <2> QED
    BY <2>1, <2>2, <2>3 DEF Path
<1>3. \A p \in DOMAIN v : \A i \in BottomAt(v, p) : i = Len(p) /\ v[p] = BottomLabel
  BY <1>1 DEF Normal
<1>4. ASSUME NEW p \in DOMAIN v
      PROVE  v[p] \in ViewLabel /\ View(v, p) = v[p]
  <2>1. p \in Path /\ Len(p) \in Nat /\ Upto(p, Len(p)) = p
    BY <1>2, PrefixFacts DEF Path
  <2>2. v[p].bottom => Len(p) \in BottomAt(v, p)
    BY <2>1 DEF BottomAt
  <2>3. v[p] \in Label
    BY <1>2
  <2>4. v[p].bottom => v[p] = BottomLabel
    BY <1>3, <2>2
  <2>5. View(v, p) = v[p]
    BY <1>3 DEF View, LabelOr
  <2> QED
    BY <2>3, <2>4, <2>5 DEF ViewLabel
<1> QED
  BY <1>2, <1>3, <1>4

(* A view is a view label at every path, and bottom exactly where some     *)
(* prefix is bottom.                                                       *)
LEMMA ViewType ==
  ASSUME NEW v \in NormalValue, NEW p \in Path
  PROVE  /\ View(v, p) \in ViewLabel
         /\ View(v, p).bottom <=> BottomAt(v, p) # {}
         /\ p \notin DOMAIN v /\ BottomAt(v, p) = {} =>
              View(v, p) = LabelOr(v, p) /\ LabelOr(v, p) \in {UnknownLabel, NonCallableLabel}
<1>1. CASE BottomAt(v, p) # {}
  BY <1>1, LabelFacts DEF View
<1>2. CASE BottomAt(v, p) = {} /\ p \in DOMAIN v
  <2>1. Upto(p, Len(p)) = p /\ Len(p) \in Nat
    BY PrefixFacts DEF Path
  <2>2. ~v[p].bottom
    BY <1>2, <2>1 DEF BottomAt
  <2>3. v[p] \in ViewLabel /\ View(v, p) = v[p]
    BY <1>2, NormalFacts
  <2> QED
    BY <1>2, <2>2, <2>3
<1>3. CASE BottomAt(v, p) = {} /\ p \notin DOMAIN v
  <2>1. LabelOr(v, p) \in {UnknownLabel, NonCallableLabel} /\ View(v, p) = LabelOr(v, p)
    BY <1>3 DEF LabelOr, View
  <2>2. ~UnknownLabel.bottom /\ ~NonCallableLabel.bottom
    BY LabelFacts
  <2> QED
    BY <1>3, <2>1, <2>2, LabelFacts
<1> QED
  BY <1>1, <1>2, <1>3

(* On normal values Merge joins the views at every path either value has.  *)
LEMMA MergeIsJoin ==
  ASSUME NEW l \in NormalValue, NEW r \in NormalValue
  PROVE  Merge(l, r) = [p \in DOMAIN l \cup DOMAIN r |-> JoinViews(View(l, p), View(r, p))]
<1>1. /\ \A p \in DOMAIN l : ~UnderBottom(l, p)
      /\ \A p \in DOMAIN r : ~UnderBottom(r, p)
  <2>1. ASSUME NEW v \in NormalValue, NEW p \in DOMAIN v
        PROVE  ~UnderBottom(v, p)
    <3>1. p \in Path /\ Len(p) \in Nat
      BY <2>1, NormalFacts DEF Path
    <3>2. \A i \in BottomAt(v, p) : i = Len(p)
      BY <2>1, NormalFacts
    <3> QED
      BY <3>1, <3>2 DEF UnderBottom
  <2> QED
    BY <2>1
<1>2. ASSUME NEW p \in DOMAIN l \cup DOMAIN r
      PROVE  (IF TakesRight(l, r, p) THEN LabelOr(r, p)
              ELSE IF TakesLeft(l, r, p) THEN LabelOr(l, p)
              ELSE Join(LabelOr(l, p), LabelOr(r, p))) = JoinViews(View(l, p), View(r, p))
  <2>1. p \in Path /\ Len(p) \in Nat
    BY <1>2, NormalFacts DEF Path
  <2>2. /\ View(l, p).bottom <=> BottomAt(l, p) # {}
        /\ View(r, p).bottom <=> BottomAt(r, p) # {}
    BY <2>1, ViewType
  <2>3. BottomAt(l, p) \subseteq 0 .. Len(p) /\ BottomAt(r, p) \subseteq 0 .. Len(p)
    BY DEF BottomAt
  <2>4. CASE BottomAt(l, p) = {} /\ BottomAt(r, p) = {}
    BY <2>2, <2>4 DEF TakesRight, TakesLeft, JoinViews, View
  <2>5. CASE BottomAt(l, p) # {} /\ BottomAt(r, p) = {}
    BY <2>2, <2>5 DEF TakesRight, JoinViews, View
  <2>6. CASE BottomAt(l, p) = {} /\ BottomAt(r, p) # {}
    BY <2>2, <2>6 DEF TakesRight, TakesLeft, JoinViews, View
  <2>7. CASE BottomAt(l, p) # {} /\ BottomAt(r, p) # {}
    <3>1. JoinViews(View(l, p), View(r, p)) = BottomLabel
      BY <2>2, <2>7 DEF JoinViews, View
    <3>2. CASE p \in DOMAIN r
      <4>1. BottomAt(r, p) = {Len(p)} /\ r[p] = BottomLabel
        BY <2>7, <3>2, NormalFacts
      <4>2. TakesRight(l, r, p)
        BY <2>1, <2>3, <2>7, <4>1 DEF TakesRight
      <4> QED
        BY <3>1, <3>2, <4>1, <4>2 DEF LabelOr
    <3>3. CASE p \in DOMAIN l /\ p \notin DOMAIN r
      <4>1. BottomAt(l, p) = {Len(p)} /\ l[p] = BottomLabel
        BY <2>7, <3>3, NormalFacts
      <4>2. \A j \in BottomAt(r, p) : j # Len(p)
        BY <2>1, <3>3, PrefixFacts DEF BottomAt
      <4>3. ~TakesRight(l, r, p) /\ TakesLeft(l, r, p)
        BY <2>1, <2>3, <2>7, <4>1, <4>2 DEF TakesRight, TakesLeft
      <4> QED
        BY <3>1, <3>3, <4>1, <4>3 DEF LabelOr
    <3> QED
      BY <1>2, <3>2, <3>3
  <2> QED
    BY <2>4, <2>5, <2>6, <2>7
<1>3. /\ {p \in DOMAIN l : UnderBottom(l, p) => TakesLeft(l, r, p)} = DOMAIN l
      /\ {p \in DOMAIN r : UnderBottom(r, p) => TakesRight(l, r, p)} = DOMAIN r
  BY <1>1
<1> QED
  BY <1>2, <1>3 DEF Merge

(* Normal values are closed under Merge, which keeps every path.           *)
LEMMA MergeType ==
  ASSUME NEW l \in NormalValue, NEW r \in NormalValue
  PROVE  /\ Merge(l, r) \in NormalValue
         /\ DOMAIN Merge(l, r) = DOMAIN l \cup DOMAIN r
         /\ \A p \in DOMAIN l \cup DOMAIN r : Merge(l, r)[p] = JoinViews(View(l, p), View(r, p))
<1> DEFINE m == Merge(l, r)
<1>1. /\ DOMAIN m = DOMAIN l \cup DOMAIN r
      /\ \A p \in DOMAIN m : m[p] = JoinViews(View(l, p), View(r, p))
  BY MergeIsJoin
<1>2. DOMAIN m \subseteq Path
  BY <1>1, NormalFacts
<1>3. ASSUME NEW p \in DOMAIN m
      PROVE  m[p] \in ViewLabel /\ (m[p].bottom <=> BottomAt(l, p) # {} /\ BottomAt(r, p) # {})
  <2>1. /\ View(l, p) \in ViewLabel /\ (View(l, p).bottom <=> BottomAt(l, p) # {})
        /\ View(r, p) \in ViewLabel /\ (View(r, p).bottom <=> BottomAt(r, p) # {})
    BY <1>2, <1>3, ViewType
  <2>2. m[p] = JoinViews(View(l, p), View(r, p))
    BY <1>1, <1>3
  <2> QED
    BY <2>1, <2>2, JoinViewsLaws
<1>4. m \in [DOMAIN m -> Label]
  <2>1. \A p \in DOMAIN m : m[p] \in Label
    BY <1>3 DEF ViewLabel
  <2>2. m = [p \in DOMAIN m |-> m[p]]
    BY <1>1, MergeIsJoin
  <2> QED
    BY <2>1, <2>2
<1>5. IsValue(m)
  <2>1. \A p \in DOMAIN m : \A i \in 0 .. Len(p) : Upto(p, i) \in DOMAIN m
    BY <1>1, NormalFacts
  <2> QED
    BY <1>1, <1>2, <1>4, <2>1, NormalFacts DEF IsValue, Path
<1>6. Normal(m)
  <2> SUFFICES ASSUME NEW p \in DOMAIN m, NEW i \in BottomAt(m, p)
               PROVE  i = Len(p) /\ m[p] = BottomLabel
    BY DEF Normal
  <2> DEFINE q == Upto(p, i)
  <2>1. p \in Path /\ Len(p) \in Nat /\ i \in 0 .. Len(p) /\ q \in DOMAIN m /\ m[q].bottom
    BY <1>2 DEF BottomAt, Path
  <2>2. BottomAt(l, q) # {} /\ BottomAt(r, q) # {}
    BY <1>3, <2>1
  <2>3. /\ BottomAt(l, q) = {j \in BottomAt(l, p) : j <= i}
        /\ BottomAt(r, q) = {j \in BottomAt(r, p) : j <= i}
    BY <2>1, BottomAtPrefix
  <2>4. i = Len(p)
    <3>1. PICK v \in {l, r} : p \in DOMAIN v
      BY <1>1
    <3>2. PICK j \in BottomAt(v, p) : j <= i
      BY <2>2, <2>3
    <3>3. j = Len(p)
      BY <3>1, <3>2, NormalFacts
    <3> QED
      BY <2>1, <3>2, <3>3
  <2>5. q = p
    BY <2>1, <2>4, PrefixFacts
  <2>6. m[p].bottom /\ m[p] \in ViewLabel
    BY <1>3, <2>1, <2>5
  <2> QED
    BY <2>4, <2>6 DEF ViewLabel
<1>7. m \in NormalValue
  BY <1>2, <1>4, <1>5, <1>6 DEF NormalValue
<1> QED
  BY <1>1, <1>7

(* Two normal values with the same paths and labels are the same.          *)
LEMMA ValueEqual ==
  ASSUME NEW l \in NormalValue, NEW r \in NormalValue, DOMAIN l = DOMAIN r,
         \A p \in DOMAIN l : l[p] = r[p]
  PROVE  l = r
BY NormalFacts

(* The value a control-flow join computes does not depend on which edge    *)
(* the worklist follows first.                                             *)
THEOREM MergeCommutes ==
  ASSUME NEW l \in NormalValue, NEW r \in NormalValue
  PROVE  Merge(l, r) = Merge(r, l)
<1>1. /\ Merge(l, r) \in NormalValue /\ DOMAIN Merge(l, r) = DOMAIN l \cup DOMAIN r
      /\ Merge(r, l) \in NormalValue /\ DOMAIN Merge(r, l) = DOMAIN l \cup DOMAIN r
  BY MergeType
<1>2. ASSUME NEW p \in DOMAIN l \cup DOMAIN r
      PROVE  Merge(l, r)[p] = Merge(r, l)[p]
  <2>1. View(l, p) \in ViewLabel /\ View(r, p) \in ViewLabel
    BY <1>2, NormalFacts, ViewType
  <2>2. /\ Merge(l, r)[p] = JoinViews(View(l, p), View(r, p))
        /\ Merge(r, l)[p] = JoinViews(View(r, p), View(l, p))
    BY <1>2, MergeType
  <2> QED
    BY <2>1, <2>2, JoinViewsLaws
<1> QED
  BY <1>1, <1>2, ValueEqual

(* A value absorbs itself.                                                 *)
THEOREM MergeIdempotent ==
  ASSUME NEW s \in NormalValue
  PROVE  Merge(s, s) = s
<1>1. \A p \in DOMAIN s : JoinViews(View(s, p), View(s, p)) = s[p]
  BY NormalFacts, JoinViewsLaws
<1> QED
  BY <1>1, MergeType, ValueEqual

(* Merging the same value a second time changes nothing: the `changed`     *)
(* flag of merge_callable_states settles.                                  *)
THEOREM MergeSettles ==
  ASSUME NEW s \in NormalValue, NEW x \in NormalValue
  PROVE  Merge(Merge(s, x), x) = Merge(s, x)
<1> DEFINE m == Merge(s, x)
<1>1. /\ m \in NormalValue /\ DOMAIN m = DOMAIN s \cup DOMAIN x
      /\ Merge(m, x) \in NormalValue /\ DOMAIN Merge(m, x) = DOMAIN m \cup DOMAIN x
  BY MergeType
<1>2. ASSUME NEW p \in DOMAIN m
      PROVE  Merge(m, x)[p] = m[p]
  <2>1. /\ m[p] = JoinViews(View(s, p), View(x, p))
        /\ View(m, p) = m[p]
        /\ Merge(m, x)[p] = JoinViews(View(m, p), View(x, p))
    <3>1. m[p] = JoinViews(View(s, p), View(x, p))
      BY <1>1, <1>2, MergeType
    <3>2. View(m, p) = m[p]
      BY <1>1, <1>2, NormalFacts
    <3>3. Merge(m, x)[p] = JoinViews(View(m, p), View(x, p))
      BY <1>1, <1>2, MergeType
    <3> QED
      BY <3>1, <3>2, <3>3
  <2>2. View(s, p) \in ViewLabel /\ View(x, p) \in ViewLabel
    BY <1>1, <1>2, NormalFacts, ViewType
  <2> QED
    BY <2>1, <2>2, JoinViewsLaws
<1> QED
  BY <1>1, <1>2, ValueEqual

(* Beyond its paths a value that meets no bottom is a placeholder that its *)
(* parent's view decides.                                                  *)
LEMMA ViewOutside ==
  ASSUME NEW v \in NormalValue, NEW p \in Path, p \notin DOMAIN v
  PROVE  /\ p # <<>> /\ Parent(p) \in Path
         /\ BottomAt(v, p) # {} <=> BottomAt(v, Parent(p)) # {}
         /\ BottomAt(v, p) = {} /\ View(v, Parent(p)).membersComplete => View(v, p) = NonCallableLabel
         /\ BottomAt(v, p) = {} /\ ~View(v, Parent(p)).membersComplete => View(v, p) = UnknownLabel
         /\ BottomAt(v, p) = {} /\ Parent(p) \notin DOMAIN v => View(v, p) = UnknownLabel
<1> DEFINE q == Parent(p)
<1>1. p # <<>> /\ Len(p) \in Nat /\ Len(p) - 1 \in 0 .. Len(p) /\ q = Upto(p, Len(p) - 1)
  BY NormalFacts DEF Parent, Upto, Path
<1>2. q \in Path /\ Upto(p, Len(p)) = p
  BY <1>1, PrefixFacts
<1>3. BottomAt(v, q) = {j \in BottomAt(v, p) : j <= Len(p) - 1}
  <2>1. ASSUME NEW i \in 0 .. Len(p)
        PROVE  BottomAt(v, Upto(p, i)) = {j \in BottomAt(v, p) : j <= i}
    BY BottomAtPrefix
  <2>2. BottomAt(v, Upto(p, Len(p) - 1)) = {j \in BottomAt(v, p) : j <= Len(p) - 1}
    BY <1>1, <2>1
  <2> QED
    BY <1>1, <2>2
<1>4. \A j \in BottomAt(v, p) : j \in Nat /\ j <= Len(p) - 1
  BY <1>1, <1>2 DEF BottomAt
<1>5. BottomAt(v, p) # {} <=> BottomAt(v, q) # {}
  BY <1>3, <1>4
<1>6. ASSUME BottomAt(v, p) = {}
      PROVE  /\ View(v, q).membersComplete => View(v, p) = NonCallableLabel
             /\ ~View(v, q).membersComplete => View(v, p) = UnknownLabel
             /\ q \notin DOMAIN v => View(v, p) = UnknownLabel
  <2>1. View(v, p) = LabelOr(v, p) /\ BottomAt(v, q) = {}
    BY <1>5, <1>6, ViewType
  <2>2. CASE q \in DOMAIN v
    <3>1. View(v, q) = v[q]
      BY <2>2, NormalFacts
    <3> QED
      BY <2>1, <2>2, <3>1 DEF LabelOr
  <2>3. CASE q \notin DOMAIN v
    <3>1. View(v, q) \in {UnknownLabel, NonCallableLabel}
      BY <1>2, <2>1, <2>3, ViewType
    <3>2. ~View(v, q).membersComplete
      BY <3>1, LabelFacts
    <3> QED
      BY <2>1, <2>3, <3>2 DEF LabelOr
  <2> QED
    BY <2>2, <2>3
<1> QED
  BY <1>1, <1>2, <1>5, <1>6

(* A merge meets a bottom on the way to a path when both values do.        *)
LEMMA BottomOfMerge ==
  ASSUME NEW l \in NormalValue, NEW r \in NormalValue, NEW p \in Path
  PROVE  BottomAt(Merge(l, r), p) # {} <=> BottomAt(l, p) # {} /\ BottomAt(r, p) # {}
<1> DEFINE m == Merge(l, r)
<1>0. /\ m \in NormalValue /\ DOMAIN m = DOMAIN l \cup DOMAIN r
      /\ \A q \in DOMAIN l \cup DOMAIN r : m[q] = JoinViews(View(l, q), View(r, q))
  BY MergeType
<1> HIDE DEF m
<1>1. ASSUME NEW q \in DOMAIN m
      PROVE  q \in Path /\ (m[q].bottom <=> BottomAt(l, q) # {} /\ BottomAt(r, q) # {})
  <2>1. q \in DOMAIN l \cup DOMAIN r /\ m[q] = JoinViews(View(l, q), View(r, q))
    BY <1>0, <1>1
  <2>2. q \in Path
    BY <2>1, NormalFacts
  <2>3. /\ View(l, q) \in ViewLabel /\ (View(l, q).bottom <=> BottomAt(l, q) # {})
        /\ View(r, q) \in ViewLabel /\ (View(r, q).bottom <=> BottomAt(r, q) # {})
    BY <2>2, ViewType
  <2> QED
    BY <2>1, <2>2, <2>3, JoinViewsLaws
<1>2. ASSUME NEW i \in BottomAt(m, p)
      PROVE  BottomAt(l, p) # {} /\ BottomAt(r, p) # {}
  <2>1. i \in 0 .. Len(p) /\ Upto(p, i) \in DOMAIN m /\ m[Upto(p, i)].bottom
    BY <1>2 DEF BottomAt
  <2>2. BottomAt(l, Upto(p, i)) # {} /\ BottomAt(r, Upto(p, i)) # {}
    BY <1>1, <2>1
  <2> QED
    BY <2>1, <2>2, BottomAtPrefix
<1>3. ASSUME NEW i \in BottomAt(l, p), NEW j \in BottomAt(r, p)
      PROVE  BottomAt(m, p) # {}
  <2> DEFINE k == IF i >= j THEN i ELSE j
  <2>1. /\ i \in 0 .. Len(p) /\ Upto(p, i) \in DOMAIN l
        /\ j \in 0 .. Len(p) /\ Upto(p, j) \in DOMAIN r
    BY <1>3 DEF BottomAt
  <2>2. k \in 0 .. Len(p) /\ i <= k /\ j <= k /\ Upto(p, k) \in DOMAIN m
    <3>1. Len(p) \in Nat
      BY DEF Path
    <3>2. CASE i >= j
      BY <1>0, <2>1, <3>1, <3>2
    <3>3. CASE ~(i >= j)
      BY <1>0, <2>1, <3>1, <3>3
    <3> QED
      BY <3>2, <3>3
  <2>3. i \in BottomAt(l, Upto(p, k)) /\ j \in BottomAt(r, Upto(p, k))
    BY <1>3, <2>2, BottomAtPrefix
  <2>4. m[Upto(p, k)].bottom
    BY <1>1, <2>2, <2>3
  <2> QED
    BY <2>2, <2>4 DEF BottomAt
<1> QED
  BY <1>2, <1>3 DEF m

(* Merge joins views at every path, also where neither value has a node.   *)
LEMMA ViewOfMerge ==
  ASSUME NEW l \in NormalValue, NEW r \in NormalValue, NEW p \in Path
  PROVE  View(Merge(l, r), p) = JoinViews(View(l, p), View(r, p))
<1> DEFINE m == Merge(l, r)
           q == Parent(p)
<1>1. /\ m \in NormalValue /\ DOMAIN m = DOMAIN l \cup DOMAIN r
      /\ \A x \in DOMAIN l \cup DOMAIN r : m[x] = JoinViews(View(l, x), View(r, x))
  BY MergeType
<1>9. BottomAt(m, p) # {} <=> BottomAt(l, p) # {} /\ BottomAt(r, p) # {}
  BY BottomOfMerge
<1> SUFFICES View(m, p) = JoinViews(View(l, p), View(r, p))
  OBVIOUS
<1> HIDE DEF m
<1>2. CASE p \in DOMAIN m
  <2>1. View(m, p) = m[p]
    BY <1>1, <1>2, NormalFacts
  <2>2. m[p] = JoinViews(View(l, p), View(r, p))
    BY <1>1, <1>2
  <2> QED
    BY <2>1, <2>2
<1>3. CASE p \notin DOMAIN m
  <2>1. p \notin DOMAIN l /\ p \notin DOMAIN r
    BY <1>1, <1>3
  <2>2. /\ View(l, p).bottom <=> BottomAt(l, p) # {}
        /\ View(r, p).bottom <=> BottomAt(r, p) # {}
    BY ViewType
  <2>3. CASE BottomAt(l, p) # {} /\ BottomAt(r, p) # {}
    BY <1>9, <2>2, <2>3 DEF View, JoinViews
  <2>4. CASE ~(BottomAt(l, p) # {} /\ BottomAt(r, p) # {})
    <3>1. BottomAt(m, p) = {}
      BY <1>9, <2>4
    <3>2. /\ BottomAt(l, p) # {} <=> BottomAt(l, q) # {}
          /\ BottomAt(r, p) # {} <=> BottomAt(r, q) # {}
          /\ q \in Path
      BY <2>1, ViewOutside
    <3>3. /\ Join(UnknownLabel, UnknownLabel) = UnknownLabel
          /\ Join(UnknownLabel, NonCallableLabel) = UnknownLabel
          /\ Join(NonCallableLabel, UnknownLabel) = UnknownLabel
          /\ Join(NonCallableLabel, NonCallableLabel) = NonCallableLabel
      BY LabelFacts DEF Join
    <3>4. CASE q \notin DOMAIN m
      <4>1. View(m, p) = UnknownLabel
        BY <1>1, <1>3, <3>1, <3>4, ViewOutside
      <4>2. /\ BottomAt(l, p) = {} => View(l, p) = UnknownLabel
            /\ BottomAt(r, p) = {} => View(r, p) = UnknownLabel
        BY <1>1, <2>1, <3>4, ViewOutside
      <4> QED
        BY <2>2, <2>4, <3>3, <4>1, <4>2 DEF JoinViews
    <3>5. CASE q \in DOMAIN m
      <4>1. /\ View(m, q).membersComplete => View(m, p) = NonCallableLabel
            /\ ~View(m, q).membersComplete => View(m, p) = UnknownLabel
        BY <1>1, <1>3, <3>1, ViewOutside
      <4>2. View(m, q) = JoinViews(View(l, q), View(r, q))
        <5>1. View(m, q) = m[q]
          BY <1>1, <3>5, NormalFacts
        <5> QED
          BY <1>1, <3>5, <5>1
      <4>3. /\ View(l, q).bottom <=> BottomAt(l, q) # {}
            /\ View(r, q).bottom <=> BottomAt(r, q) # {}
        BY <3>2, ViewType
      <4>4. BottomAt(l, p) = {} =>
              /\ View(l, q).membersComplete => View(l, p) = NonCallableLabel
              /\ ~View(l, q).membersComplete => View(l, p) = UnknownLabel
        BY <2>1, ViewOutside
      <4>5. BottomAt(r, p) = {} =>
              /\ View(r, q).membersComplete => View(r, p) = NonCallableLabel
              /\ ~View(r, q).membersComplete => View(r, p) = UnknownLabel
        BY <2>1, ViewOutside
      <4>6. CASE BottomAt(l, p) # {}
        <5>1. View(m, q) = View(r, q) /\ BottomAt(r, p) = {}
          BY <2>4, <3>2, <4>2, <4>3, <4>6 DEF JoinViews
        <5>2. View(m, p) = View(r, p)
          BY <4>1, <4>5, <5>1
        <5> QED
          BY <2>2, <4>6, <5>2 DEF JoinViews
      <4>7. CASE BottomAt(r, p) # {}
        <5>1. View(m, q) = View(l, q) /\ BottomAt(l, p) = {}
          BY <2>4, <3>2, <4>2, <4>3, <4>7 DEF JoinViews
        <5>2. View(m, p) = View(l, p)
          BY <4>1, <4>4, <5>1
        <5> QED
          BY <2>2, <4>7, <5>1, <5>2 DEF JoinViews
      <4>8. CASE BottomAt(l, p) = {} /\ BottomAt(r, p) = {}
        <5>1. View(m, q) = Join(View(l, q), View(r, q))
          BY <3>2, <4>2, <4>3, <4>8 DEF JoinViews
        <5>2. View(m, q).membersComplete <=> View(l, q).membersComplete /\ View(r, q).membersComplete
          <6>1. View(l, q) \in Label /\ View(r, q) \in Label
            BY <3>2, ViewType DEF ViewLabel
          <6> QED
            BY <5>1, <6>1 DEF Join, Label
        <5>3. JoinViews(View(l, p), View(r, p)) = Join(View(l, p), View(r, p))
          BY <2>2, <4>8 DEF JoinViews
        <5> QED
          BY <3>3, <4>1, <4>4, <4>5, <4>8, <5>2, <5>3
      <4> QED
        BY <4>6, <4>7, <4>8
    <3> QED
      BY <3>4, <3>5
  <2> QED
    BY <2>3, <2>4
<1> QED
  BY <1>2, <1>3

(* What a value has absorbed it keeps, whatever is merged into it later:   *)
(* the worklist need not follow an edge again because another one was      *)
(* followed into the same node.                                            *)
THEOREM MergeKeeps ==
  ASSUME NEW s \in NormalValue, NEW x \in NormalValue, NEW y \in NormalValue, Merge(s, x) = s
  PROVE  Merge(Merge(s, y), x) = Merge(s, y)
<1> DEFINE m == Merge(s, y)
<1>1. m \in NormalValue /\ DOMAIN m = DOMAIN s \cup DOMAIN y
  BY MergeType
<1>2. Merge(m, x) \in NormalValue /\ DOMAIN Merge(m, x) = DOMAIN m
  <2>1. DOMAIN Merge(s, x) = DOMAIN s \cup DOMAIN x
    BY MergeType
  <2>2. DOMAIN x \subseteq DOMAIN s
    BY <2>1
  <2>3. Merge(m, x) \in NormalValue /\ DOMAIN Merge(m, x) = DOMAIN m \cup DOMAIN x
    BY <1>1, MergeType
  <2> QED
    BY <1>1, <2>2, <2>3
<1>3. ASSUME NEW p \in DOMAIN m
      PROVE  Merge(m, x)[p] = m[p]
  <2>1. p \in Path
    BY <1>1, <1>3, NormalFacts
  <2>2. View(s, p) \in ViewLabel /\ View(x, p) \in ViewLabel /\ View(y, p) \in ViewLabel
    BY <2>1, ViewType
  <2>3. JoinViews(View(s, p), View(x, p)) = View(s, p)
    BY <2>1, ViewOfMerge
  <2>4. m[p] = JoinViews(View(s, p), View(y, p))
    BY <1>1, <1>3, MergeType
  <2>5. Merge(m, x)[p] = JoinViews(m[p], View(x, p))
    <3>1. Merge(m, x)[p] = JoinViews(View(m, p), View(x, p))
      BY <1>1, <1>3, MergeType
    <3>2. View(m, p) = m[p]
      BY <1>1, <1>3, NormalFacts
    <3> QED
      BY <3>1, <3>2
  <2>6. JoinViews(JoinViews(View(s, p), View(y, p)), View(x, p))
          = JoinViews(View(s, p), JoinViews(View(y, p), View(x, p)))
    BY <2>2, JoinViewsLaws
  <2>7. JoinViews(View(y, p), View(x, p)) = JoinViews(View(x, p), View(y, p))
    BY <2>2, JoinViewsLaws
  <2>8. JoinViews(View(s, p), JoinViews(View(x, p), View(y, p)))
          = JoinViews(JoinViews(View(s, p), View(x, p)), View(y, p))
    BY <2>2, JoinViewsLaws
  <2> QED
    BY <2>3, <2>4, <2>5, <2>6, <2>7, <2>8
<1> QED
  BY <1>1, <1>2, <1>3, ValueEqual

(* Merging is associative, so a parameter fed by many call sites gets the  *)
(* same value in whatever order and grouping their arguments are merged.   *)
THEOREM MergeAssociates ==
  ASSUME NEW a \in NormalValue, NEW b \in NormalValue, NEW c \in NormalValue
  PROVE  Merge(Merge(a, b), c) = Merge(a, Merge(b, c))
<1> DEFINE left == Merge(Merge(a, b), c)
           right == Merge(a, Merge(b, c))
<1>1. /\ Merge(a, b) \in NormalValue /\ DOMAIN Merge(a, b) = DOMAIN a \cup DOMAIN b
      /\ Merge(b, c) \in NormalValue /\ DOMAIN Merge(b, c) = DOMAIN b \cup DOMAIN c
  BY MergeType
<1>2. /\ left \in NormalValue /\ DOMAIN left = (DOMAIN a \cup DOMAIN b) \cup DOMAIN c
      /\ right \in NormalValue /\ DOMAIN right = DOMAIN a \cup (DOMAIN b \cup DOMAIN c)
  BY <1>1, MergeType
<1>3. ASSUME NEW p \in DOMAIN left
      PROVE  left[p] = right[p]
  <2>1. p \in Path /\ p \in DOMAIN right
    BY <1>2, <1>3, NormalFacts
  <2>2. View(a, p) \in ViewLabel /\ View(b, p) \in ViewLabel /\ View(c, p) \in ViewLabel
    BY <2>1, ViewType
  <2>3. /\ View(Merge(a, b), p) = JoinViews(View(a, p), View(b, p))
        /\ View(Merge(b, c), p) = JoinViews(View(b, p), View(c, p))
    BY <2>1, ViewOfMerge
  <2>4. View(left, p) = JoinViews(JoinViews(View(a, p), View(b, p)), View(c, p))
    BY <1>1, <2>1, <2>3, ViewOfMerge
  <2>5. View(right, p) = JoinViews(View(a, p), JoinViews(View(b, p), View(c, p)))
    BY <1>1, <2>1, <2>3, ViewOfMerge
  <2>6. left[p] = View(left, p) /\ right[p] = View(right, p)
    BY <1>2, <1>3, <2>1, NormalFacts
  <2> QED
    BY <2>2, <2>4, <2>5, <2>6, JoinViewsLaws
<1> QED
  BY <1>2, <1>3, ValueEqual

-----------------------------------------------------------------------------
(* The states of a body whose locals hold normal values satisfy what the   *)
(* worklist asks of MergeStates (MergeAssumption of module Worklist).      *)
THEOREM StatesMergeAsTheWorklistNeeds ==
  ASSUME NEW Local
  PROVE  \A s \in [Local -> NormalValue] :
           /\ MergeStates(s, s) = s
           /\ \A x \in [Local -> NormalValue] :
                /\ MergeStates(s, x) \in [Local -> NormalValue]
                /\ MergeStates(MergeStates(s, x), x) = MergeStates(s, x)
                /\ MergeStates(s, x) = s =>
                     \A y \in [Local -> NormalValue] :
                       MergeStates(MergeStates(s, y), x) = MergeStates(s, y)
<1> DEFINE NormalState == [Local -> NormalValue]
<1>1. ASSUME NEW s \in NormalState, NEW x \in NormalState
      PROVE  /\ MergeStates(s, x) \in NormalState
             /\ \A local \in Local : MergeStates(s, x)[local] = Merge(s[local], x[local])
  BY MergeType DEF MergeStates
<1>2. ASSUME NEW s \in NormalState
      PROVE  MergeStates(s, s) = s
  <2>1. \A local \in Local : MergeStates(s, s)[local] = s[local]
    BY <1>1, MergeIdempotent
  <2> QED
    BY <1>1, <2>1
<1>3. ASSUME NEW s \in NormalState, NEW x \in NormalState
      PROVE  MergeStates(MergeStates(s, x), x) = MergeStates(s, x)
  <2> DEFINE m == MergeStates(s, x)
  <2>1. m \in NormalState /\ MergeStates(m, x) \in NormalState
    BY <1>1
  <2>2. ASSUME NEW local \in Local
        PROVE  MergeStates(m, x)[local] = m[local]
    <3>1. m[local] = Merge(s[local], x[local]) /\ s[local] \in NormalValue /\ x[local] \in NormalValue
      BY <1>1
    <3>2. MergeStates(m, x)[local] = Merge(m[local], x[local])
      BY <1>1, <2>1
    <3> QED
      BY <3>1, <3>2, MergeSettles
  <2> QED
    BY <2>1, <2>2
<1>4. ASSUME NEW s \in NormalState, NEW x \in NormalState, NEW y \in NormalState,
             MergeStates(s, x) = s
      PROVE  MergeStates(MergeStates(s, y), x) = MergeStates(s, y)
  <2> DEFINE m == MergeStates(s, y)
  <2>1. m \in NormalState /\ MergeStates(m, x) \in NormalState
    BY <1>1
  <2>2. ASSUME NEW local \in Local
        PROVE  MergeStates(m, x)[local] = m[local]
    <3>1. /\ s[local] \in NormalValue /\ x[local] \in NormalValue /\ y[local] \in NormalValue
          /\ Merge(s[local], x[local]) = s[local]
      BY <1>1, <1>4
    <3>2. m[local] = Merge(s[local], y[local])
      BY <1>1
    <3>3. MergeStates(m, x)[local] = Merge(m[local], x[local])
      BY <1>1, <2>1
    <3> QED
      BY <3>1, <3>2, <3>3, MergeKeeps
  <2> QED
    BY <2>1, <2>2
<1> QED
  BY <1>1, <1>2, <1>3, <1>4

(* They may be merged in any grouping (StatesAssociate of module           *)
(* Worklist), so what is known at a join is one value for all the edges.   *)
THEOREM StatesMergeInAnyGrouping ==
  ASSUME NEW Local, NEW s \in [Local -> NormalValue], NEW x \in [Local -> NormalValue],
         NEW y \in [Local -> NormalValue]
  PROVE  MergeStates(MergeStates(s, x), y) = MergeStates(s, MergeStates(x, y))
<1>1. ASSUME NEW p \in [Local -> NormalValue], NEW q \in [Local -> NormalValue]
      PROVE  /\ MergeStates(p, q) \in [Local -> NormalValue]
             /\ \A local \in Local : MergeStates(p, q)[local] = Merge(p[local], q[local])
  BY MergeType DEF MergeStates
<1> DEFINE left == MergeStates(MergeStates(s, x), y)
           right == MergeStates(s, MergeStates(x, y))
<1>2. MergeStates(s, x) \in [Local -> NormalValue] /\ MergeStates(x, y) \in [Local -> NormalValue]
  BY <1>1
<1>3. left \in [Local -> NormalValue] /\ right \in [Local -> NormalValue]
  BY <1>1, <1>2
<1>4. ASSUME NEW local \in Local
      PROVE  left[local] = right[local]
  <2>1. left[local] = Merge(Merge(s[local], x[local]), y[local])
    BY <1>1, <1>2
  <2>2. right[local] = Merge(s[local], Merge(x[local], y[local]))
    BY <1>1, <1>2
  <2> QED
    BY <2>1, <2>2, MergeAssociates
<1> QED
  BY <1>3, <1>4

(* A target of a merged value was a target of one of the two, at the same  *)
(* member path.                                                            *)
LEMMA MergeInventsNoTarget ==
  ASSUME NEW l, NEW r, NEW p \in DOMAIN Merge(l, r), NEW f \in Merge(l, r)[p].targets
  PROVE  \/ p \in DOMAIN l /\ f \in l[p].targets
         \/ p \in DOMAIN r /\ f \in r[p].targets
<1>1. \A v : f \in LabelOr(v, p).targets => p \in DOMAIN v /\ f \in v[p].targets
  BY DEF LabelOr, NonCallableLabel, UnknownLabel, PlainLabel
<1>2. \/ Merge(l, r)[p] = LabelOr(r, p)
      \/ Merge(l, r)[p] = LabelOr(l, p)
      \/ Merge(l, r)[p] = Join(LabelOr(l, p), LabelOr(r, p))
  BY DEF Merge
<1>3. CASE Merge(l, r)[p] = Join(LabelOr(l, p), LabelOr(r, p))
  <2>1. f \in LabelOr(l, p).targets \/ f \in LabelOr(r, p).targets
    BY <1>3 DEF Join
  <2> QED
    BY <1>1, <2>1
<1> QED
  BY <1>1, <1>2, <1>3

(* States in which each local denotes only callables that are allowed for  *)
(* it stay so when they are merged: with NothingIsInvented of              *)
(* WorklistProofs, every target that the loop finds for a local was there  *)
(* at first or came with an assignment.                                    *)
Allows(allowed, s) ==
  \A local \in DOMAIN s : \A p \in DOMAIN s[local] : s[local][p].targets \subseteq allowed[local]

THEOREM StatesInventNoTarget ==
  ASSUME NEW Local, NEW s \in [Local -> NormalValue], NEW x \in [Local -> NormalValue],
         NEW allowed, Allows(allowed, s), Allows(allowed, x)
  PROVE  /\ MergeStates(s, x) \in [Local -> NormalValue]
         /\ Allows(allowed, MergeStates(s, x))
<1>1. /\ MergeStates(s, x) \in [Local -> NormalValue]
      /\ \A local \in Local : MergeStates(s, x)[local] = Merge(s[local], x[local])
  BY MergeType DEF MergeStates
<1>2. ASSUME NEW local \in Local, NEW p \in DOMAIN Merge(s[local], x[local]),
             NEW f \in Merge(s[local], x[local])[p].targets
      PROVE  f \in allowed[local]
  <2>1. \/ p \in DOMAIN s[local] /\ f \in s[local][p].targets
        \/ p \in DOMAIN x[local] /\ f \in x[local][p].targets
    BY MergeInventsNoTarget
  <2> QED
    BY <2>1 DEF Allows
<1>3. \A local \in Local : \A p \in DOMAIN MergeStates(s, x)[local] :
        MergeStates(s, x)[local][p].targets \subseteq allowed[local]
  BY <1>1, <1>2
<1> QED
  BY <1>1, <1>3 DEF Allows

-----------------------------------------------------------------------------
(***************************************************************************)
(* Reading and writing members: what Put, Sub, Member, MergeMember and     *)
(* AnyMember of a live value leave, seen through views.                    *)
(***************************************************************************)
(* A path below a member: its length, its prefixes, its parent.            *)
LEMMA UnderFacts ==
  ASSUME NEW k \in Key, NEW q \in Path
  PROVE  /\ <<k>> \o q \in Path /\ Len(<<k>> \o q) = Len(q) + 1
         /\ (<<k>> \o q)[1] = k /\ <<k>> \o q # <<>>
         /\ Drop(<<k>> \o q, 1) = q
         /\ IsPrefix(<<k>>, <<k>> \o q)
         /\ \A i \in 1 .. Len(q) + 1 : Upto(<<k>> \o q, i) = <<k>> \o Upto(q, i - 1)
         /\ Upto(<<k>> \o q, 0) = <<>>
         /\ q # <<>> => Parent(<<k>> \o q) = <<k>> \o Parent(q)
<1> DEFINE p == <<k>> \o q
<1>0. Len(q) \in Nat /\ <<k>> \in Path /\ q \in Seq(Key) /\ <<k>> \in Seq(Key) /\ Len(<<k>>) = 1
  BY DEF Path
<1>1. /\ p \in Path /\ Len(p) = Len(q) + 1 /\ p[1] = k /\ p # <<>>
      /\ \A i \in 1 .. Len(q) : p[i + 1] = q[i]
  BY <1>0, ConcatProperties DEF Path
<1>2. Drop(p, 1) = q
  <2>1. Drop(p, 1) \in Seq(Key) /\ Len(Drop(p, 1)) = Len(q)
    BY <1>0, <1>1 DEF Drop, Path
  <2>2. \A i \in 1 .. Len(q) : Drop(p, 1)[i] = q[i]
    BY <1>0, <1>1 DEF Drop, Path
  <2> QED
    BY <1>0, <2>1, <2>2, SeqEqual
<1>3. IsPrefix(<<k>>, p)
  <2>1. SubSeq(p, 1, 1) \in Seq(Key) /\ Len(SubSeq(p, 1, 1)) = 1 /\ SubSeq(p, 1, 1)[1] = k
    BY <1>0, <1>1, p \in Seq(Key) DEF Path
  <2>2. SubSeq(p, 1, 1) = <<k>>
    <3>1. \A i \in 1 .. 1 : SubSeq(p, 1, 1)[i] = <<k>>[i]
      BY <2>1
    <3> HIDE DEF p
    <3> QED
      BY <1>0, <2>1, <3>1, SeqEqual
  <2>3. SubSeq(<<k>>, 1, 1) = <<k>>
    BY <1>0, SubSeqFull
  <2> QED
    BY <1>0, <1>1, <2>2, <2>3 DEF IsPrefix
<1>4. ASSUME NEW i \in 1 .. Len(q) + 1
      PROVE  Upto(p, i) = <<k>> \o Upto(q, i - 1)
  <2>1. i \in 0 .. Len(p) /\ i - 1 \in 0 .. Len(q)
    BY <1>0, <1>1
  <2>2. /\ Upto(p, i) \in Seq(Key) /\ Len(Upto(p, i)) = i
        /\ Upto(q, i - 1) \in Seq(Key) /\ Len(Upto(q, i - 1)) = i - 1
    BY <1>1, <2>1, PrefixFacts DEF Path
  <2>3. /\ <<k>> \o Upto(q, i - 1) \in Seq(Key) /\ Len(<<k>> \o Upto(q, i - 1)) = i
        /\ (<<k>> \o Upto(q, i - 1))[1] = k
        /\ \A j \in 2 .. i : (<<k>> \o Upto(q, i - 1))[j] = Upto(q, i - 1)[j - 1]
    BY <1>0, <2>2, ConcatProperties
  <2>4. \A j \in 1 .. i : Upto(p, i)[j] = p[j]
    BY <1>0, <1>1, <2>1 DEF Upto, Path
  <2>5. \A j \in 1 .. i - 1 : Upto(q, i - 1)[j] = q[j]
    BY <1>0, <2>1 DEF Upto, Path
  <2>6. \A j \in 1 .. i : Upto(p, i)[j] = (<<k>> \o Upto(q, i - 1))[j]
    BY <1>0, <1>1, <2>1, <2>3, <2>4, <2>5, SMTT(30)
  <2> QED
    BY <2>2, <2>3, <2>6, SeqEqual
<1>5. Upto(p, 0) = <<>>
  BY SubSeqEmpty DEF Upto
<1>6. q # <<>> => Parent(p) = <<k>> \o Parent(q)
  <2>1. SUFFICES ASSUME q # <<>> PROVE Parent(p) = <<k>> \o Parent(q)
    OBVIOUS
  <2>2. Len(q) \in 1 .. Len(q) + 1 /\ Len(p) - 1 = Len(q)
    BY <1>0, <1>1, <2>1, EmptySeq
  <2>3. Upto(p, Len(q)) = <<k>> \o Upto(q, Len(q) - 1)
    BY <1>4, <2>2
  <2> QED
    BY <2>2, <2>3 DEF Parent, Upto
<1> QED
  BY <1>1, <1>2, <1>3, <1>4, <1>5, <1>6

(* Every path but the root goes below its first key.                       *)
LEMMA PathCases ==
  ASSUME NEW p \in Path, p # <<>>
  PROVE  /\ p[1] \in Key /\ Drop(p, 1) \in Path /\ p = <<p[1]>> \o Drop(p, 1)
         /\ Upto(p, 1) = <<p[1]>>
         /\ \A k \in Key : IsPrefix(<<k>>, p) <=> p[1] = k
<1>1. p \in Seq(Key) /\ Len(p) \in Nat /\ Len(p) >= 1
  BY EmptySeq DEF Path
<1>2. p[1] \in Key
  BY <1>1
<1>3. Drop(p, 1) \in Path /\ Len(Drop(p, 1)) = Len(p) - 1
  <2>1. \A i \in 2 .. Len(p) : p[i] \in Key
    BY <1>1
  <2>2. Drop(p, 1) = SubSeq(p, 2, Len(p))
    BY DEF Drop
  <2>3. /\ SubSeq(p, 2, Len(p)) \in Seq(Key)
        /\ Len(SubSeq(p, 2, Len(p))) = IF 2 <= Len(p) THEN Len(p) - 2 + 1 ELSE 0
    <3>1. 2 \in Int /\ Len(p) \in Int
      BY <1>1
    <3> QED
      BY <2>1, <3>1, SubSeqProperties
  <2>4. \A n, m \in Nat : n >= 1 /\ m = (IF 2 <= n THEN n - 2 + 1 ELSE 0) => m = n - 1
    OBVIOUS
  <2>5. Len(SubSeq(p, 2, Len(p))) \in Nat
    BY <2>3
  <2>6. Len(SubSeq(p, 2, Len(p))) = Len(p) - 1
    BY <1>1, <2>3, <2>4, <2>5, Zenon
  <2> QED
    BY <2>2, <2>3, <2>6, Zenon DEF Path
<1>4. p = <<p[1]>> \o Drop(p, 1)
  <2>1. <<p[1]>> \o Drop(p, 1) \in Seq(Key) /\ Len(<<p[1]>> \o Drop(p, 1)) = Len(p)
    BY <1>1, <1>2, <1>3, UnderFacts DEF Path
  <2>2. \A i \in 1 .. Len(p) : (<<p[1]>> \o Drop(p, 1))[i] = p[i]
    BY <1>1, <1>2, <1>3 DEF Drop, Path
  <2> QED
    BY <1>1, <2>1, <2>2, SeqEqual
<1>5. Upto(p, 1) = <<p[1]>>
  <2>1. Upto(p, 1) \in Seq(Key) /\ Len(Upto(p, 1)) = 1 /\ Upto(p, 1)[1] = p[1]
    BY <1>1 DEF Upto
  <2>2. <<p[1]>> \in Seq(Key) /\ Len(<<p[1]>>) = 1
    BY <1>2
  <2> QED
    BY <2>1, <2>2, SeqEqual
<1>6. ASSUME NEW k \in Key
      PROVE  IsPrefix(<<k>>, p) <=> p[1] = k
  <2>1. Len(<<k>>) = 1 /\ SubSeq(<<k>>, 1, 1) = <<k>>
    BY <<k>> \in Seq(Key), SubSeqFull
  <2>2. SubSeq(p, 1, 1) = <<p[1]>>
    BY <1>5 DEF Upto
  <2>3. <<p[1]>> = <<k>> <=> p[1] = k
    OBVIOUS
  <2> QED
    BY <1>1, <2>1, <2>2, <2>3 DEF IsPrefix
<1> QED
  BY <1>2, <1>3, <1>4, <1>5, <1>6

-----------------------------------------------------------------------------
(* The nodes that Put leaves, and their labels.                            *)
LEMMA PutLabels ==
  ASSUME NEW v \in NormalValue, NEW w \in NormalValue, NEW k \in Key
  PROVE  LET u == Put(v, <<k>>, w)
         IN  /\ \A p : p \in DOMAIN u <=>
                  \/ p \in DOMAIN v /\ (p = <<>> \/ p[1] # k)
                  \/ \E q \in DOMAIN w : p = <<k>> \o q
             /\ \A q \in DOMAIN w : u[<<k>> \o q] = w[q]
             /\ \A p \in DOMAIN v : p = <<>> \/ p[1] # k => u[p] = v[p]
             /\ u = [p \in DOMAIN u |-> u[p]]
<1> DEFINE u == Put(v, <<k>>, w)
           kept == {q \in DOMAIN v : ~IsPrefix(<<k>>, q)}
           inner == {Upto(<<k>>, i) : i \in 0 .. (Len(<<k>>) - 1)}
           placed == {<<k>> \o p : p \in DOMAIN w}
<1>1. Len(<<k>>) = 1
  OBVIOUS
<1>2. /\ DOMAIN v \subseteq Path /\ <<>> \in DOMAIN v
      /\ DOMAIN w \subseteq Path /\ <<>> \in DOMAIN w
  BY NormalFacts
<1>3. inner = {<<>>}
  <2>1. Upto(<<k>>, 0) = <<>>
    BY SubSeqEmpty DEF Upto
  <2>2. 0 .. (Len(<<k>>) - 1) = {0}
    BY <1>1
  <2> QED
    BY <2>1, <2>2
<1>4. ASSUME NEW p \in Path
      PROVE  ~IsPrefix(<<k>>, p) <=> p = <<>> \/ p[1] # k
  <2>1. CASE p = <<>>
    BY <1>1, <2>1 DEF IsPrefix
  <2>2. CASE p # <<>>
    BY <2>2, PathCases
  <2> QED
    BY <2>1, <2>2
<1>5. \A p : p \in kept <=> p \in DOMAIN v /\ (p = <<>> \/ p[1] # k)
  BY <1>2, <1>4
<1>6. \A q \in DOMAIN w : Drop(<<k>> \o q, Len(<<k>>)) = q /\ (<<k>> \o q)[1] = k /\ <<k>> \o q # <<>>
  BY <1>1, <1>2, UnderFacts
<1>7. u = [q \in kept \cup inner \cup placed |->
             IF q \in placed THEN w[Drop(q, Len(<<k>>))]
             ELSE IF q \in kept THEN v[q] ELSE UnknownLabel]
  BY DEF Put
<1>8. DOMAIN u = kept \cup placed
  <2>1. <<>> \in kept
    BY <1>2, <1>5
  <2> HIDE DEF u, kept, inner, placed
  <2> QED
    BY <1>3, <1>7, <2>1
<1>9. \A p : p \in DOMAIN u <=>
        \/ p \in DOMAIN v /\ (p = <<>> \/ p[1] # k)
        \/ \E q \in DOMAIN w : p = <<k>> \o q
  BY <1>5, <1>8
<1>10. \A q \in DOMAIN w : u[<<k>> \o q] = w[q]
  <2> HIDE DEF u, kept, inner
  <2> QED
    BY <1>6, <1>7
<1>11. \A p \in DOMAIN v : p = <<>> \/ p[1] # k => u[p] = v[p]
  <2> SUFFICES ASSUME NEW p \in DOMAIN v, p = <<>> \/ p[1] # k
               PROVE  u[p] = v[p]
    OBVIOUS
  <2>1. p \notin placed
    BY <1>6
  <2>2. p \in kept
    BY <1>5
  <2> HIDE DEF u, kept, inner, placed
  <2> QED
    BY <1>7, <2>1, <2>2
<1>12. u = [p \in DOMAIN u |-> u[p]]
  <2> HIDE DEF u, kept, inner, placed
  <2> QED
    BY <1>7
<1> HIDE DEF u
<1> QED
  BY <1>9, <1>10, <1>11, <1>12 DEF u

(* Two values that agree on the way to a path look the same there.         *)
LEMMA ViewAgrees ==
  ASSUME NEW v, NEW u, NEW p \in Path,
         \A i \in 0 .. Len(p) : /\ Upto(p, i) \in DOMAIN u <=> Upto(p, i) \in DOMAIN v
                                /\ Upto(p, i) \in DOMAIN v => u[Upto(p, i)] = v[Upto(p, i)]
  PROVE  BottomAt(u, p) = BottomAt(v, p) /\ View(u, p) = View(v, p)
<1>1. BottomAt(u, p) = BottomAt(v, p)
  BY DEF BottomAt
<1>2. Len(p) \in Nat /\ Upto(p, Len(p)) = p
  BY PrefixFacts DEF Path
<1>3. /\ p \in DOMAIN u <=> p \in DOMAIN v
      /\ p \in DOMAIN v => u[p] = v[p]
  BY <1>2
<1>4. CASE p = <<>>
  <2>1. Parent(p) = <<>>
    BY <1>4, SubSeqEmpty DEF Parent
  <2> QED
    BY <1>1, <1>3, <1>4, <2>1 DEF View, LabelOr
<1>5. CASE p # <<>>
  <2>1. Len(p) - 1 \in 0 .. Len(p) /\ Parent(p) = Upto(p, Len(p) - 1)
    BY <1>2, <1>5, EmptySeq DEF Parent, Upto, Path
  <2>2. /\ Parent(p) \in DOMAIN u <=> Parent(p) \in DOMAIN v
        /\ Parent(p) \in DOMAIN v => u[Parent(p)] = v[Parent(p)]
    BY <2>1
  <2> QED
    BY <1>1, <1>3, <2>2 DEF View, LabelOr
<1> QED
  BY <1>4, <1>5

(* A value whose node k has the labels of w, looked at below k, looks like *)
(* w.                                                                      *)
LEMMA ViewBelow ==
  ASSUME NEW u, NEW w, NEW k \in Key, NEW q \in Path,
         <<>> \in DOMAIN u, <<>> \in DOMAIN w, ~u[<<>>].bottom,
         \A x \in Path : /\ <<k>> \o x \in DOMAIN u <=> x \in DOMAIN w
                         /\ x \in DOMAIN w => u[<<k>> \o x] = w[x]
  PROVE  View(u, <<k>> \o q) = View(w, q)
<1> DEFINE p == <<k>> \o q
<1>0. Len(q) \in Nat
  BY DEF Path
<1>1. /\ p \in Path /\ Len(p) = Len(q) + 1 /\ Len(q) \in Nat /\ Upto(p, 0) = <<>>
      /\ \A i \in 1 .. Len(q) + 1 : Upto(p, i) = <<k>> \o Upto(q, i - 1)
      /\ q # <<>> => Parent(p) = <<k>> \o Parent(q)
  BY <1>0, UnderFacts
<1>2. \A i \in 0 .. Len(q) : Upto(q, i) \in Path
  BY PrefixFacts
<1>3. ASSUME NEW i \in 0 .. Len(q)
      PROVE  i + 1 \in BottomAt(u, p) <=> i \in BottomAt(w, q)
  <2>1. Upto(p, i + 1) = <<k>> \o Upto(q, i)
    <3>1. i + 1 \in 1 .. Len(q) + 1 /\ (i + 1) - 1 = i
      BY <1>1
    <3> HIDE DEF p
    <3> QED
      BY <1>1, <3>1
  <2>2. i + 1 \in 0 .. Len(p)
    BY <1>1
  <2>3. /\ <<k>> \o Upto(q, i) \in DOMAIN u <=> Upto(q, i) \in DOMAIN w
        /\ Upto(q, i) \in DOMAIN w => u[<<k>> \o Upto(q, i)] = w[Upto(q, i)]
    BY <1>2
  <2> HIDE DEF p
  <2> QED
    BY <2>1, <2>2, <2>3 DEF BottomAt
<1>4. 0 \notin BottomAt(u, p)
  BY <1>1 DEF BottomAt
<1>5. BottomAt(u, p) # {} <=> BottomAt(w, q) # {}
  <2>1. BottomAt(u, p) \subseteq 0 .. Len(p) /\ BottomAt(w, q) \subseteq 0 .. Len(q)
    BY DEF BottomAt
  <2>2. ASSUME NEW j \in BottomAt(u, p)
        PROVE  j - 1 \in BottomAt(w, q)
    <3>1. j - 1 \in 0 .. Len(q) /\ (j - 1) + 1 = j
      BY <1>1, <1>4, <2>1
    <3> HIDE DEF p
    <3> QED
      BY <1>3, <3>1
  <2> HIDE DEF p
  <2>3. \A i \in BottomAt(w, q) : i + 1 \in BottomAt(u, p)
    BY <1>3, <2>1
  <2> QED
    BY <2>2, <2>3
<1>6. /\ p \in DOMAIN u <=> q \in DOMAIN w
      /\ q \in DOMAIN w => u[p] = w[q]
  OBVIOUS
<1>7. q = <<>> => View(u, p) = View(w, q)
  <2> HIDE DEF p
  <2> QED
    BY <1>5, <1>6 DEF View, LabelOr
<1>8. q # <<>> => View(u, p) = View(w, q)
  <2> SUFFICES ASSUME q # <<>>
               PROVE  View(u, p) = View(w, q)
    OBVIOUS
  <2>1. Parent(q) \in Path
    BY <1>1, EmptySeq, PrefixFacts DEF Parent, Upto, Path
  <2>2. /\ Parent(p) \in DOMAIN u <=> Parent(q) \in DOMAIN w
        /\ Parent(q) \in DOMAIN w => u[Parent(p)] = w[Parent(q)]
    BY <1>1, <2>1
  <2> HIDE DEF p
  <2> QED
    BY <1>5, <1>6, <2>2 DEF View, LabelOr
<1> QED
  BY <1>7, <1>8

-----------------------------------------------------------------------------
(* The empty prefix.                                                       *)
LEMMA UptoZero == \A p : Upto(p, 0) = <<>>
BY SubSeqEmpty DEF Upto

(* Writing a normal value at a member of a normal value that is not bottom *)
(* gives such a value, which looks as before everywhere else.              *)
LEMMA PutFacts ==
  ASSUME NEW v \in NormalValue, NEW w \in NormalValue, NEW k \in Key, ~IsBottom(v)
  PROVE  LET u == Put(v, <<k>>, w)
         IN  /\ u \in NormalValue /\ u[<<>>] = v[<<>>] /\ <<k>> \in DOMAIN u
             /\ \A q \in Path : View(u, <<k>> \o q) = View(w, q)
             /\ \A p \in Path : p = <<>> \/ p[1] # k =>
                  View(u, p) = View(v, p) /\ (p \in DOMAIN u <=> p \in DOMAIN v)
             /\ \A q \in Path : <<k>> \o q \in DOMAIN u <=> q \in DOMAIN w
<1> DEFINE u == Put(v, <<k>>, w)
<1>1. /\ \A p : p \in DOMAIN u <=>
           \/ p \in DOMAIN v /\ (p = <<>> \/ p[1] # k)
           \/ \E q \in DOMAIN w : p = <<k>> \o q
      /\ \A q \in DOMAIN w : u[<<k>> \o q] = w[q]
      /\ \A p \in DOMAIN v : p = <<>> \/ p[1] # k => u[p] = v[p]
      /\ u = [p \in DOMAIN u |-> u[p]]
  BY PutLabels
<1> HIDE DEF u
<1>2. /\ DOMAIN v \subseteq Path /\ <<>> \in DOMAIN v
      /\ DOMAIN w \subseteq Path /\ <<>> \in DOMAIN w
  BY NormalFacts
<1>3. \A q \in Path : <<k>> \o q \in Path /\ (<<k>> \o q)[1] = k /\ <<k>> \o q # <<>>
  BY UnderFacts
<1>4. \A q \in Path : /\ <<k>> \o q \in DOMAIN u <=> q \in DOMAIN w
                      /\ q \in DOMAIN w => u[<<k>> \o q] = w[q]
  <2> SUFFICES ASSUME NEW q \in Path
               PROVE  <<k>> \o q \in DOMAIN u <=> q \in DOMAIN w
    BY <1>1
  <2>1. \A x \in Path : <<k>> \o q = <<k>> \o x => q = x
    <3> SUFFICES ASSUME NEW x \in Path, <<k>> \o q = <<k>> \o x
                 PROVE  q = x
      OBVIOUS
    <3>1. Drop(<<k>> \o q, 1) = q /\ Drop(<<k>> \o x, 1) = x
      BY UnderFacts
    <3> QED
      BY <3>1
  <2> QED
    BY <1>1, <1>2, <1>3, <2>1
<1>5. u[<<>>] = v[<<>>] /\ <<>> \in DOMAIN u /\ DOMAIN u \subseteq Path
  BY <1>1, <1>2, <1>3, ZenonT(40)
<1>6. ~u[<<>>].bottom
  BY <1>5 DEF IsBottom
<1>7. \A p \in Path : p = <<>> \/ p[1] # k =>
         (p \in DOMAIN u <=> p \in DOMAIN v) /\ (p \in DOMAIN v => u[p] = v[p])
  BY <1>1, <1>2, <1>3
<1>8. ASSUME NEW p \in Path, p = <<>> \/ p[1] # k, NEW i \in 0 .. Len(p)
      PROVE  Upto(p, i) \in Path /\ (Upto(p, i) = <<>> \/ Upto(p, i)[1] # k)
  <2>1. Upto(p, i) \in Path
    BY PrefixFacts
  <2>2. CASE i = 0
    BY <2>1, <2>2, UptoZero
  <2>3. CASE i # 0
    <3>1. p # <<>> /\ p \in Seq(Key) /\ 1 \in 1 .. i
      BY <2>3, EmptySeq DEF Path
    <3>2. Upto(p, i)[1] = p[1]
      BY <3>1 DEF Upto
    <3> QED
      BY <1>8, <2>1, <3>1, <3>2
  <2> QED
    BY <2>2, <2>3
<1>9. ASSUME NEW p \in Path, p = <<>> \/ p[1] # k
      PROVE  BottomAt(u, p) = BottomAt(v, p) /\ View(u, p) = View(v, p)
  <2>1. \A i \in 0 .. Len(p) : /\ Upto(p, i) \in DOMAIN u <=> Upto(p, i) \in DOMAIN v
                               /\ Upto(p, i) \in DOMAIN v => u[Upto(p, i)] = v[Upto(p, i)]
    BY <1>7, <1>8, <1>9
  <2> QED
    BY <2>1, ViewAgrees
<1>10. \A q \in Path : View(u, <<k>> \o q) = View(w, q)
  BY <1>2, <1>4, <1>5, <1>6, ViewBelow
<1>11. IsValue(u)
  <2>1. u \in [DOMAIN u -> Label]
    <3>1. ASSUME NEW p \in DOMAIN u
          PROVE  u[p] \in Label
      <4>1. /\ \A x \in DOMAIN v : v[x] \in Label
            /\ \A x \in DOMAIN w : w[x] \in Label
        BY NormalFacts
      <4>2. CASE p \in DOMAIN v /\ (p = <<>> \/ p[1] # k)
        BY <1>1, <4>1, <4>2
      <4>3. CASE \E q \in DOMAIN w : p = <<k>> \o q
        <5>1. PICK q \in DOMAIN w : p = <<k>> \o q
          BY <4>3
        <5> QED
          BY <1>1, <4>1, <5>1
      <4> QED
        BY <1>1, <4>2, <4>3, Zenon
    <3> QED
      BY <1>1, <3>1
  <2>2. ASSUME NEW p \in DOMAIN u, NEW i \in 0 .. Len(p)
        PROVE  Upto(p, i) \in DOMAIN u
    <3>1. CASE p \in DOMAIN v /\ (p = <<>> \/ p[1] # k)
      <4>1. p \in Path /\ i \in Nat /\ i <= Len(p)
        BY <1>2, <3>1
      <4>2. Upto(p, i) \in DOMAIN v
        BY <3>1, <4>1, NormalFacts
      <4> QED
        BY <1>7, <1>8, <3>1, <4>1, <4>2
    <3>2. CASE \E q \in DOMAIN w : p = <<k>> \o q
      <4>1. PICK q \in DOMAIN w : p = <<k>> \o q
        BY <3>2
      <4>2. q \in Path /\ Len(q) \in Nat /\ Len(p) = Len(q) + 1
        BY <1>2, <4>1, UnderFacts DEF Path
      <4>3. CASE i = 0
        BY <1>5, <4>3, UptoZero
      <4>4. CASE i # 0
        <5>1. i \in 1 .. Len(q) + 1 /\ i - 1 \in Nat /\ i - 1 <= Len(q)
          BY <4>2, <4>4
        <5>2. Upto(p, i) = <<k>> \o Upto(q, i - 1)
          BY <4>1, <4>2, <5>1, UnderFacts
        <5>3. Upto(q, i - 1) \in DOMAIN w
          BY <5>1, NormalFacts
        <5> QED
          BY <1>1, <5>2, <5>3
      <4> QED
        BY <4>3, <4>4
    <3> QED
      BY <1>1, <3>1, <3>2
  <2> QED
    BY <1>5, <2>1, <2>2 DEF IsValue, Path
<1>12. Normal(u)
  <2> SUFFICES ASSUME NEW p \in DOMAIN u, NEW i \in BottomAt(u, p)
               PROVE  i = Len(p) /\ u[p] = BottomLabel
    BY DEF Normal
  <2>1. CASE p \in DOMAIN v /\ (p = <<>> \/ p[1] # k)
    <3>1. i \in BottomAt(v, p)
      BY <1>2, <1>9, <2>1
    <3> QED
      BY <1>1, <2>1, <3>1, NormalFacts
  <2>2. CASE \E q \in DOMAIN w : p = <<k>> \o q
    <3>1. PICK q \in DOMAIN w : p = <<k>> \o q
      BY <2>2
    <3>2. q \in Path /\ Len(q) \in Nat /\ Len(p) = Len(q) + 1
      BY <1>2, <3>1, UnderFacts DEF Path
    <3>3. i \in 0 .. Len(p) /\ Upto(p, i) \in DOMAIN u /\ u[Upto(p, i)].bottom
      BY DEF BottomAt
    <3>4. i # 0
      BY <1>6, <3>3, UptoZero
    <3>5. i \in 1 .. Len(q) + 1 /\ i - 1 \in 0 .. Len(q)
      BY <3>2, <3>3, <3>4
    <3>6. Upto(p, i) = <<k>> \o Upto(q, i - 1) /\ Upto(q, i - 1) \in Path
      BY <3>1, <3>2, <3>5, UnderFacts, PrefixFacts
    <3>7. i - 1 \in BottomAt(w, q)
      BY <1>4, <3>3, <3>5, <3>6 DEF BottomAt
    <3>8. i - 1 = Len(q) /\ w[q] = BottomLabel
      BY <3>7, NormalFacts
    <3> QED
      BY <1>1, <3>1, <3>2, <3>5, <3>8
  <2> QED
    BY <1>1, <2>1, <2>2
<1>13. u \in NormalValue
  <2>1. u \in [DOMAIN u -> Label]
    BY <1>11 DEF IsValue
  <2> QED
    BY <1>5, <1>11, <1>12, <2>1 DEF NormalValue
<1>14. <<k>> \in DOMAIN u
  <2>1. <<k>> \o <<>> = <<k>>
    BY <<k>> \in Seq(Key), ConcatEmptySeq
  <2> QED
    BY <1>1, <1>2, <2>1
<1>15. \A p \in Path : p = <<>> \/ p[1] # k =>
         View(u, p) = View(v, p) /\ (p \in DOMAIN u <=> p \in DOMAIN v)
  BY <1>7, <1>9
<1> QED
  BY <1>4, <1>5, <1>10, <1>13, <1>14, <1>15 DEF u

-----------------------------------------------------------------------------
(* The subtree below a member that is there is a normal value, which looks *)
(* like the value below the member.                                        *)
LEMMA SubFacts ==
  ASSUME NEW v \in NormalValue, NEW k \in Key, ~IsBottom(v), <<k>> \in DOMAIN v
  PROVE  /\ Sub(v, <<k>>) \in NormalValue
         /\ \A q \in Path : View(Sub(v, <<k>>), q) = View(v, <<k>> \o q)
         /\ \A q \in Path : q \in DOMAIN Sub(v, <<k>>) <=> <<k>> \o q \in DOMAIN v
<1> DEFINE s == Sub(v, <<k>>)
           below == {q \in DOMAIN v : IsPrefix(<<k>>, q)}
<1>1. s = [p \in {Drop(q, Len(<<k>>)) : q \in below} |-> v[<<k>> \o p]]
  BY DEF Sub
<1>2. Len(<<k>>) = 1 /\ <<k>> \o <<>> = <<k>> /\ <<>> \in Path
  BY <<k>> \in Seq(Key), ConcatEmptySeq, EmptySeq DEF Path
<1>3. DOMAIN v \subseteq Path /\ <<>> \in DOMAIN v
  BY NormalFacts
<1>4. /\ DOMAIN s \subseteq Path
      /\ \A x \in Path : x \in DOMAIN s <=> <<k>> \o x \in DOMAIN v
  <2>1. ASSUME NEW q \in below
        PROVE  Drop(q, 1) \in Path /\ <<k>> \o Drop(q, 1) = q
    <3>1. q \in Path /\ IsPrefix(<<k>>, q)
      BY <1>3
    <3>2. q # <<>>
      BY <1>2, <3>1 DEF IsPrefix
    <3> QED
      BY <3>1, <3>2, PathCases
  <2>2. ASSUME NEW x \in Path, <<k>> \o x \in DOMAIN v
        PROVE  <<k>> \o x \in below /\ Drop(<<k>> \o x, 1) = x
    BY <2>2, UnderFacts
  <2>3. DOMAIN s = {Drop(q, 1) : q \in below}
    BY <1>1, <1>2
  <2> HIDE DEF s
  <2>4. ASSUME NEW x \in Path, x \in DOMAIN s
        PROVE  <<k>> \o x \in DOMAIN v
    <3>1. PICK q \in below : x = Drop(q, 1)
      BY <2>3, <2>4
    <3> QED
      BY <2>1, <3>1
  <2>5. DOMAIN s \subseteq Path
    BY <2>1, <2>3
  <2>6. ASSUME NEW x \in Path, <<k>> \o x \in DOMAIN v
        PROVE  x \in DOMAIN s
    BY <2>2, <2>3, <2>6
  <2> QED
    BY <2>4, <2>5, <2>6
<1>5. \A x \in DOMAIN s : s[x] = v[<<k>> \o x]
  BY <1>1
<1>6. s = [x \in DOMAIN s |-> s[x]]
  BY <1>1
<1> HIDE DEF s
<1>7. <<>> \in DOMAIN s /\ ~v[<<>>].bottom
  BY <1>2, <1>4 DEF IsBottom
<1>8. ASSUME NEW q \in Path
      PROVE  View(s, q) = View(v, <<k>> \o q)
  BY <1>3, <1>4, <1>5, <1>7, ViewBelow
<1>9. ASSUME NEW x \in DOMAIN s, NEW i \in 0 .. Len(x)
      PROVE  /\ x \in Path /\ Len(x) \in Nat /\ i + 1 \in 0 .. Len(<<k>> \o x)
             /\ Len(<<k>> \o x) = Len(x) + 1
             /\ Upto(<<k>> \o x, i + 1) = <<k>> \o Upto(x, i)
             /\ Upto(x, i) \in DOMAIN s
  <2>1. x \in Path /\ Len(x) \in Nat /\ Upto(x, i) \in Path
    BY <1>4, PrefixFacts DEF Path
  <2>2. Len(<<k>> \o x) = Len(x) + 1
    BY <2>1, UnderFacts
  <2>3. i + 1 \in 1 .. Len(x) + 1 /\ (i + 1) - 1 = i /\ i + 1 \in Nat /\ i + 1 <= Len(x) + 1
    BY <2>1
  <2>4. Upto(<<k>> \o x, i + 1) = <<k>> \o Upto(x, (i + 1) - 1)
    BY <2>1, <2>3, UnderFacts
  <2>5. Upto(<<k>> \o x, i + 1) \in DOMAIN v
    BY <1>4, <2>1, <2>2, <2>3, NormalFacts
  <2>6. Upto(<<k>> \o x, i + 1) = <<k>> \o Upto(x, i)
    BY <2>3, <2>4
  <2>7. i + 1 \in 0 .. Len(<<k>> \o x)
    BY <2>1, <2>2
  <2> QED
    BY <1>4, <2>1, <2>2, <2>5, <2>6, <2>7
<1>10. IsValue(s)
  <2>1. ASSUME NEW x \in DOMAIN s
        PROVE  s[x] \in Label
    BY <1>4, <1>5, NormalFacts
  <2>2. s \in [DOMAIN s -> Label]
    BY <1>6, <2>1
  <2>3. \A x \in DOMAIN s : x \in Seq(Key) /\ \A i \in 0 .. Len(x) : Upto(x, i) \in DOMAIN s
    BY <1>9, <1>4 DEF Path
  <2> QED
    BY <1>7, <2>2, <2>3 DEF IsValue
<1>11. Normal(s)
  <2> SUFFICES ASSUME NEW x \in DOMAIN s, NEW i \in BottomAt(s, x)
               PROVE  i = Len(x) /\ s[x] = BottomLabel
    BY DEF Normal
  <2>1. i \in 0 .. Len(x) /\ s[Upto(x, i)].bottom
    BY DEF BottomAt
  <2>2. i + 1 \in BottomAt(v, <<k>> \o x)
    BY <1>4, <1>5, <1>9, <2>1 DEF BottomAt
  <2>3. <<k>> \o x \in DOMAIN v
    BY <1>4
  <2>4. i + 1 = Len(<<k>> \o x) /\ v[<<k>> \o x] = BottomLabel
    BY <2>2, <2>3, NormalFacts
  <2>5. Len(<<k>> \o x) = Len(x) + 1 /\ Len(x) \in Nat
    BY <1>9, <2>1
  <2> QED
    BY <1>5, <2>1, <2>4, <2>5
<1>12. s \in NormalValue
  <2>1. s \in [DOMAIN s -> Label]
    BY <1>10 DEF IsValue
  <2> QED
    BY <1>4, <1>10, <1>11, <2>1 DEF NormalValue
<1> QED
  BY <1>4, <1>8, <1>12 DEF s

(* The values that are one node.                                           *)
LEMMA LeafFacts ==
  ASSUME NEW label \in ViewLabel
  PROVE  /\ Leaf(label) \in NormalValue /\ DOMAIN Leaf(label) = {<<>>}
         /\ Leaf(label)[<<>>] = label /\ View(Leaf(label), <<>>) = label
         /\ IsFiniteSet(DOMAIN Leaf(label))
<1> DEFINE v == Leaf(label)
<1>1. v = [p \in {<<>>} |-> label]
  BY DEF Leaf
<1>2. DOMAIN v = {<<>>} /\ v[<<>>] = label /\ label \in Label /\ <<>> \in Path /\ Len(<<>>) = 0
  BY <1>1, EmptySeq DEF ViewLabel, Path
<1>3. \A p \in DOMAIN v : \A i \in 0 .. Len(p) : Upto(p, i) \in DOMAIN v /\ i = Len(p)
  BY <1>2, UptoZero
<1>4. v \in [DOMAIN v -> Label]
  BY <1>1, <1>2
<1> HIDE DEF v
<1>5. IsValue(v)
  BY <1>2, <1>3, <1>4 DEF IsValue, Path
<1>6. Normal(v)
  BY <1>2, <1>3, UptoZero DEF Normal, BottomAt, ViewLabel
<1>7. v \in NormalValue
  BY <1>2, <1>4, <1>5, <1>6 DEF NormalValue
<1>8. View(v, <<>>) = label
  BY <1>2, <1>7, NormalFacts
<1>9. IsFiniteSet({<<>>})
  BY FS_Singleton
<1> QED
  BY <1>2, <1>7, <1>8, <1>9 DEF v

-----------------------------------------------------------------------------
(* The values the program can hold have finitely many nodes; a live one is *)
(* not bottom at its root.                                                 *)
FiniteValue == {v \in NormalValue : IsFiniteSet(DOMAIN v)}
LiveValue == {v \in FiniteValue : ~IsBottom(v)}
-----------------------------------------------------------------------------
(* A function with a finite domain has a finite range.                     *)
LEMMA ImageFinite ==
  ASSUME NEW f, IsFiniteSet(DOMAIN f)
  PROVE  IsFiniteSet({f[x] : x \in DOMAIN f})
<1> DEFINE S == DOMAIN f
           T == {f[x] : x \in S}
           g == [x \in S |-> f[x]]
<1>1. g \in Surjection(S, T)
  BY DEF Surjection
<1> QED
  BY <1>1, FS_Surjection

(* The nodes below a member, moved up to the root, are finitely many.      *)
LEMMA FiniteParts ==
  ASSUME NEW v \in FiniteValue, NEW w \in FiniteValue, NEW k \in Key
  PROVE  /\ IsFiniteSet(DOMAIN v \cup DOMAIN w)
         /\ IsFiniteSet({<<k>> \o q : q \in DOMAIN w})
         /\ IsFiniteSet({Drop(q, 1) : q \in DOMAIN v})
<1>1. IsFiniteSet(DOMAIN v) /\ IsFiniteSet(DOMAIN w)
  BY DEF FiniteValue
<1>2. IsFiniteSet(DOMAIN v \cup DOMAIN w)
  BY <1>1, FS_Union
<1>3. IsFiniteSet({<<k>> \o q : q \in DOMAIN w})
  <2> DEFINE f == [q \in DOMAIN w |-> <<k>> \o q]
  <2>1. IsFiniteSet({f[q] : q \in DOMAIN f})
    BY <1>1, ImageFinite
  <2>2. {f[q] : q \in DOMAIN f} = {<<k>> \o q : q \in DOMAIN w}
    OBVIOUS
  <2> QED
    BY <2>1, <2>2
<1>4. IsFiniteSet({Drop(q, 1) : q \in DOMAIN v})
  <2> DEFINE f == [q \in DOMAIN v |-> Drop(q, 1)]
  <2>1. IsFiniteSet({f[q] : q \in DOMAIN f})
    BY <1>1, ImageFinite
  <2>2. {f[q] : q \in DOMAIN f} = {Drop(q, 1) : q \in DOMAIN v}
    OBVIOUS
  <2> QED
    BY <2>1, <2>2
<1> QED
  BY <1>2, <1>3, <1>4

(* What reading and writing values gives is finite, and not bottom when    *)
(* what it starts from is not.                                             *)
LEMMA MergeFinite ==
  ASSUME NEW l \in FiniteValue, NEW r \in FiniteValue
  PROVE  /\ Merge(l, r) \in FiniteValue
         /\ l \in LiveValue \/ r \in LiveValue => Merge(l, r) \in LiveValue
<1>1. l \in NormalValue /\ r \in NormalValue /\ IsFiniteSet(DOMAIN l) /\ IsFiniteSet(DOMAIN r)
  BY DEF FiniteValue
<1>2. /\ Merge(l, r) \in NormalValue /\ DOMAIN Merge(l, r) = DOMAIN l \cup DOMAIN r
      /\ \A p \in DOMAIN l \cup DOMAIN r : Merge(l, r)[p] = JoinViews(View(l, p), View(r, p))
  BY <1>1, MergeType
<1>3. Merge(l, r) \in FiniteValue
  BY <1>1, <1>2, FS_Union DEF FiniteValue
<1>4. /\ <<>> \in DOMAIN l /\ View(l, <<>>) = l[<<>>] /\ l[<<>>] \in ViewLabel
      /\ <<>> \in DOMAIN r /\ View(r, <<>>) = r[<<>>] /\ r[<<>>] \in ViewLabel
  BY <1>1, NormalFacts
<1>5. Merge(l, r)[<<>>].bottom <=> l[<<>>].bottom /\ r[<<>>].bottom
  BY <1>2, <1>4, JoinViewsLaws
<1> QED
  BY <1>3, <1>5 DEF LiveValue, IsBottom

(* Writing a finite value into a finite value leaves it finite.            *)
LEMMA PutFinite ==
  ASSUME NEW v \in LiveValue, NEW w \in FiniteValue, NEW k \in Key
  PROVE  Put(v, <<k>>, w) \in LiveValue
<1> DEFINE u == Put(v, <<k>>, w)
<1>1. v \in NormalValue /\ w \in NormalValue /\ v \in FiniteValue /\ ~IsBottom(v)
  BY DEF LiveValue, FiniteValue
<1>2. u \in NormalValue /\ u[<<>>] = v[<<>>]
  BY <1>1, PutFacts
<1>3. IsFiniteSet(DOMAIN v) /\ IsFiniteSet({<<k>> \o q : q \in DOMAIN w})
  BY <1>1, FiniteParts DEF FiniteValue
<1>4. IsFiniteSet(DOMAIN v \cup {<<k>> \o q : q \in DOMAIN w})
  BY <1>3, FS_Union
<1>5. DOMAIN u \subseteq DOMAIN v \cup {<<k>> \o q : q \in DOMAIN w}
  <2> DEFINE kept == {q \in DOMAIN v : ~IsPrefix(<<k>>, q)}
             inner == {Upto(<<k>>, i) : i \in 0 .. (Len(<<k>>) - 1)}
  <2>1. DOMAIN u = kept \cup inner \cup {<<k>> \o q : q \in DOMAIN w}
    BY DEF Put
  <2>2. inner = {<<>>}
    <3>1. Upto(<<k>>, 0) = <<>> /\ 0 .. (Len(<<k>>) - 1) = {0}
      BY UptoZero
    <3> QED
      BY <3>1
  <2>3. <<>> \in DOMAIN v
    BY <1>1, NormalFacts
  <2> HIDE DEF u, inner
  <2> QED
    BY <2>1, <2>2, <2>3
<1>6. IsFiniteSet(DOMAIN u)
  BY <1>4, <1>5, FS_Subset
<1> QED
  BY <1>1, <1>2, <1>6 DEF LiveValue, FiniteValue, IsBottom

(* The subtree below a member of a finite value is finite.                 *)
LEMMA SubFinite ==
  ASSUME NEW v \in LiveValue, NEW k \in Key, <<k>> \in DOMAIN v
  PROVE  Sub(v, <<k>>) \in FiniteValue
<1>1. v \in NormalValue /\ v \in FiniteValue /\ ~IsBottom(v)
  BY DEF LiveValue, FiniteValue
<1>2. Sub(v, <<k>>) \in NormalValue
  BY <1>1, SubFacts
<1>3. IsFiniteSet({Drop(q, 1) : q \in DOMAIN v})
  BY <1>1, FiniteParts
<1>4. DOMAIN Sub(v, <<k>>) \subseteq {Drop(q, 1) : q \in DOMAIN v}
  <2>1. Len(<<k>>) = 1
    OBVIOUS
  <2> QED
    BY <2>1 DEF Sub
<1> QED
  BY <1>2, <1>3, <1>4, FS_Subset DEF FiniteValue

(* The plain values: what they are and how they look at the root.          *)
LEMMA RootLabels ==
  /\ Unknown \in LiveValue /\ NonCallable \in LiveValue /\ EmptyAggregate \in LiveValue
  /\ Bottom \in FiniteValue
  /\ View(Unknown, <<>>) = UnknownLabel /\ View(NonCallable, <<>>) = NonCallableLabel
  /\ View(EmptyAggregate, <<>>) = AggregateLabel
  /\ \A f \in Target : TargetValue(f) \in LiveValue /\ View(TargetValue(f), <<>>) = TargetLabel(f)
  /\ AggregateLabel \in ViewLabel /\ \A f \in Target : TargetLabel(f) \in ViewLabel
<1>1. AggregateLabel \in ViewLabel /\ \A f \in Target : TargetLabel(f) \in ViewLabel
  BY DEF AggregateLabel, TargetLabel, PlainLabel, ViewLabel, Label
<1>2. UnknownLabel \in ViewLabel /\ NonCallableLabel \in ViewLabel /\ BottomLabel \in ViewLabel
  BY LabelFacts
<1>3. ASSUME NEW label \in ViewLabel
      PROVE  /\ Leaf(label) \in FiniteValue /\ View(Leaf(label), <<>>) = label
             /\ ~label.bottom => Leaf(label) \in LiveValue
  BY <1>3, LeafFacts DEF FiniteValue, LiveValue, IsBottom
<1>4. /\ ~UnknownLabel.bottom /\ ~NonCallableLabel.bottom /\ ~AggregateLabel.bottom
      /\ \A f \in Target : ~TargetLabel(f).bottom
  BY DEF UnknownLabel, NonCallableLabel, AggregateLabel, TargetLabel, PlainLabel
<1> QED
  BY <1>1, <1>2, <1>3, <1>4 DEF Unknown, NonCallable, EmptyAggregate, Bottom, TargetValue

-----------------------------------------------------------------------------
(* What stands in for a missing member looks like the value there.         *)
LEMMA PlaceholderFacts ==
  ASSUME NEW v \in LiveValue, NEW k \in Key, <<k>> \notin DOMAIN v
  PROVE  /\ Placeholder(v) \in LiveValue
         /\ \A q \in Path : View(Placeholder(v), q) = View(v, <<k>> \o q)
         /\ Placeholder(v)[<<>>] = (IF v[<<>>].membersComplete THEN NonCallableLabel ELSE UnknownLabel)
         /\ DOMAIN Placeholder(v) = {<<>>}
<1> DEFINE e == Placeholder(v)
           label == IF v[<<>>].membersComplete THEN NonCallableLabel ELSE UnknownLabel
<1>1. v \in NormalValue /\ ~v[<<>>].bottom /\ <<>> \in DOMAIN v
  BY NormalFacts DEF LiveValue, FiniteValue, IsBottom
<1>2. e = Leaf(label) /\ label \in ViewLabel /\ ~label.bottom /\ ~label.membersComplete
  BY LabelFacts DEF Placeholder, NonCallable, Unknown
<1>3. /\ e \in NormalValue /\ DOMAIN e = {<<>>} /\ e[<<>>] = label /\ View(e, <<>>) = label
      /\ IsFiniteSet(DOMAIN e)
  BY <1>2, LeafFacts
<1>4. e \in LiveValue
  BY <1>2, <1>3 DEF LiveValue, FiniteValue, IsBottom
<1> HIDE DEF e, label
<1>5. ASSUME NEW q \in Path
      PROVE  <<k>> \o q \notin DOMAIN v /\ BottomAt(v, <<k>> \o q) = {}
  <2> DEFINE p == <<k>> \o q
  <2>1. Len(q) \in Nat
    BY DEF Path
  <2>2. p \in Path /\ Len(p) = Len(q) + 1 /\ p[1] = k /\ p # <<>>
    BY UnderFacts
  <2>3. Upto(p, 1) = <<k>>
    BY <2>2, PathCases
  <2>4. ASSUME NEW i \in 1 .. Len(p)
        PROVE  Upto(p, i) \notin DOMAIN v
    <3>1. i \in 0 .. Len(p) /\ 1 \in 0 .. i
      BY <2>1, <2>2
    <3>2. Upto(p, i) \in Path /\ Len(Upto(p, i)) = i /\ Upto(Upto(p, i), 1) = <<k>>
      BY <2>2, <2>3, <3>1, PrefixFacts
    <3> HIDE DEF p
    <3> QED
      BY <1>1, <3>1, <3>2, NormalFacts
  <2>5. Len(p) \in 1 .. Len(p) /\ Len(p) \in 0 .. Len(p)
    BY <2>1, <2>2
  <2>6. p \notin DOMAIN v
    <3>1. Upto(p, Len(p)) = p
      BY <2>2, <2>5, PrefixFacts
    <3> QED
      BY <2>4, <2>5, <3>1
  <2>7. BottomAt(v, p) = {}
    <3> SUFFICES ASSUME NEW i \in BottomAt(v, p)
                 PROVE  FALSE
      OBVIOUS
    <3>1. i \in 0 .. Len(p) /\ Upto(p, i) \in DOMAIN v /\ v[Upto(p, i)].bottom
      BY DEF BottomAt
    <3>2. i # 0
      BY <1>1, <3>1, UptoZero
    <3>3. i \in 1 .. Len(p)
      BY <2>1, <2>2, <3>1, <3>2
    <3> QED
      BY <2>4, <3>1, <3>3
  <2> QED
    BY <2>6, <2>7
<1>6. ASSUME NEW q \in Path
      PROVE  View(e, q) = View(v, <<k>> \o q)
  <2> DEFINE p == <<k>> \o q
  <2>1. p \in Path /\ p \notin DOMAIN v /\ BottomAt(v, p) = {}
    BY <1>5, UnderFacts
  <2>2. CASE q = <<>>
    <3>1. p = <<k>>
      BY <2>2, <<k>> \in Seq(Key), ConcatEmptySeq
    <3>2. Len(p) = 1 /\ Parent(p) = Upto(p, 0)
      BY <3>1 DEF Parent, Upto
    <3>3. Parent(p) = <<>>
      BY <3>2, UptoZero
    <3> HIDE DEF p
    <3>4. View(v, <<>>) = v[<<>>]
      BY <1>1, NormalFacts
    <3>5. View(v, p) = label
      BY <1>1, <2>1, <3>3, <3>4, ViewOutside DEF label
    <3>6. View(e, q) = label
      BY <1>3, <2>2
    <3> QED
      BY <3>5, <3>6 DEF p
  <2>3. CASE q # <<>>
    <3>1. Parent(p) = <<k>> \o Parent(q) /\ Parent(q) \in Path
      <4>1. Len(q) - 1 \in 0 .. Len(q) /\ Parent(q) = Upto(q, Len(q) - 1)
        BY <2>3, EmptySeq DEF Parent, Upto, Path
      <4> QED
        BY <2>3, <4>1, UnderFacts, PrefixFacts
    <3>2. Parent(p) \notin DOMAIN v
      BY <1>5, <3>1
    <3> HIDE DEF p
    <3>3. View(v, p) = UnknownLabel
      BY <1>1, <2>1, <3>2, ViewOutside
    <3>4. q \notin DOMAIN e
      BY <1>3, <2>3
    <3>5. BottomAt(e, q) = {}
      BY <1>2, <1>3 DEF BottomAt
    <3>6. ~View(e, Parent(q)).membersComplete
      <4>1. CASE Parent(q) = <<>>
        BY <1>2, <1>3, <4>1
      <4>2. CASE Parent(q) # <<>>
        <5>1. Parent(q) \notin DOMAIN e /\ BottomAt(e, Parent(q)) = {}
          BY <1>2, <1>3, <4>2 DEF BottomAt
        <5> QED
          BY <1>3, <3>1, <5>1, ViewType, LabelFacts
      <4> QED
        BY <4>1, <4>2
    <3>7. View(e, q) = UnknownLabel
      BY <1>3, <3>4, <3>5, <3>6, ViewOutside
    <3> QED
      BY <3>3, <3>7 DEF p
  <2> QED
    BY <2>2, <2>3
<1> QED
  BY <1>3, <1>4, <1>6 DEF e, label

(* Reading a member joins the member with what is at unknown keys.         *)
LEMMA MemberFacts ==
  ASSUME NEW v \in LiveValue, NEW k \in Key, Dynamic \in Key
  PROVE  /\ Member(v, k) \in FiniteValue
         /\ \A q \in Path : View(Member(v, k), q) =
              IF <<Dynamic>> \in DOMAIN v
              THEN JoinViews(View(v, <<k>> \o q), View(v, <<Dynamic>> \o q))
              ELSE View(v, <<k>> \o q)
<1> DEFINE exact == IF <<k>> \in DOMAIN v THEN Sub(v, <<k>>) ELSE Placeholder(v)
<1>1. v \in NormalValue /\ ~IsBottom(v)
  BY DEF LiveValue, FiniteValue
<1>2. exact \in FiniteValue /\ \A q \in Path : View(exact, q) = View(v, <<k>> \o q)
  <2>1. CASE <<k>> \in DOMAIN v
    BY <1>1, <2>1, SubFacts, SubFinite
  <2>2. CASE <<k>> \notin DOMAIN v
    BY <2>2, PlaceholderFacts DEF LiveValue
  <2> QED
    BY <2>1, <2>2
<1>3. Member(v, k) = IF <<Dynamic>> \in DOMAIN v THEN Merge(exact, Sub(v, <<Dynamic>>)) ELSE exact
  BY <1>1 DEF Member
<1> HIDE DEF exact
<1>4. CASE <<Dynamic>> \in DOMAIN v
  <2> DEFINE d == Sub(v, <<Dynamic>>)
  <2>1. d \in FiniteValue /\ \A q \in Path : View(d, q) = View(v, <<Dynamic>> \o q)
    BY <1>1, <1>4, SubFacts, SubFinite
  <2>2. Member(v, k) = Merge(exact, d)
    BY <1>3, <1>4
  <2> HIDE DEF d
  <2>3. exact \in NormalValue /\ d \in NormalValue
    BY <1>2, <2>1 DEF FiniteValue
  <2>4. \A q \in Path : View(Merge(exact, d), q) = JoinViews(View(exact, q), View(d, q))
    BY <2>3, ViewOfMerge
  <2> QED
    BY <1>2, <1>4, <2>1, <2>2, <2>4, MergeFinite
<1>5. CASE <<Dynamic>> \notin DOMAIN v
  BY <1>2, <1>3, <1>5
<1> QED
  BY <1>4, <1>5

(* Merging into a member joins with what it had, and nothing else changes. *)
LEMMA MergeMemberFacts ==
  ASSUME NEW v \in LiveValue, NEW k \in Key, NEW w \in FiniteValue
  PROVE  LET u == MergeMember(v, k, w)
         IN  /\ u \in LiveValue /\ u[<<>>] = v[<<>>] /\ <<k>> \in DOMAIN u
             /\ \A q \in Path : View(u, <<k>> \o q) =
                  IF <<k>> \in DOMAIN v THEN JoinViews(View(v, <<k>> \o q), View(w, q)) ELSE View(w, q)
             /\ \A p \in Path : p = <<>> \/ p[1] # k =>
                  View(u, p) = View(v, p) /\ (p \in DOMAIN u <=> p \in DOMAIN v)
<1> DEFINE u == MergeMember(v, k, w)
           old == IF <<k>> \in DOMAIN v THEN Sub(v, <<k>>) ELSE Bottom
           new == Merge(old, w)
<1>1. v \in NormalValue /\ ~IsBottom(v) /\ w \in NormalValue
  BY DEF LiveValue, FiniteValue
<1>2. old \in FiniteValue
  BY SubFinite, RootLabels
<1>3. new \in FiniteValue /\ old \in NormalValue /\ new \in NormalValue
  BY <1>2, MergeFinite DEF FiniteValue
<1>4. u = Put(v, <<k>>, new)
  BY DEF MergeMember
<1>5. ASSUME NEW q \in Path
      PROVE  View(new, q) =
               IF <<k>> \in DOMAIN v THEN JoinViews(View(v, <<k>> \o q), View(w, q)) ELSE View(w, q)
  <2>1. View(new, q) = JoinViews(View(old, q), View(w, q))
    BY <1>1, <1>3, ViewOfMerge
  <2>2. CASE <<k>> \in DOMAIN v
    BY <1>1, <2>1, <2>2, SubFacts
  <2>3. CASE <<k>> \notin DOMAIN v
    <3>1. View(Bottom, q) = BottomLabel
      <4>1. 0 \in 0 .. Len(q)
        BY DEF Path
      <4>2. Upto(q, 0) \in DOMAIN Bottom /\ Bottom[Upto(q, 0)].bottom
        BY LabelFacts, LeafFacts, UptoZero DEF Bottom
      <4> QED
        BY <4>1, <4>2 DEF View, BottomAt
    <3> QED
      BY <2>1, <2>3, <3>1, LabelFacts DEF JoinViews
  <2> QED
    BY <2>2, <2>3
<1> HIDE DEF new, u
<1>6. u \in LiveValue
  BY <1>3, <1>4, PutFinite
<1>7. /\ u[<<>>] = v[<<>>] /\ <<k>> \in DOMAIN u
      /\ \A q \in Path : View(u, <<k>> \o q) = View(new, q)
      /\ \A p \in Path : p = <<>> \/ p[1] # k =>
           View(u, p) = View(v, p) /\ (p \in DOMAIN u <=> p \in DOMAIN v)
  <2> DEFINE x == Put(v, <<k>>, new)
  <2>1. /\ x[<<>>] = v[<<>>] /\ <<k>> \in DOMAIN x
        /\ \A q \in Path : View(x, <<k>> \o q) = View(new, q)
        /\ \A p \in Path : p = <<>> \/ p[1] # k =>
             View(x, p) = View(v, p) /\ (p \in DOMAIN x <=> p \in DOMAIN v)
    BY <1>1, <1>3, PutFacts
  <2> QED
    BY <1>4, <2>1
<1> QED
  BY <1>5, <1>6, <1>7 DEF u

-----------------------------------------------------------------------------
(***************************************************************************)
(* Folds over finite sets, and what to prove about them without induction  *)
(* over data: a least counterexample.                                      *)
(***************************************************************************)
(* A choice of an element from every subset, and a function that computes  *)
(* a fold along it.                                                        *)
Picks(pick, S) == \A s \in SUBSET S : s # {} => pick[s] \in s

Folds(h, S, V, base, step, pick) ==
  /\ h[{}] = base
  /\ \A s \in SUBSET S : s # {} /\ h[s \ {pick[s]}] \in V =>
                          h[s] = step[pick[s]][h[s \ {pick[s]}]]
-----------------------------------------------------------------------------
(* A set of naturals that is not empty has a least member.                 *)
LEMMA LeastNatural ==
  ASSUME NEW T \in SUBSET Nat, T # {}
  PROVE  \E n \in T : \A m \in T : n <= m
<1>1. PICK n \in T : \A m \in T : ~ (<<m, n>> \in OpToRel(<, Nat))
  BY WFMin, NatLessThanWellFounded
<1>2. \A m \in T : ~(m < n)
  BY <1>1 DEF OpToRel
<1> QED
  BY <1>2

(* A fold over a finite set, taken from its elements in the order that     *)
(* `pick` gives them, has the value its recursion asks for.                *)
LEMMA FoldExists ==
  ASSUME NEW S, IsFiniteSet(S), NEW V, NEW base \in V, NEW step \in [S -> [V -> V]],
         NEW pick, Picks(pick, S)
  PROVE  \E g \in [SUBSET S -> V] : Folds(g, S, V, base, step, pick)
<1> DEFINE Small(n) == {s \in SUBSET S : Cardinality(s) <= n}
           Computes(g, n) ==
             /\ g \in [Small(n) -> V]
             /\ \A s \in Small(n) : g[s] = IF s = {} THEN base ELSE step[pick[s]][g[s \ {pick[s]}]]
           Bad == {n \in Nat : ~ \E g : Computes(g, n)}
<1>1. \A s \in SUBSET S : IsFiniteSet(s) /\ Cardinality(s) \in Nat
  BY FS_Subset, FS_CardinalityType
<1>2. ASSUME NEW s \in SUBSET S, s # {}
      PROVE  /\ pick[s] \in S /\ s \ {pick[s]} \in SUBSET S
             /\ Cardinality(s) > 0
             /\ Cardinality(s \ {pick[s]}) = Cardinality(s) - 1
  <2>1. pick[s] \in s /\ IsFiniteSet(s) /\ Cardinality(s) \in Nat
    BY <1>1, <1>2 DEF Picks
  <2>2. Cardinality(s \ {pick[s]}) = Cardinality(s) - 1
    BY <2>1, FS_RemoveElement
  <2>3. Cardinality(s) # 0
    BY <1>2, <2>1, FS_EmptySet
  <2> QED
    BY <2>1, <2>2, <2>3
<1>3. 0 \notin Bad
  <2> DEFINE g == [s \in Small(0) |-> base]
  <2>1. ASSUME NEW s \in Small(0)
        PROVE  s = {}
    <3>1. s \in SUBSET S /\ Cardinality(s) <= 0 /\ Cardinality(s) \in Nat /\ IsFiniteSet(s)
      BY <1>1
    <3>2. Cardinality(s) = 0
      BY <3>1
    <3> QED
      BY <3>1, <3>2, FS_EmptySet
  <2>2. Computes(g, 0)
    BY <2>1
  <2> QED
    BY <2>2
<1>4. ASSUME NEW n \in Nat, n \notin Bad
      PROVE  n + 1 \notin Bad
  <2>1. PICK h : Computes(h, n)
    BY <1>4
  <2> DEFINE g == [s \in Small(n + 1) |->
                     IF s \in Small(n) THEN h[s] ELSE step[pick[s]][h[s \ {pick[s]}]]]
  <2>2. \A s \in Small(n) : s \in Small(n + 1)
    BY <1>1
  <2>3. ASSUME NEW s \in Small(n + 1), s # {}
        PROVE  pick[s] \in S /\ s \ {pick[s]} \in Small(n)
    BY <1>1, <1>2, <2>3
  <2>4. {} \in Small(n)
    BY FS_EmptySet
  <2>5. ASSUME NEW s \in Small(n + 1)
        PROVE  g[s] \in V
    <3>1. CASE s \in Small(n)
      BY <2>1, <3>1
    <3>2. CASE s \notin Small(n)
      <4>1. s # {}
        BY <2>4, <3>2
      <4>2. pick[s] \in S /\ h[s \ {pick[s]}] \in V
        BY <2>1, <2>3, <4>1
      <4>3. step[pick[s]][h[s \ {pick[s]}]] \in V
        BY <4>2
      <4> QED
        BY <3>2, <4>3
    <3> QED
      BY <3>1, <3>2
  <2>6. ASSUME NEW s \in Small(n + 1)
        PROVE  g[s] = IF s = {} THEN base ELSE step[pick[s]][g[s \ {pick[s]}]]
    <3>1. CASE s = {}
      BY <2>1, <2>4, <3>1
    <3>2. CASE s # {}
      <4>1. s \ {pick[s]} \in Small(n) /\ s \ {pick[s]} \in Small(n + 1)
        BY <2>2, <2>3, <3>2
      <4>2. g[s \ {pick[s]}] = h[s \ {pick[s]}]
        BY <4>1
      <4>3. g[s] = step[pick[s]][h[s \ {pick[s]}]]
        BY <2>1, <3>2
      <4> QED
        BY <3>2, <4>2, <4>3
    <3> QED
      BY <3>1, <3>2
  <2>7. g \in [Small(n + 1) -> V]
    BY <2>5
  <2> HIDE DEF g
  <2>8. Computes(g, n + 1)
    BY <2>6, <2>7
  <2> QED
    BY <2>8
<1>5. Bad = {}
  <2> SUFFICES ASSUME Bad # {}
               PROVE  FALSE
    OBVIOUS
  <2> HIDE DEF Computes
  <2>1. PICK n \in Bad : \A m \in Bad : n <= m
    <3>1. Bad \in SUBSET Nat
      OBVIOUS
    <3> HIDE DEF Bad
    <3> QED
      BY <3>1, LeastNatural
  <2>2. n \in Nat
    OBVIOUS
  <2> HIDE DEF Bad
  <2>3. n # 0
    BY <1>3, <2>1
  <2>4. n - 1 \in Nat /\ n - 1 \notin Bad
    BY <2>1, <2>2, <2>3
  <2>5. (n - 1) + 1 \notin Bad
    BY <1>4, <2>4
  <2> QED
    BY <2>1, <2>2, <2>5
<1>6. PICK g : Computes(g, Cardinality(S))
  <2>1. Cardinality(S) \in Nat
    BY FS_CardinalityType
  <2> HIDE DEF Computes
  <2> QED
    BY <1>5, <2>1
<1>7. Small(Cardinality(S)) = SUBSET S
  BY FS_Subset
<1> QED
  BY <1>6, <1>7, Zenon DEF Folds

(* A set of subsets of a finite set that is not empty has a member from    *)
(* which no element can be taken.                                          *)
LEMMA MinimalSubset ==
  ASSUME NEW S, IsFiniteSet(S), NEW T \in SUBSET (SUBSET S), T # {}
  PROVE  \E s \in T : \A x \in s : s \ {x} \notin T
<1> DEFINE Sizes == {Cardinality(s) : s \in T}
<1>1. \A s \in T : IsFiniteSet(s) /\ Cardinality(s) \in Nat
  BY FS_Subset, FS_CardinalityType
<1>2. Sizes \in SUBSET Nat /\ Sizes # {}
  BY <1>1
<1>3. PICK n \in Sizes : \A m \in Sizes : n <= m
  <2> HIDE DEF Sizes
  <2> QED
    BY <1>2, LeastNatural
<1>4. PICK s \in T : Cardinality(s) = n
  BY <1>3
<1>5. ASSUME NEW x \in s, s \ {x} \in T
      PROVE  FALSE
  <2>1. Cardinality(s \ {x}) = Cardinality(s) - 1
    BY <1>1, FS_RemoveElement
  <2>2. Cardinality(s) <= Cardinality(s \ {x})
    BY <1>3, <1>4, <1>5
  <2> QED
    BY <1>1, <2>1, <2>2
<1> QED
  BY <1>5

(* Whatever satisfies the recursion of such a fold takes its values in V.  *)
LEMMA FoldTyped ==
  ASSUME NEW S, IsFiniteSet(S), NEW V, NEW base \in V, NEW step \in [S -> [V -> V]],
         NEW pick, Picks(pick, S), NEW h, Folds(h, S, V, base, step, pick)
  PROVE  \A s \in SUBSET S : h[s] \in V
<1> DEFINE Bad == {s \in SUBSET S : h[s] \notin V}
<1> SUFFICES ASSUME Bad # {}
             PROVE  FALSE
  OBVIOUS
<1>1. PICK s \in Bad : \A x \in s : s \ {x} \notin Bad
  <2>1. Bad \in SUBSET (SUBSET S)
    OBVIOUS
  <2> HIDE DEF Bad
  <2> QED
    BY <2>1, MinimalSubset
<1>2. s \in SUBSET S /\ s # {} /\ h[s] \notin V
  BY DEF Folds
<1>3. pick[s] \in S /\ h[s \ {pick[s]}] \in V
  BY <1>1, <1>2 DEF Picks
<1>4. h[s] = step[pick[s]][h[s \ {pick[s]}]]
  BY <1>2, <1>3 DEF Folds
<1>5. step[pick[s]] \in [V -> V]
  BY <1>3
<1>6. step[pick[s]][h[s \ {pick[s]}]] \in V
  BY <1>3, <1>5
<1> QED
  BY <1>2, <1>4, <1>6

-----------------------------------------------------------------------------
(* AnyMember computes a fold of Merge over the members, whatever the order *)
(* in which FoldSet takes them.                                            *)
LEMMA AnyMemberFold ==
  ASSUME NEW v, ~IsBottom(v), IsFiniteSet(MemberKeys(v)), NEW V, Placeholder(v) \in V,
         \A k \in MemberKeys(v), a \in V : Merge(a, Sub(v, <<k>>)) \in V
  PROVE  \E g, pick :
            /\ AnyMember(v) = g[MemberKeys(v)]
            /\ \A s \in SUBSET MemberKeys(v) :
                 /\ s # {} => pick[s] \in s
                 /\ g[s] \in V
                 /\ g[s] = IF s = {} THEN Placeholder(v)
                           ELSE Merge(g[s \ {pick[s]}], Sub(v, <<pick[s]>>))
<1> DEFINE S == MemberKeys(v)
           base == Placeholder(v)
           pick == [s \in SUBSET S |-> CHOOSE x \in s : TRUE]
           step == [k \in S |-> [a \in V |-> Merge(a, Sub(v, <<k>>))]]
           iter == CHOOSE f : f = [s \in SUBSET S |-> IF s = {} THEN Placeholder(v)
             ELSE LET x == CHOOSE x \in s : TRUE IN Merge(f[s \ {x}], Sub(v, <<x>>))]
<1>0. \A s \in SUBSET S : s # {} => (CHOOSE x \in s : TRUE) \in s
  OBVIOUS
<1>1. Picks(pick, S)
  BY <1>0 DEF Picks
<1>2. step \in [S -> [V -> V]] /\ IsFiniteSet(S) /\ base \in V
  OBVIOUS
<1>3. PICK g \in [SUBSET S -> V] : Folds(g, S, V, base, step, pick)
  <2> HIDE DEF S, pick, step, base
  <2> QED
    BY <1>1, <1>2, FoldExists
<1>4. \A s \in SUBSET S : g[s] = IF s = {} THEN Placeholder(v)
                                 ELSE Merge(g[s \ {pick[s]}], Sub(v, <<pick[s]>>))
  <2> SUFFICES ASSUME NEW s \in SUBSET S, s # {}
               PROVE  g[s] = Merge(g[s \ {pick[s]}], Sub(v, <<pick[s]>>))
    BY <1>3 DEF Folds
  <2>1. pick[s] \in S /\ g[s \ {pick[s]}] \in V
    BY <1>1 DEF Picks
  <2>2. step[pick[s]][g[s \ {pick[s]}]] = Merge(g[s \ {pick[s]}], Sub(v, <<pick[s]>>))
    BY <2>1
  <2> QED
    BY <1>3, <2>1, <2>2 DEF Folds
<1>5. g = [s \in SUBSET S |-> IF s = {} THEN Placeholder(v)
             ELSE LET x == CHOOSE x \in s : TRUE IN Merge(g[s \ {x}], Sub(v, <<x>>))]
  BY <1>4
<1>6. AnyMember(v) = iter[S]
  BY DEF AnyMember, FoldSet, MapThenFoldSet
<1>7. iter = [s \in SUBSET S |-> IF s = {} THEN Placeholder(v)
             ELSE LET x == CHOOSE x \in s : TRUE IN Merge(iter[s \ {x}], Sub(v, <<x>>))]
  BY <1>5
<1> HIDE DEF iter
<1>8. \A s \in SUBSET S : iter[s] = IF s = {} THEN Placeholder(v)
                                    ELSE Merge(iter[s \ {pick[s]}], Sub(v, <<pick[s]>>))
  BY <1>7
<1>9. \A s \in SUBSET S : iter[s] \in V
  <2>1. iter[{}] = base
    BY <1>8
  <2>2. ASSUME NEW s \in SUBSET S, s # {}, iter[s \ {pick[s]}] \in V
        PROVE  iter[s] = step[pick[s]][iter[s \ {pick[s]}]]
    <3>1. pick[s] \in S
      BY <1>1, <2>2 DEF Picks
    <3>2. step[pick[s]][iter[s \ {pick[s]}]] = Merge(iter[s \ {pick[s]}], Sub(v, <<pick[s]>>))
      BY <2>2, <3>1
    <3> QED
      BY <1>8, <2>2, <3>2
  <2>3. Folds(iter, S, V, base, step, pick)
    BY <2>1, <2>2 DEF Folds
  <2> HIDE DEF S, pick, step, base
  <2> QED
    BY <1>1, <1>2, <2>3, FoldTyped
<1> HIDE DEF pick
<1> QED
  BY <1>1, <1>6, <1>8, <1>9 DEF Picks

-----------------------------------------------------------------------------
(***************************************************************************)
(* The properties of module ValueAlgebra, which merges an incoming value   *)
(* into the current one for ever.                                          *)
(***************************************************************************)

(* A bottom met on the way to a prefix is met on the way to the path.      *)
LEMMA OnTheWay ==
  ASSUME NEW v, NEW p \in Path, NEW k \in 0 .. Len(p)
  PROVE  /\ UnderBottom(v, Upto(p, k)) => UnderBottom(v, p)
         /\ \A i \in BottomAt(v, Upto(p, k)) : i \in BottomAt(v, p) /\ i \in Nat
         /\ \A i \in BottomAt(v, p) : i \in Nat /\ (i <= k => i \in BottomAt(v, Upto(p, k)))
<1>1. /\ BottomAt(v, Upto(p, k)) = {j \in BottomAt(v, p) : j <= k}
      /\ BottomAt(v, p) \subseteq 0 .. Len(p)
  BY BottomAtPrefix
<1>2. Len(Upto(p, k)) = k /\ Len(p) \in Nat /\ k \in Nat /\ k <= Len(p)
  BY PrefixFacts DEF Path
<1> QED
  BY <1>1, <1>2 DEF UnderBottom

(* Two values merge to a value, whatever their bottoms carry.              *)
LEMMA MergeOfValues ==
  ASSUME NEW l, IsValue(l), NEW r, IsValue(r)
  PROVE  IsValue(Merge(l, r))
<1> DEFINE ofLeft == {p \in DOMAIN l : UnderBottom(l, p) => TakesLeft(l, r, p)}
           ofRight == {p \in DOMAIN r : UnderBottom(r, p) => TakesRight(l, r, p)}
           m == Merge(l, r)
<1>1. ASSUME NEW v, IsValue(v)
      PROVE  /\ DOMAIN v \subseteq Path /\ <<>> \in DOMAIN v
             /\ \A p \in DOMAIN v : v[p] \in Label
             /\ \A p \in DOMAIN v : \A k \in 0 .. Len(p) : Upto(p, k) \in DOMAIN v
  BY <1>1 DEF IsValue, Path
<1>2. DOMAIN m = ofLeft \cup ofRight
  BY DEF Merge
<1>3. DOMAIN m \subseteq Path
  BY <1>1, <1>2
<1>4. <<>> \in DOMAIN m
  <2>1. <<>> \in Path /\ Len(<<>>) = 0
    BY <1>1
  <2>2. BottomAt(l, <<>>) \subseteq 0 .. 0
    BY <2>1 DEF BottomAt
  <2>3. ~UnderBottom(l, <<>>)
    BY <2>1, <2>2 DEF UnderBottom
  <2> QED
    BY <1>1, <1>2, <2>3
<1>5. ASSUME NEW p \in DOMAIN m, NEW k \in 0 .. Len(p)
      PROVE  Upto(p, k) \in DOMAIN m
  <2> DEFINE q == Upto(p, k)
  <2>1. p \in Path /\ Len(p) \in Nat /\ k \in Nat /\ Len(q) = k
    BY <1>3, PrefixFacts DEF Path
  <2>2. CASE p \in ofLeft
    <3>1. q \in DOMAIN l
      BY <1>1, <2>2
    <3>2. ASSUME UnderBottom(l, q)
          PROVE  TakesLeft(l, r, q)
      <4>1. PICK i \in BottomAt(l, q) : i < Len(q)
        BY <3>2 DEF UnderBottom
      <4>2. UnderBottom(l, p)
        BY <2>1, <3>2, OnTheWay
      <4>3. PICK j \in BottomAt(r, p) : \A h \in BottomAt(l, p) : j < h
        BY <2>2, <4>2 DEF TakesLeft
      <4>4. i \in BottomAt(l, p) /\ i \in Nat
        BY <2>1, <4>1, OnTheWay
      <4>5. j < i /\ i < k
        BY <2>1, <4>1, <4>3, <4>4
      <4>6. j \in Nat /\ (j <= k => j \in BottomAt(r, q))
        BY <2>1, <4>3, OnTheWay
      <4>7. j \in BottomAt(r, q)
        BY <2>1, <4>4, <4>5, <4>6
      <4>8. \A h \in BottomAt(l, q) : h \in BottomAt(l, p)
        BY <2>1, OnTheWay
      <4> QED
        BY <4>3, <4>7, <4>8 DEF TakesLeft
    <3> QED
      BY <1>2, <3>1, <3>2
  <2>3. CASE p \in ofRight
    <3>1. q \in DOMAIN r
      BY <1>1, <2>3
    <3>2. ASSUME UnderBottom(r, q)
          PROVE  TakesRight(l, r, q)
      <4>1. PICK i \in BottomAt(r, q) : i < Len(q)
        BY <3>2 DEF UnderBottom
      <4>2. UnderBottom(r, p)
        BY <2>1, <3>2, OnTheWay
      <4>3. PICK j \in BottomAt(l, p) : \A h \in BottomAt(r, p) : j <= h
        BY <2>3, <4>2 DEF TakesRight
      <4>4. i \in BottomAt(r, p) /\ i \in Nat
        BY <2>1, <4>1, OnTheWay
      <4>5. j <= i /\ i < k
        BY <2>1, <4>1, <4>3, <4>4
      <4>6. j \in Nat /\ (j <= k => j \in BottomAt(l, q))
        BY <2>1, <4>3, OnTheWay
      <4>7. j \in BottomAt(l, q)
        BY <2>1, <4>4, <4>5, <4>6
      <4>8. \A h \in BottomAt(r, q) : h \in BottomAt(r, p)
        BY <2>1, OnTheWay
      <4> QED
        BY <4>3, <4>7, <4>8 DEF TakesRight
    <3> QED
      BY <1>2, <3>1, <3>2
  <2> QED
    BY <1>2, <2>2, <2>3
<1>6. m \in [DOMAIN m -> Label]
  <2>1. ASSUME NEW p \in DOMAIN m
        PROVE  m[p] \in Label
    <3>1. LabelOr(l, p) \in Label /\ LabelOr(r, p) \in Label
      BY <1>1, LabelFacts DEF LabelOr, ViewLabel
    <3>2. Join(LabelOr(l, p), LabelOr(r, p)) \in Label
      BY <3>1, JoinType
    <3> QED
      BY <3>1, <3>2 DEF Merge
  <2>2. m = [p \in DOMAIN m |-> m[p]]
    BY DEF Merge
  <2> QED
    BY <2>1, <2>2
<1>7. \A p \in DOMAIN m : p \in Seq(Key)
  BY <1>3 DEF Path
<1> QED
  BY <1>4, <1>5, <1>6, <1>7 DEF IsValue

(* A value without bottoms that carry members is one the laws are about.   *)
LEMMA NormalMeansNormalValue ==
  ASSUME NEW v, IsValue(v), Normal(v)
  PROVE  v \in NormalValue
<1>1. v \in [DOMAIN v -> Label] /\ DOMAIN v \in SUBSET Path
  BY DEF IsValue, Path
<1>2. v \in UNION {[D -> Label] : D \in SUBSET Path}
  BY <1>1
<1> QED
  BY <1>2 DEF NormalValue

(* In every run of merges the two values are values.                       *)
LEMMA ValuesMerge ==
  Merging => [](IsValue(current) /\ IsValue(incoming))
<1>1. TwoValues => IsValue(current) /\ IsValue(incoming)
  BY ValuesAssumption DEF TwoValues
<1>2. IsValue(current) /\ IsValue(incoming) /\ [MergeIncoming]_<<current, incoming>>
        => IsValue(current') /\ IsValue(incoming')
  BY MergeOfValues DEF MergeIncoming
<1>3. IsValue(current) /\ IsValue(incoming) /\ [MergeIncoming]_<<current, incoming>>
        => (IsValue(current) /\ IsValue(incoming))'
  BY <1>2
<1> QED
  BY <1>1, <1>3, PTL DEF Merging

(* What a join of two control flows finds does not depend on which of them *)
(* the worklist delivers first, at any point of any run of merges.         *)
THEOREM OrderNeverMatters ==
  Merging => []OrderIsIrrelevant
<1>1. IsValue(current) /\ IsValue(incoming) => OrderIsIrrelevant
  BY MergeCommutes, NormalMeansNormalValue DEF OrderIsIrrelevant
<1> QED
  BY <1>1, ValuesMerge, PTL

(* Each step leaves a value that has absorbed the incoming one, and that   *)
(* keeps it whatever is merged into it in between: merge_callable_states   *)
(* reports no change when the same value arrives again.                    *)
THEOREM MergeAlwaysAbsorbs ==
  Merging => MergeAbsorbs
<1> DEFINE Typed == IsValue(current) /\ IsValue(incoming)
           Absorbs == Normal(current) /\ Normal(incoming) =>
                        /\ Normal(current')
                        /\ Merge(current', incoming) = current'
                        /\ \A v \in Probes : Normal(v) =>
                             Merge(Merge(current', v), incoming) = Merge(current', v)
<1>1. ASSUME Typed, MergeIncoming
      PROVE  Absorbs
  <2> SUFFICES ASSUME Normal(current), Normal(incoming)
               PROVE  /\ Normal(current')
                      /\ Merge(current', incoming) = current'
                      /\ \A v \in Probes : Normal(v) =>
                           Merge(Merge(current', v), incoming) = Merge(current', v)
    OBVIOUS
  <2>1. current \in NormalValue /\ incoming \in NormalValue
    BY <1>1, NormalMeansNormalValue
  <2>2. current' = Merge(current, incoming)
    BY <1>1 DEF MergeIncoming
  <2>3. current' \in NormalValue
    BY <2>1, <2>2, MergeType
  <2>4. Merge(current', incoming) = current'
    BY <2>1, <2>2, MergeSettles
  <2>5. ASSUME NEW v \in Probes, Normal(v)
        PROVE  Merge(Merge(current', v), incoming) = Merge(current', v)
    <3>1. v \in NormalValue
      BY <2>5, ValuesAssumption, NormalMeansNormalValue
    <3> QED
      BY <2>1, <2>3, <2>4, <3>1, MergeKeeps
  <2>6. Normal(current')
    BY <2>3 DEF NormalValue
  <2> QED
    BY <2>4, <2>5, <2>6
<1>2. Typed /\ [MergeIncoming]_<<current, incoming>> => [Absorbs]_<<current, incoming>>
  BY <1>1
<1> QED
  BY <1>2, ValuesMerge, PTL DEF Merging, MergeAbsorbs
=============================================================================
