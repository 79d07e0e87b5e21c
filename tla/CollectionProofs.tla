-------------------------- MODULE CollectionProofs --------------------------
(***************************************************************************)
(* Machine-checked proofs that what a program reads from a collection is   *)
(* described by what the analysis knows of it, for every number of calls,  *)
(* branches, elements, keys and callables.  The inductive invariant is     *)
(* ContentsAreDescribed of module CollectionMachine: the properties of the *)
(* reads are not inductive, because they do not say under which nodes of   *)
(* the abstract value the elements are.                                    *)
(***************************************************************************)
EXTENDS CollectionMachine, CallableValueProofs

-----------------------------------------------------------------------------
(***************************************************************************)
(* Entries: when a write, a deletion, a merge or a lookup keeps an entry   *)
(* covered.                                                                *)
(***************************************************************************)
(* One key below the root.                                                 *)
LEMMA OneKey ==
  ASSUME NEW k \in Key
  PROVE  /\ <<k>> \in Path /\ <<k>> # <<>> /\ <<k>>[1] = k /\ Len(<<k>>) = 1
         /\ <<k>> \o <<>> = <<k>> /\ <<>> \in Path /\ Len(<<>>) = 0
         /\ Upto(<<k>>, 0) = <<>> /\ Upto(<<k>>, 1) = <<k>> /\ Parent(<<k>>) = <<>>
<1>1. <<k>> \in Seq(Key) /\ <<>> \in Seq(Key) /\ Len(<<k>>) = 1 /\ <<k>>[1] = k
  BY EmptySeq
<1>2. <<k>> \o <<>> = <<k>>
  BY <1>1, ConcatEmptySeq
<1>3. Upto(<<k>>, 0) = <<>> /\ Upto(<<k>>, 1) = <<k>>
  BY <1>1, UptoZero, SubSeqFull DEF Upto
<1>4. Parent(<<k>>) = <<>>
  BY <1>1, <1>3 DEF Parent, Upto
<1> QED
  BY <1>1, <1>2, <1>3, <1>4 DEF Path

(* Beside the root of a value that is not bottom, what stands at a key is  *)
(* what its view shows.                                                    *)
LEMMA EntryView ==
  ASSUME NEW v \in LiveValue, NEW k \in Key
  PROVE  /\ LabelOr(v, <<k>>) = View(v, <<k>>) /\ View(v, <<k>>) \in ViewLabel
         /\ <<k>> \in DOMAIN v => v[<<k>>] = View(v, <<k>>)
         /\ v[<<>>] = View(v, <<>>) /\ v[<<>>] \in ViewLabel /\ <<>> \in DOMAIN v
         /\ v \in NormalValue /\ ~v[<<>>].bottom
         /\ <<k>> \notin DOMAIN v => View(v, <<k>>) =
              IF v[<<>>].membersComplete THEN NonCallableLabel ELSE UnknownLabel
<1>1. v \in NormalValue /\ ~v[<<>>].bottom
  BY DEF LiveValue, FiniteValue, IsBottom
<1>2. v[<<>>] = View(v, <<>>) /\ v[<<>>] \in ViewLabel /\ <<>> \in DOMAIN v
  BY <1>1, NormalFacts
<1>3. <<k>> \in DOMAIN v => v[<<k>>] = View(v, <<k>>)
  BY <1>1, NormalFacts
<1>4. View(v, <<k>>) \in ViewLabel
  BY <1>1, OneKey, ViewType
<1>5. <<k>> \notin DOMAIN v => BottomAt(v, <<k>>) = {}
  <2>1. \A i \in 0 .. Len(<<k>>) : i = 0 \/ i = 1
    BY OneKey
  <2> QED
    BY <1>1, <2>1, OneKey DEF BottomAt
<1>6. LabelOr(v, <<k>>) = View(v, <<k>>)
  <2>1. CASE <<k>> \in DOMAIN v
    BY <1>3, <2>1 DEF LabelOr
  <2>2. CASE <<k>> \notin DOMAIN v
    BY <1>5, <2>2 DEF View
  <2> QED
    BY <2>1, <2>2
<1>7. <<k>> \notin DOMAIN v => View(v, <<k>>) =
        IF v[<<>>].membersComplete THEN NonCallableLabel ELSE UnknownLabel
  BY <1>2, <1>6, OneKey DEF LabelOr
<1> QED
  BY <1>1, <1>2, <1>3, <1>4, <1>6, <1>7

(* A join covers what either side covers.                                  *)
LEMMA JoinCovers ==
  ASSUME NEW a \in ViewLabel, NEW b \in ViewLabel, NEW c
  PROVE  Covers(a, c) \/ Covers(b, c) => Covers(JoinViews(a, b), c)
BY DEF Covers, JoinViews, Join, ViewLabel, Label

(* What the plain labels cover: an unknown label everything, a target      *)
(* label its target.                                                       *)
LEMMA CoversPlain ==
  ASSUME NEW c
  PROVE  /\ Covers(UnknownLabel, c) /\ ~Covers(NonCallableLabel, c)
         /\ \A f \in Target : Covers(TargetLabel(f), f)
<1>1. Covers(UnknownLabel, c) /\ ~Covers(NonCallableLabel, c)
  BY LabelFacts DEF Covers
<1>2. \A f \in Target : Covers(TargetLabel(f), f)
  BY DEF Covers, TargetLabel, PlainLabel
<1> QED
  BY <1>1, <1>2

(* A value whose root covers a callable describes it: a call through the   *)
(* value that is reported complete lists the callable.                     *)
LEMMA CoversDescribes ==
  ASSUME NEW v \in FiniteValue, NEW c, Covers(View(v, <<>>), c)
  PROVE  Describes(v, c)
<1>1. View(v, <<>>) = v[<<>>]
  BY NormalFacts DEF FiniteValue
<1> QED
  BY <1>1 DEF Describes, Covers, ReportsComplete, Targets, IsBottom

(* A lookup covers what is stored under the key, whether the analysis      *)
(* knows the key or not.                                                   *)
LEMMA MemberCovers ==
  ASSUME NEW v \in LiveValue, NEW k \in Key, Dynamic \in Key, NEW c, EntryIsCovered(v, k, c)
  PROVE  Member(v, k) \in FiniteValue /\ Covers(View(Member(v, k), <<>>), c)
<1>1. /\ Member(v, k) \in FiniteValue
      /\ View(Member(v, k), <<>>) =
           IF <<Dynamic>> \in DOMAIN v
           THEN JoinViews(View(v, <<k>> \o <<>>), View(v, <<Dynamic>> \o <<>>))
           ELSE View(v, <<k>> \o <<>>)
  BY MemberFacts, OneKey
<1>2. <<k>> \o <<>> = <<k>> /\ <<Dynamic>> \o <<>> = <<Dynamic>>
  BY OneKey
<1>3. /\ View(v, <<k>>) \in ViewLabel /\ LabelOr(v, <<k>>) = View(v, <<k>>)
      /\ View(v, <<Dynamic>>) \in ViewLabel
      /\ <<Dynamic>> \in DOMAIN v => v[<<Dynamic>>] = View(v, <<Dynamic>>)
  BY EntryView
<1>4. CASE <<Dynamic>> \in DOMAIN v
  BY <1>1, <1>2, <1>3, <1>4, JoinCovers DEF EntryIsCovered
<1>5. CASE <<Dynamic>> \notin DOMAIN v
  BY <1>1, <1>2, <1>3, <1>5 DEF EntryIsCovered
<1> QED
  BY <1>1, <1>4, <1>5

(* The member keys of a finite value are finitely many keys.               *)
LEMMA MemberKeysFacts ==
  ASSUME NEW v \in FiniteValue
  PROVE  /\ IsFiniteSet(MemberKeys(v)) /\ MemberKeys(v) \subseteq Key
         /\ \A k \in Key : k \in MemberKeys(v) <=> <<k>> \in DOMAIN v
<1> DEFINE D == DOMAIN v \ {<<>>}
           f == [p \in D |-> p[1]]
<1>1. v \in NormalValue /\ IsFiniteSet(DOMAIN v)
  BY DEF FiniteValue
<1>2. IsFiniteSet(D)
  BY <1>1, FS_Subset
<1>3. IsFiniteSet(MemberKeys(v))
  <2>1. IsFiniteSet({f[p] : p \in DOMAIN f})
    <3> HIDE DEF D
    <3> QED
      BY <1>2, ImageFinite
  <2>2. {f[p] : p \in DOMAIN f} = {p[1] : p \in D}
    <3> HIDE DEF D
    <3> QED
      OBVIOUS
  <2> QED
    BY <2>1, <2>2 DEF MemberKeys
<1>4. ASSUME NEW p \in D
      PROVE  p[1] \in Key /\ <<p[1]>> \in DOMAIN v
  <2>1. p \in Path /\ p # <<>>
    BY <1>1, NormalFacts
  <2>2. 1 <= Len(p) /\ 1 \in Nat
    BY <2>1, EmptySeq DEF Path
  <2>3. Upto(p, 1) \in DOMAIN v
    BY <1>1, <2>2, NormalFacts
  <2> QED
    BY <2>1, <2>3, PathCases
<1>5. ASSUME NEW k \in Key, <<k>> \in DOMAIN v
      PROVE  k \in MemberKeys(v)
  BY <1>5, OneKey DEF MemberKeys
<1> QED
  BY <1>3, <1>4, <1>5 DEF MemberKeys

(* A lookup at an unknown key covers what is stored under any key.         *)
LEMMA AnyMemberCovers ==
  ASSUME NEW v \in LiveValue, NEW k \in Key, Dynamic \in Key, NEW c, EntryIsCovered(v, k, c)
  PROVE  AnyMember(v) \in FiniteValue /\ Covers(View(AnyMember(v), <<>>), c)
<1> DEFINE S == MemberKeys(v)
           base == Placeholder(v)
           Found(s) == \/ \E x \in s : Covers(View(v, <<x>>), c)
                       \/ ~v[<<>>].membersComplete
<1>1. v \in NormalValue /\ v \in FiniteValue /\ ~IsBottom(v)
  BY DEF LiveValue, FiniteValue
<1>2. IsFiniteSet(S) /\ S \subseteq Key /\ \A x \in Key : x \in S <=> <<x>> \in DOMAIN v
  BY <1>1, MemberKeysFacts
<1>3. base \in FiniteValue /\ (~v[<<>>].membersComplete => Covers(View(base, <<>>), c))
  BY RootLabels, CoversPlain DEF Placeholder, LiveValue
<1>4. ASSUME NEW x \in S
      PROVE  Sub(v, <<x>>) \in FiniteValue /\ View(Sub(v, <<x>>), <<>>) = View(v, <<x>>)
  <2>1. x \in Key /\ <<x>> \in DOMAIN v
    BY <1>2
  <2> QED
    BY <1>1, <2>1, SubFacts, SubFinite, OneKey, ZenonT(40)
<1>5. \A x \in S, a \in FiniteValue : Merge(a, Sub(v, <<x>>)) \in FiniteValue
  BY <1>4, MergeFinite
<1>6. PICK g, pick :
            /\ AnyMember(v) = g[S]
            /\ \A s \in SUBSET S :
                 /\ s # {} => pick[s] \in s
                 /\ g[s] \in FiniteValue
                 /\ g[s] = IF s = {} THEN base ELSE Merge(g[s \ {pick[s]}], Sub(v, <<pick[s]>>))
  BY <1>1, <1>2, <1>3, <1>5, AnyMemberFold
<1> HIDE DEF base
<1>7. ASSUME NEW s \in SUBSET S, s # {}
      PROVE  /\ pick[s] \in s /\ s \ {pick[s]} \in SUBSET S
             /\ g[s \ {pick[s]}] \in FiniteValue
             /\ View(g[s], <<>>) = JoinViews(View(g[s \ {pick[s]}], <<>>), View(v, <<pick[s]>>))
             /\ View(g[s \ {pick[s]}], <<>>) \in ViewLabel /\ View(v, <<pick[s]>>) \in ViewLabel
  <2>1. /\ pick[s] \in S /\ g[s \ {pick[s]}] \in FiniteValue
        /\ g[s] = Merge(g[s \ {pick[s]}], Sub(v, <<pick[s]>>))
    BY <1>6, <1>7
  <2>2. g[s \ {pick[s]}] \in NormalValue /\ Sub(v, <<pick[s]>>) \in NormalValue
    BY <1>4, <2>1 DEF FiniteValue
  <2>3. <<>> \in Path
    BY OneKey
  <2>4. View(g[s], <<>>) = JoinViews(View(g[s \ {pick[s]}], <<>>), View(Sub(v, <<pick[s]>>), <<>>))
    BY <2>1, <2>2, <2>3, ViewOfMerge
  <2>5. View(g[s \ {pick[s]}], <<>>) \in ViewLabel /\ View(Sub(v, <<pick[s]>>), <<>>) \in ViewLabel
    BY <2>2, <2>3, ViewType
  <2>6. View(Sub(v, <<pick[s]>>), <<>>) = View(v, <<pick[s]>>)
    BY <1>4, <2>1
  <2> QED
    BY <1>6, <1>7, <2>1, <2>4, <2>5, <2>6
<1>8. \A s \in SUBSET S : Found(s) => Covers(View(g[s], <<>>), c)
  <2> DEFINE Bad == {s \in SUBSET S : Found(s) /\ ~Covers(View(g[s], <<>>), c)}
  <2> SUFFICES ASSUME Bad # {}
               PROVE  FALSE
    OBVIOUS
  <2>1. PICK s \in Bad : \A x \in s : s \ {x} \notin Bad
    <3>1. Bad \in SUBSET (SUBSET S)
      OBVIOUS
    <3> HIDE DEF Bad, S
    <3> QED
      BY <1>2, <3>1, MinimalSubset
  <2>2. s \in SUBSET S /\ Found(s) /\ ~Covers(View(g[s], <<>>), c)
    OBVIOUS
  <2>3. CASE s = {}
    BY <1>3, <1>6, <2>2, <2>3
  <2>4. CASE s # {}
    <3> DEFINE x == pick[s]
               t == s \ {x}
    <3>1. /\ x \in s /\ t \in SUBSET S
          /\ View(g[s], <<>>) = JoinViews(View(g[t], <<>>), View(v, <<x>>))
          /\ View(g[t], <<>>) \in ViewLabel /\ View(v, <<x>>) \in ViewLabel
      BY <1>7, <2>2, <2>4
    <3>2. Covers(View(v, <<x>>), c) \/ Found(t)
      BY <2>2, <3>1
    <3>3. Found(t) => Covers(View(g[t], <<>>), c)
      BY <2>1, <3>1
    <3> HIDE DEF x, t, Found
    <3> QED
      BY <2>2, <3>1, <3>2, <3>3, JoinCovers
  <2> QED
    BY <2>3, <2>4
<1>9. Found(S)
  <2>1. /\ LabelOr(v, <<k>>) = View(v, <<k>>)
        /\ <<k>> \notin DOMAIN v => View(v, <<k>>) =
              IF v[<<>>].membersComplete THEN NonCallableLabel ELSE UnknownLabel
        /\ <<Dynamic>> \in DOMAIN v => v[<<Dynamic>>] = View(v, <<Dynamic>>)
    BY EntryView
  <2>2. CASE <<Dynamic>> \in DOMAIN v /\ Covers(v[<<Dynamic>>], c)
    BY <1>2, <2>1, <2>2
  <2>3. CASE Covers(LabelOr(v, <<k>>), c)
    <3>1. CASE <<k>> \in DOMAIN v
      BY <1>2, <2>1, <2>3, <3>1
    <3>2. CASE <<k>> \notin DOMAIN v
      BY <2>1, <2>3, <3>2, CoversPlain
    <3> QED
      BY <3>1, <3>2
  <2> QED
    BY <2>2, <2>3 DEF EntryIsCovered
<1> HIDE DEF Found
<1> QED
  BY <1>6, <1>8, <1>9

-----------------------------------------------------------------------------
(* The keys the analysis can write are keys: the slots of arrays, the      *)
(* members of lookup results and of lists, and the constants the program   *)
(* uses. Integer keys are unbounded because a push may be repeated any     *)
(* number of times.                                                        *)
KeysAreKeys ==
  /\ {Dynamic, MapValue, TvmTuple, First, Second} \subseteq Key
  /\ \A n \in Nat : IntKey(n) \in Key
  /\ Keys \subseteq Key \ {Dynamic, NoKey}
-----------------------------------------------------------------------------
(* The keys differ.                                                        *)
LEMMA KeyFacts ==
  /\ \A n : IntKey(n) # Dynamic
  /\ \A n, m : IntKey(n) = IntKey(m) => n = m
  /\ MapValue # Dynamic /\ TvmTuple # Dynamic /\ First # Dynamic /\ Second # Dynamic
  /\ TvmTuple # First /\ TvmTuple # Second /\ First # Second
BY DEF IntKey, Dynamic, MapValue, TvmTuple, First, Second, FieldKey

(* Changing the label of the root, but not whether it knows its members,   *)
(* changes nothing below.                                                  *)
LEMMA RelabelFacts ==
  ASSUME NEW v \in LiveValue, NEW label \in Label, ~label.bottom,
         label.membersComplete = v[<<>>].membersComplete
  PROVE  LET u == [v EXCEPT ![<<>>] = label]
         IN  /\ u \in LiveValue /\ u[<<>>] = label /\ DOMAIN u = DOMAIN v
             /\ \A p \in Path : p # <<>> => View(u, p) = View(v, p)
             /\ \A p \in DOMAIN v : p # <<>> => u[p] = v[p]
<1> DEFINE u == [v EXCEPT ![<<>>] = label]
<1>1. /\ v \in NormalValue /\ ~v[<<>>].bottom /\ <<>> \in DOMAIN v /\ IsFiniteSet(DOMAIN v)
      /\ v \in [DOMAIN v -> Label] /\ DOMAIN v \subseteq Path
  BY NormalFacts DEF LiveValue, FiniteValue, IsBottom
<1>2. /\ DOMAIN u = DOMAIN v /\ u[<<>>] = label
      /\ \A p \in DOMAIN v : p # <<>> => u[p] = v[p]
      /\ u \in [DOMAIN u -> Label]
  BY <1>1
<1> HIDE DEF u
<1>3. ASSUME NEW p \in Path
      PROVE  BottomAt(u, p) = BottomAt(v, p)
  BY <1>1, <1>2 DEF BottomAt
<1>4. ASSUME NEW p \in Path, p # <<>>
      PROVE  View(u, p) = View(v, p)
  <2>1. LabelOr(u, p) = LabelOr(v, p)
    <3>1. CASE Parent(p) = <<>>
      BY <1>1, <1>2, <1>4, <3>1 DEF LabelOr
    <3>2. CASE Parent(p) # <<>>
      BY <1>2, <1>4, <3>2 DEF LabelOr
    <3> QED
      BY <3>1, <3>2
  <2> QED
    BY <1>3, <2>1 DEF View
<1>5. IsValue(u)
  <2>1. IsValue(v)
    BY <1>1 DEF NormalValue
  <2> QED
    BY <1>1, <1>2, <2>1 DEF IsValue
<1>6. Normal(u)
  <2> SUFFICES ASSUME NEW p \in DOMAIN u, NEW i \in BottomAt(u, p)
               PROVE  i = Len(p) /\ u[p] = BottomLabel
    BY DEF Normal
  <2>1. p \in DOMAIN v /\ p \in Path /\ i \in BottomAt(v, p)
    BY <1>1, <1>2, <1>3
  <2>2. i = Len(p) /\ v[p] = BottomLabel
    BY <1>1, <2>1, NormalFacts
  <2>3. p # <<>>
    BY <1>1, <2>2, LabelFacts
  <2> QED
    BY <1>2, <2>1, <2>2, <2>3
<1>7. u \in LiveValue
  BY <1>1, <1>2, <1>5, <1>6 DEF NormalValue, LiveValue, FiniteValue, IsBottom
<1> QED
  BY <1>2, <1>4, <1>7 DEF u

(* Removing a member changes nothing elsewhere.                            *)
LEMMA RemoveFacts ==
  ASSUME NEW v \in LiveValue, NEW k \in Key
  PROVE  LET u == RemoveMember(v, k)
         IN  /\ u \in LiveValue /\ u[<<>>] = v[<<>>]
             /\ \A p \in Path : p = <<>> \/ p[1] # k =>
                  View(u, p) = View(v, p) /\ (p \in DOMAIN u <=> p \in DOMAIN v)
<1> DEFINE u == RemoveMember(v, k)
           kept == {q \in DOMAIN v : ~IsPrefix(<<k>>, q)}
<1>1. /\ v \in NormalValue /\ ~v[<<>>].bottom /\ <<>> \in DOMAIN v /\ IsFiniteSet(DOMAIN v)
      /\ v \in [DOMAIN v -> Label] /\ DOMAIN v \subseteq Path
  BY NormalFacts DEF LiveValue, FiniteValue, IsBottom
<1>2. ASSUME NEW p \in Path
      PROVE  ~IsPrefix(<<k>>, p) <=> p = <<>> \/ p[1] # k
  <2>1. CASE p = <<>>
    BY OneKey, <2>1 DEF IsPrefix
  <2>2. CASE p # <<>>
    BY <2>2, PathCases
  <2> QED
    BY <2>1, <2>2
<1>3. u = [q \in kept |-> v[q]]
  BY DEF RemoveMember
<1>4. /\ \A p : p \in DOMAIN u <=> p \in DOMAIN v /\ (p = <<>> \/ p[1] # k)
      /\ \A p \in DOMAIN u : u[p] = v[p]
      /\ u \in [DOMAIN u -> Label]
      /\ DOMAIN u \subseteq DOMAIN v
  <2>1. \A p : p \in kept <=> p \in DOMAIN v /\ (p = <<>> \/ p[1] # k)
    BY <1>1, <1>2
  <2> HIDE DEF kept, u
  <2>2. DOMAIN u = kept /\ \A p \in kept : u[p] = v[p]
    BY <1>3
  <2>3. \A p \in kept : v[p] \in Label
    BY <1>1, <2>1
  <2> QED
    BY <1>3, <2>1, <2>2, <2>3
<1> HIDE DEF u
<1>5. ASSUME NEW p \in Path, p = <<>> \/ p[1] # k, NEW i \in 0 .. Len(p)
      PROVE  Upto(p, i) \in Path /\ (Upto(p, i) = <<>> \/ Upto(p, i)[1] # k)
  <2>1. Upto(p, i) \in Path
    BY PrefixFacts
  <2>2. CASE i = 0
    BY <2>1, <2>2, UptoZero
  <2>3. CASE i # 0
    <3>1. p # <<>> /\ p \in Seq(Key) /\ 1 \in 1 .. i
      BY <2>3, EmptySeq DEF Path
    <3>2. Upto(p, i)[1] = p[1]
      BY <3>1 DEF Upto
    <3> QED
      BY <1>5, <2>1, <3>1, <3>2
  <2> QED
    BY <2>2, <2>3
<1>6. ASSUME NEW p \in Path, p = <<>> \/ p[1] # k
      PROVE  BottomAt(u, p) = BottomAt(v, p) /\ View(u, p) = View(v, p)
  <2>1. \A i \in 0 .. Len(p) : /\ Upto(p, i) \in DOMAIN u <=> Upto(p, i) \in DOMAIN v
                               /\ Upto(p, i) \in DOMAIN v => u[Upto(p, i)] = v[Upto(p, i)]
    BY <1>4, <1>5, <1>6
  <2> QED
    BY <2>1, ViewAgrees
<1>7. IsValue(u)
  <2>1. ASSUME NEW p \in DOMAIN u, NEW i \in 0 .. Len(p)
        PROVE  Upto(p, i) \in DOMAIN u
    <3>1. p \in DOMAIN v /\ p \in Path /\ (p = <<>> \/ p[1] # k) /\ i \in Nat /\ i <= Len(p)
      BY <1>1, <1>4
    <3>2. Upto(p, i) \in DOMAIN v
      BY <1>1, <3>1, NormalFacts
    <3> QED
      BY <1>4, <1>5, <3>1, <3>2
  <2> QED
    BY <1>1, <1>4, <2>1 DEF IsValue, Path
<1>8. Normal(u)
  <2> SUFFICES ASSUME NEW p \in DOMAIN u, NEW i \in BottomAt(u, p)
               PROVE  i = Len(p) /\ u[p] = BottomLabel
    BY DEF Normal
  <2>1. p \in DOMAIN v /\ p \in Path /\ (p = <<>> \/ p[1] # k)
    BY <1>1, <1>4
  <2>2. i \in BottomAt(v, p)
    BY <1>6, <2>1
  <2> QED
    BY <1>1, <1>4, <2>1, <2>2, NormalFacts
<1>9. IsFiniteSet(DOMAIN u)
  BY <1>1, <1>4, FS_Subset
<1>10. u \in LiveValue /\ u[<<>>] = v[<<>>]
  <2>1. u \in NormalValue
    BY <1>1, <1>4, <1>7, <1>8 DEF NormalValue
  <2> QED
    BY <1>1, <1>4, <1>9, <2>1 DEF LiveValue, FiniteValue, IsBottom
<1>11. \A p \in Path : p = <<>> \/ p[1] # k => (p \in DOMAIN u <=> p \in DOMAIN v)
  BY <1>4
<1> QED
  BY <1>6, <1>10, <1>11 DEF u

(* What was said of one write at a member, for the entries of the root.    *)
LEMMA EntryAfterPut ==
  ASSUME NEW v \in LiveValue, NEW w \in FiniteValue, NEW k \in Key
  PROVE  LET u == Put(v, <<k>>, w)
         IN  /\ u \in LiveValue /\ u[<<>>] = v[<<>>] /\ <<k>> \in DOMAIN u
             /\ View(u, <<k>>) = View(w, <<>>)
             /\ \A j \in Key : j # k =>
                  View(u, <<j>>) = View(v, <<j>>) /\ (<<j>> \in DOMAIN u <=> <<j>> \in DOMAIN v)
<1> DEFINE u == Put(v, <<k>>, w)
<1>1. v \in NormalValue /\ w \in NormalValue /\ ~IsBottom(v)
  BY DEF LiveValue, FiniteValue
<1>2. /\ u[<<>>] = v[<<>>] /\ <<k>> \in DOMAIN u
      /\ \A q \in Path : View(u, <<k>> \o q) = View(w, q)
      /\ \A p \in Path : p = <<>> \/ p[1] # k =>
            View(u, p) = View(v, p) /\ (p \in DOMAIN u <=> p \in DOMAIN v)
  BY <1>1, PutFacts
<1>3. u \in LiveValue
  BY PutFinite
<1> HIDE DEF u
<1>4. View(u, <<k>>) = View(w, <<>>)
  BY <1>2, OneKey
<1>5. ASSUME NEW j \in Key, j # k
      PROVE  View(u, <<j>>) = View(v, <<j>>) /\ (<<j>> \in DOMAIN u <=> <<j>> \in DOMAIN v)
  BY <1>2, <1>5, OneKey
<1> QED
  BY <1>2, <1>3, <1>4, <1>5 DEF u

(* The same for a write that may or may not happen.                        *)
LEMMA EntryAfterMerge ==
  ASSUME NEW v \in LiveValue, NEW w \in FiniteValue, NEW k \in Key
  PROVE  LET u == MergeMember(v, k, w)
         IN  /\ u \in LiveValue /\ u[<<>>] = v[<<>>] /\ <<k>> \in DOMAIN u
             /\ View(u, <<k>>) = IF <<k>> \in DOMAIN v THEN JoinViews(View(v, <<k>>), View(w, <<>>))
                                 ELSE View(w, <<>>)
             /\ \A j \in Key : j # k =>
                  View(u, <<j>>) = View(v, <<j>>) /\ (<<j>> \in DOMAIN u <=> <<j>> \in DOMAIN v)
<1> DEFINE u == MergeMember(v, k, w)
<1>1. /\ u \in LiveValue /\ u[<<>>] = v[<<>>] /\ <<k>> \in DOMAIN u
      /\ \A q \in Path : View(u, <<k>> \o q) =
            IF <<k>> \in DOMAIN v THEN JoinViews(View(v, <<k>> \o q), View(w, q)) ELSE View(w, q)
      /\ \A p \in Path : p = <<>> \/ p[1] # k =>
            View(u, p) = View(v, p) /\ (p \in DOMAIN u <=> p \in DOMAIN v)
  BY MergeMemberFacts
<1> HIDE DEF u
<1>2. View(u, <<k>>) = IF <<k>> \in DOMAIN v THEN JoinViews(View(v, <<k>>), View(w, <<>>))
                       ELSE View(w, <<>>)
  BY <1>1, OneKey
<1>3. ASSUME NEW j \in Key, j # k
      PROVE  View(u, <<j>>) = View(v, <<j>>) /\ (<<j>> \in DOMAIN u <=> <<j>> \in DOMAIN v)
  BY <1>1, <1>3, OneKey
<1> QED
  BY <1>1, <1>2, <1>3 DEF u

-----------------------------------------------------------------------------
(* An entry is covered by how the value looks there, node or not.          *)
LEMMA EntryByView ==
  ASSUME NEW v \in LiveValue, NEW k \in Key, Dynamic \in Key, NEW c
  PROVE  EntryIsCovered(v, k, c) <=>
           \/ Covers(View(v, <<k>>), c)
           \/ <<Dynamic>> \in DOMAIN v /\ Covers(View(v, <<Dynamic>>), c)
<1>1. LabelOr(v, <<k>>) = View(v, <<k>>)
  BY EntryView
<1>2. <<Dynamic>> \in DOMAIN v => v[<<Dynamic>>] = View(v, <<Dynamic>>)
  BY EntryView
<1> QED
  BY <1>1, <1>2 DEF EntryIsCovered

(* A change that leaves the entry of k alone, and what is at unknown keys  *)
(* alone or joined with more, keeps what covers the entry.                 *)
LEMMA EntryKept ==
  ASSUME NEW v \in LiveValue, NEW u \in LiveValue, NEW k \in Key, Dynamic \in Key, NEW c,
         EntryIsCovered(v, k, c),
         Covers(View(v, <<k>>), c) => Covers(View(u, <<k>>), c),
         <<Dynamic>> \in DOMAIN v /\ Covers(View(v, <<Dynamic>>), c) =>
           <<Dynamic>> \in DOMAIN u /\ Covers(View(u, <<Dynamic>>), c)
  PROVE  EntryIsCovered(u, k, c)
BY EntryByView

(* Both branches' entries stay covered where they meet.                    *)
LEMMA MergeCovers ==
  ASSUME NEW l \in LiveValue, NEW r \in LiveValue, Dynamic \in Key
  PROVE  /\ Merge(l, r) \in LiveValue /\ Merge(l, r)[<<>>] = Join(l[<<>>], r[<<>>])
         /\ Merge(l, r) = Merge(r, l)
         /\ \A c : \A k \in Key : EntryIsCovered(l, k, c) => EntryIsCovered(Merge(l, r), k, c)
<1> DEFINE m == Merge(l, r)
<1>1. /\ l \in NormalValue /\ r \in NormalValue /\ l \in FiniteValue /\ r \in FiniteValue
      /\ ~l[<<>>].bottom /\ ~r[<<>>].bottom
  BY DEF LiveValue, FiniteValue, IsBottom
<1>2. /\ m \in LiveValue /\ DOMAIN m = DOMAIN l \cup DOMAIN r
      /\ \A p \in DOMAIN l \cup DOMAIN r : m[p] = JoinViews(View(l, p), View(r, p))
  BY <1>1, MergeType, MergeFinite
<1>3. <<>> \in DOMAIN l /\ View(l, <<>>) = l[<<>>] /\ View(r, <<>>) = r[<<>>]
  BY <1>1, NormalFacts
<1>4. m[<<>>] = Join(l[<<>>], r[<<>>])
  BY <1>1, <1>2, <1>3 DEF JoinViews
<1>5. m = Merge(r, l)
  BY <1>1, MergeCommutes
<1> HIDE DEF m
<1>6. ASSUME NEW k \in Key, NEW c, Covers(View(l, <<k>>), c)
      PROVE  Covers(View(m, <<k>>), c)
  <2>1. View(m, <<k>>) = JoinViews(View(l, <<k>>), View(r, <<k>>))
    BY <1>1, OneKey, ViewOfMerge DEF m
  <2>2. View(l, <<k>>) \in ViewLabel /\ View(r, <<k>>) \in ViewLabel
    BY EntryView
  <2> QED
    BY <1>6, <2>1, <2>2, JoinCovers
<1>7. ASSUME NEW k \in Key, NEW c, EntryIsCovered(l, k, c)
      PROVE  EntryIsCovered(m, k, c)
  BY <1>2, <1>6, <1>7, EntryKept
<1> QED
  BY <1>2, <1>4, <1>5, <1>7 DEF m

(* A write at a key the analysis does not know covers the new entry        *)
(* wherever it landed, and keeps the others covered.                       *)
LEMMA DynamicCovers ==
  ASSUME NEW v \in LiveValue, NEW w \in FiniteValue, Dynamic \in Key,
         NEW c, Covers(View(w, <<>>), c)
  PROVE  LET u == SetDynamicMember(v, w)
         IN  /\ u \in LiveValue /\ u[<<>>] = v[<<>>] /\ <<Dynamic>> \in DOMAIN u
             /\ Covers(View(u, <<Dynamic>>), c)
             /\ \A k \in Key : EntryIsCovered(u, k, c)
             /\ \A d : \A k \in Key \ {Dynamic} : EntryIsCovered(v, k, d) => EntryIsCovered(u, k, d)
<1> DEFINE u == SetDynamicMember(v, w)
<1>1. /\ u \in LiveValue /\ u[<<>>] = v[<<>>] /\ <<Dynamic>> \in DOMAIN u
      /\ View(u, <<Dynamic>>) = IF <<Dynamic>> \in DOMAIN v
                                THEN JoinViews(View(v, <<Dynamic>>), View(w, <<>>)) ELSE View(w, <<>>)
      /\ \A j \in Key : j # Dynamic =>
           View(u, <<j>>) = View(v, <<j>>) /\ (<<j>> \in DOMAIN u <=> <<j>> \in DOMAIN v)
  BY EntryAfterMerge DEF SetDynamicMember
<1> HIDE DEF u
<1>2. View(v, <<Dynamic>>) \in ViewLabel /\ View(w, <<>>) \in ViewLabel
  BY EntryView, NormalFacts DEF FiniteValue
<1>3. Covers(View(u, <<Dynamic>>), c)
  BY <1>1, <1>2, JoinCovers
<1>4. ASSUME NEW k \in Key
      PROVE  EntryIsCovered(u, k, c)
  BY <1>1, <1>3, EntryByView
<1>5. ASSUME NEW k \in Key \ {Dynamic}, NEW d, EntryIsCovered(v, k, d)
      PROVE  EntryIsCovered(u, k, d)
  <2>1. View(u, <<k>>) = View(v, <<k>>)
    BY <1>1
  <2>2. <<Dynamic>> \in DOMAIN v /\ Covers(View(v, <<Dynamic>>), d) => Covers(View(u, <<Dynamic>>), d)
    BY <1>1, <1>2, JoinCovers
  <2> QED
    BY <1>1, <1>5, <2>1, <2>2, EntryKept
<1> QED
  BY <1>1, <1>3, <1>4, <1>5 DEF u

(* A write at a key: the entry written is covered, and so are the others.  *)
LEMMA InsertCovers ==
  ASSUME NEW v \in LiveValue, NEW w \in FiniteValue, Dynamic \in Key,
         NEW c, Covers(View(w, <<>>), c), NEW key, key = NoKey \/ key \in Key \ {Dynamic}
  PROVE  LET u == Insert(v, key, w)
         IN  /\ u \in LiveValue /\ u[<<>>] = v[<<>>]
             /\ \A k \in Key : key \in {k, NoKey} => EntryIsCovered(u, k, c)
             /\ \A d : \A k \in Key \ {Dynamic} :
                  key # k /\ EntryIsCovered(v, k, d) => EntryIsCovered(u, k, d)
<1>1. CASE key = NoKey
  BY <1>1, DynamicCovers DEF Insert
<1>2. CASE key # NoKey
  <2> DEFINE u == Put(v, <<key>>, w)
  <2>0. Insert(v, key, w) = u /\ key \in Key /\ key # Dynamic
    BY <1>2 DEF Insert
  <2>1. /\ u \in LiveValue /\ u[<<>>] = v[<<>>] /\ <<key>> \in DOMAIN u
        /\ View(u, <<key>>) = View(w, <<>>)
        /\ \A j \in Key : j # key =>
             View(u, <<j>>) = View(v, <<j>>) /\ (<<j>> \in DOMAIN u <=> <<j>> \in DOMAIN v)
    BY <2>0, EntryAfterPut
  <2> HIDE DEF u
  <2>2. EntryIsCovered(u, key, c)
    BY <2>0, <2>1, EntryByView
  <2>3. ASSUME NEW k \in Key \ {Dynamic}, NEW d, key # k, EntryIsCovered(v, k, d)
        PROVE  EntryIsCovered(u, k, d)
    BY <2>0, <2>1, <2>3, EntryKept
  <2>4. \A k \in Key : key \in {k, NoKey} => k = key
    BY <1>2
  <2> QED
    BY <2>0, <2>1, <2>2, <2>3, <2>4, Zenon
<1> QED
  BY <1>1, <1>2

(* A conditional write keeps even the entry under its own key, if a        *)
(* missing member stands for no entry.                                     *)
LEMMA OfferCovers ==
  ASSUME NEW v \in LiveValue, NEW w \in FiniteValue, Dynamic \in Key,
         NEW c, Covers(View(w, <<>>), c), NEW key, key = NoKey \/ key \in Key \ {Dynamic}
  PROVE  LET u == MapOffer(v, key, w)
         IN  /\ u \in LiveValue /\ u[<<>>] = v[<<>>]
             /\ \A k \in Key : key \in {k, NoKey} => EntryIsCovered(u, k, c)
             /\ \A d : \A k \in Key \ {Dynamic} :
                  (key # k \/ v[<<>>].membersComplete) /\ EntryIsCovered(v, k, d) =>
                    EntryIsCovered(u, k, d)
<1>1. CASE key = NoKey
  BY <1>1, DynamicCovers DEF MapOffer
<1>2. CASE key # NoKey
  <2> DEFINE u == MergeMember(v, key, w)
  <2>0. MapOffer(v, key, w) = u /\ key \in Key /\ key # Dynamic
    BY <1>2 DEF MapOffer
  <2>1. /\ u \in LiveValue /\ u[<<>>] = v[<<>>] /\ <<key>> \in DOMAIN u
        /\ View(u, <<key>>) = IF <<key>> \in DOMAIN v
                              THEN JoinViews(View(v, <<key>>), View(w, <<>>)) ELSE View(w, <<>>)
        /\ \A j \in Key : j # key =>
             View(u, <<j>>) = View(v, <<j>>) /\ (<<j>> \in DOMAIN u <=> <<j>> \in DOMAIN v)
    BY <2>0, EntryAfterMerge
  <2> HIDE DEF u
  <2>2. /\ View(v, <<key>>) \in ViewLabel /\ View(w, <<>>) \in ViewLabel
        /\ <<key>> \notin DOMAIN v => View(v, <<key>>) =
              IF v[<<>>].membersComplete THEN NonCallableLabel ELSE UnknownLabel
    BY <2>0, EntryView, NormalFacts DEF FiniteValue
  <2>3. Covers(View(u, <<key>>), c)
    BY <2>1, <2>2, JoinCovers
  <2>4. EntryIsCovered(u, key, c)
    BY <2>0, <2>1, <2>3, EntryByView
  <2>5. ASSUME NEW k \in Key \ {Dynamic}, NEW d, key # k, EntryIsCovered(v, k, d)
        PROVE  EntryIsCovered(u, k, d)
    BY <2>0, <2>1, <2>5, EntryKept
  <2>6. ASSUME NEW d, v[<<>>].membersComplete, EntryIsCovered(v, key, d)
        PROVE  EntryIsCovered(u, key, d)
    <3>1. Covers(View(v, <<key>>), d) => Covers(View(u, <<key>>), d)
      <4>1. CASE <<key>> \in DOMAIN v
        BY <2>1, <2>2, <4>1, JoinCovers
      <4>2. CASE <<key>> \notin DOMAIN v
        BY <2>2, <2>6, <4>2, CoversPlain
      <4> QED
        BY <4>1, <4>2
    <3> QED
      BY <2>0, <2>1, <2>6, <3>1, EntryKept
  <2>7. \A k \in Key : key \in {k, NoKey} => k = key
    BY <1>2
  <2>8. \A d : \A k \in Key \ {Dynamic} :
          (key # k \/ v[<<>>].membersComplete) /\ EntryIsCovered(v, k, d) => EntryIsCovered(u, k, d)
    BY <2>5, <2>6, Zenon
  <2>9. \A k \in Key : key \in {k, NoKey} => EntryIsCovered(u, k, c)
    BY <2>4, <2>7, Zenon
  <2> QED
    BY <2>0, <2>1, <2>8, <2>9, Zenon
<1> QED
  BY <1>1, <1>2

(* A deletion takes away the entry it names and no other.                  *)
LEMMA DeleteCovers ==
  ASSUME NEW v \in LiveValue, Dynamic \in Key, NEW key, key = NoKey \/ key \in Key \ {Dynamic}
  PROVE  LET u == MapDelete(v, key)
         IN  /\ u \in LiveValue /\ u[<<>>] = v[<<>>]
             /\ \A d : \A k \in Key \ {Dynamic} :
                  key # k /\ EntryIsCovered(v, k, d) => EntryIsCovered(u, k, d)
<1>1. CASE key = NoKey
  BY <1>1 DEF MapDelete
<1>2. CASE key # NoKey
  <2> DEFINE u == RemoveMember(v, key)
  <2>0. MapDelete(v, key) = u /\ key \in Key /\ key # Dynamic
    BY <1>2 DEF MapDelete
  <2>1. /\ u \in LiveValue /\ u[<<>>] = v[<<>>]
        /\ \A p \in Path : p = <<>> \/ p[1] # key =>
             View(u, p) = View(v, p) /\ (p \in DOMAIN u <=> p \in DOMAIN v)
    BY <2>0, RemoveFacts
  <2> HIDE DEF u
  <2>2. \A j \in Key : j # key =>
          View(u, <<j>>) = View(v, <<j>>) /\ (<<j>> \in DOMAIN u <=> <<j>> \in DOMAIN v)
    BY <2>1, OneKey
  <2>3. ASSUME NEW k \in Key \ {Dynamic}, NEW d, key # k, EntryIsCovered(v, k, d)
        PROVE  EntryIsCovered(u, k, d)
    BY <2>0, <2>1, <2>2, <2>3, EntryKept
  <2> QED
    BY <2>0, <2>1, <2>3, Zenon
<1> QED
  BY <1>1, <1>2

-----------------------------------------------------------------------------
(***************************************************************************)
(* Arrays: the tracked lengths, push, last and pop.                        *)
(***************************************************************************)
(* ArrayLast computes a fold over the tracked lengths.                     *)
FoldsLast(v, V, g, pick) ==
  /\ ArrayLast(v) = g[v[<<>>].lengths \ {0}]
  /\ \A s \in SUBSET (v[<<>>].lengths \ {0}) :
       /\ s # {} => pick[s] \in s
       /\ g[s] \in V
       /\ g[s] = IF s = {} THEN Bottom
                 ELSE Merge(g[s \ {pick[s]}], Member(v, IntKey(pick[s] - 1)))

(* Whatever set of values the merges stay in, the fold of ArrayLast exists *)
(* in it.                                                                  *)
LEMMA ArrayLastFold ==
  ASSUME NEW v, v[<<>>].lengths # {}, IsFiniteSet(v[<<>>].lengths \ {0}),
         NEW V, Bottom \in V,
         \A n \in v[<<>>].lengths \ {0}, a \in V : Merge(a, Member(v, IntKey(n - 1))) \in V
  PROVE  \E g, pick : FoldsLast(v, V, g, pick)
<1> DEFINE S == v[<<>>].lengths \ {0}
           pick == [s \in SUBSET S |-> CHOOSE x \in s : TRUE]
           step == [n \in S |-> [a \in V |-> Merge(a, Member(v, IntKey(n - 1)))]]
           iter == CHOOSE f : f = [s \in SUBSET S |-> IF s = {} THEN Bottom
             ELSE LET x == CHOOSE x \in s : TRUE IN Merge(f[s \ {x}], Member(v, IntKey(x - 1)))]
<1>0. \A s \in SUBSET S : s # {} => (CHOOSE x \in s : TRUE) \in s
  OBVIOUS
<1>10. IsFiniteSet(S)
  OBVIOUS
<1>1. Picks(pick, S)
  BY <1>0 DEF Picks
<1>2. step \in [S -> [V -> V]]
  OBVIOUS
<1>3. PICK g \in [SUBSET S -> V] : Folds(g, S, V, Bottom, step, pick)
  <2> HIDE DEF pick, step
  <2> QED
    BY <1>1, <1>2, FoldExists
<1>4. \A s \in SUBSET S : g[s] = IF s = {} THEN Bottom
                                 ELSE Merge(g[s \ {pick[s]}], Member(v, IntKey(pick[s] - 1)))
  <2> SUFFICES ASSUME NEW s \in SUBSET S, s # {}
               PROVE  g[s] = Merge(g[s \ {pick[s]}], Member(v, IntKey(pick[s] - 1)))
    BY <1>3 DEF Folds
  <2>1. pick[s] \in S /\ g[s \ {pick[s]}] \in V
    BY <1>1 DEF Picks
  <2>2. step[pick[s]][g[s \ {pick[s]}]] = Merge(g[s \ {pick[s]}], Member(v, IntKey(pick[s] - 1)))
    BY <2>1
  <2> QED
    BY <1>3, <2>1, <2>2 DEF Folds
<1>5. g = [s \in SUBSET S |-> IF s = {} THEN Bottom
             ELSE LET x == CHOOSE x \in s : TRUE IN Merge(g[s \ {x}], Member(v, IntKey(x - 1)))]
  BY <1>4
<1>6. ArrayLast(v) = iter[S]
  BY DEF ArrayLast, FoldSet, MapThenFoldSet
<1> HIDE DEF S
<1>7. iter = [s \in SUBSET S |-> IF s = {} THEN Bottom
             ELSE LET x == CHOOSE x \in s : TRUE IN Merge(iter[s \ {x}], Member(v, IntKey(x - 1)))]
  BY <1>5
<1> HIDE DEF iter
<1>8. \A s \in SUBSET S : iter[s] = IF s = {} THEN Bottom
                                    ELSE Merge(iter[s \ {pick[s]}], Member(v, IntKey(pick[s] - 1)))
  BY <1>7
<1>9. \A s \in SUBSET S : iter[s] \in V
  <2>1. iter[{}] = Bottom
    BY <1>8
  <2>2. ASSUME NEW s \in SUBSET S, s # {}, iter[s \ {pick[s]}] \in V
        PROVE  iter[s] = step[pick[s]][iter[s \ {pick[s]}]]
    <3>1. pick[s] \in S
      BY <1>1, <2>2 DEF Picks
    <3>2. step[pick[s]][iter[s \ {pick[s]}]] = Merge(iter[s \ {pick[s]}], Member(v, IntKey(pick[s] - 1)))
      BY <2>2, <3>1
    <3> QED
      BY <1>8, <2>2, <3>2
  <2>3. Folds(iter, S, V, Bottom, step, pick)
    BY <2>1, <2>2 DEF Folds
  <2> HIDE DEF pick, step
  <2> QED
    BY <1>1, <1>2, <1>10, <2>3, FoldTyped
<1> HIDE DEF pick
<1> QED
  <2>1. \A s \in SUBSET S :
          /\ s # {} => pick[s] \in s
          /\ iter[s] \in V
          /\ iter[s] = IF s = {} THEN Bottom
                       ELSE Merge(iter[s \ {pick[s]}], Member(v, IntKey(pick[s] - 1)))
    BY <1>1, <1>8, <1>9 DEF Picks
  <2>2. ArrayLast(v) = iter[S]
    BY <1>6
  <2>3. /\ ArrayLast(v) = iter[v[<<>>].lengths \ {0}]
        /\ \A s \in SUBSET (v[<<>>].lengths \ {0}) :
             /\ s # {} => pick[s] \in s
             /\ iter[s] \in V
             /\ iter[s] = IF s = {} THEN Bottom
                          ELSE Merge(iter[s \ {pick[s]}], Member(v, IntKey(pick[s] - 1)))
    BY <2>1, <2>2 DEF S
  <2>4. FoldsLast(v, V, iter, pick)
    BY <2>3 DEF FoldsLast
  <2> QED
    BY <2>4

(* The value of a push put into the slots of S, and the fold that does it. *)
PushedAt(v, w, S) == FoldSet(LAMBDA n, array : MergeMember(array, IntKey(n), w), v, S)

FoldsPush(v, w, S, V, g, pick) ==
  /\ PushedAt(v, w, S) = g[S]
  /\ \A s \in SUBSET S :
       /\ s # {} => pick[s] \in s
       /\ g[s] \in V
       /\ g[s] = IF s = {} THEN v
                 ELSE MergeMember(g[s \ {pick[s]}], IntKey(pick[s]), w)

(* Whatever set of values the writes stay in, the fold of a push exists in *)
(* it.                                                                     *)
LEMMA PushFold ==
  ASSUME NEW v, NEW w, NEW S, IsFiniteSet(S), NEW V, v \in V,
         \A n \in S, a \in V : MergeMember(a, IntKey(n), w) \in V
  PROVE  \E g, pick : FoldsPush(v, w, S, V, g, pick)
<1> DEFINE pick == [s \in SUBSET S |-> CHOOSE x \in s : TRUE]
           step == [n \in S |-> [a \in V |-> MergeMember(a, IntKey(n), w)]]
           iter == CHOOSE f : f = [s \in SUBSET S |-> IF s = {} THEN v
             ELSE LET x == CHOOSE x \in s : TRUE IN MergeMember(f[s \ {x}], IntKey(x), w)]
<1>0. \A s \in SUBSET S : s # {} => (CHOOSE x \in s : TRUE) \in s
  OBVIOUS
<1>1. Picks(pick, S)
  BY <1>0 DEF Picks
<1>2. step \in [S -> [V -> V]]
  OBVIOUS
<1>3. PICK g \in [SUBSET S -> V] : Folds(g, S, V, v, step, pick)
  <2> HIDE DEF pick, step
  <2> QED
    BY <1>1, <1>2, FoldExists
<1>4. \A s \in SUBSET S : g[s] = IF s = {} THEN v
                                 ELSE MergeMember(g[s \ {pick[s]}], IntKey(pick[s]), w)
  <2> SUFFICES ASSUME NEW s \in SUBSET S, s # {}
               PROVE  g[s] = MergeMember(g[s \ {pick[s]}], IntKey(pick[s]), w)
    BY <1>3 DEF Folds
  <2>1. pick[s] \in S /\ g[s \ {pick[s]}] \in V
    BY <1>1 DEF Picks
  <2>2. step[pick[s]][g[s \ {pick[s]}]] = MergeMember(g[s \ {pick[s]}], IntKey(pick[s]), w)
    BY <2>1
  <2> QED
    BY <1>3, <2>1, <2>2 DEF Folds
<1>5. g = [s \in SUBSET S |-> IF s = {} THEN v
             ELSE LET x == CHOOSE x \in s : TRUE IN MergeMember(g[s \ {x}], IntKey(x), w)]
  BY <1>4
<1>6. PushedAt(v, w, S) = iter[S]
  BY DEF PushedAt, FoldSet, MapThenFoldSet
<1>7. iter = [s \in SUBSET S |-> IF s = {} THEN v
             ELSE LET x == CHOOSE x \in s : TRUE IN MergeMember(iter[s \ {x}], IntKey(x), w)]
  BY <1>5
<1> HIDE DEF iter
<1>8. \A s \in SUBSET S : iter[s] = IF s = {} THEN v
                                    ELSE MergeMember(iter[s \ {pick[s]}], IntKey(pick[s]), w)
  BY <1>7
<1>9. \A s \in SUBSET S : iter[s] \in V
  <2>1. iter[{}] = v
    BY <1>8
  <2>2. ASSUME NEW s \in SUBSET S, s # {}, iter[s \ {pick[s]}] \in V
        PROVE  iter[s] = step[pick[s]][iter[s \ {pick[s]}]]
    <3>1. pick[s] \in S
      BY <1>1, <2>2 DEF Picks
    <3>2. step[pick[s]][iter[s \ {pick[s]}]] = MergeMember(iter[s \ {pick[s]}], IntKey(pick[s]), w)
      BY <2>2, <3>1
    <3> QED
      BY <1>8, <2>2, <3>2
  <2>3. Folds(iter, S, V, v, step, pick)
    BY <2>1, <2>2 DEF Folds
  <2> HIDE DEF pick, step
  <2> QED
    BY <1>1, <1>2, <2>3, FoldTyped
<1> HIDE DEF pick
<1> QED
  <2>1. \A s \in SUBSET S :
          /\ s # {} => pick[s] \in s
          /\ iter[s] \in V
          /\ iter[s] = IF s = {} THEN v
                       ELSE MergeMember(iter[s \ {pick[s]}], IntKey(pick[s]), w)
    BY <1>1, <1>8, <1>9 DEF Picks
  <2>2. FoldsPush(v, w, S, V, iter, pick)
    BY <1>6, <2>1 DEF FoldsPush
  <2> QED
    BY <2>2

-----------------------------------------------------------------------------
(* Tracked lengths are naturals.                                           *)
LEMMA LengthsFacts ==
  ASSUME NEW v \in LiveValue
  PROVE  v[<<>>].lengths \subseteq Nat
<1>1. v[<<>>] \in Label
  BY NormalFacts DEF LiveValue, FiniteValue, IsBottom, ViewLabel
<1> QED
  BY <1>1 DEF Label

(* The last element is covered whichever tracked length is the real one.   *)
LEMMA ArrayLastCovers ==
  ASSUME KeysAreKeys, NEW v \in LiveValue, IsFiniteSet(v[<<>>].lengths),
         NEW c, NEW n \in Nat \ {0}, EntryIsCovered(v, IntKey(n - 1), c),
         v[<<>>].lengths # {} => n \in v[<<>>].lengths
  PROVE  ArrayLast(v) \in FiniteValue /\ Covers(View(ArrayLast(v), <<>>), c)
<1>0. Dynamic \in Key /\ \A i \in Nat : IntKey(i) \in Key
  BY DEF KeysAreKeys
<1>1. v[<<>>].lengths \subseteq Nat
  BY LengthsFacts
<1>2. IntKey(n - 1) \in Key
  <2>1. n - 1 \in Nat
    OBVIOUS
  <2> QED
    BY <1>0, <2>1
<1>3. CASE v[<<>>].lengths = {}
  BY <1>0, <1>2, <1>3, AnyMemberCovers DEF ArrayLast
<1>4. CASE v[<<>>].lengths # {}
  <2> DEFINE S == v[<<>>].lengths \ {0}
  <2>1. IsFiniteSet(S) /\ n \in S /\ \A x \in S : x - 1 \in Nat
    <3>1. IsFiniteSet(S)
      BY FS_Subset
    <3>2. n \in S
      BY <1>4
    <3>3. \A x \in Nat : x # 0 => x - 1 \in Nat
      OBVIOUS
    <3>4. \A x \in S : x \in Nat /\ x # 0
      BY <1>1
    <3> HIDE DEF S
    <3> QED
      BY <3>1, <3>2, <3>3, <3>4
  <2>2. ASSUME NEW x \in S
        PROVE  IntKey(x - 1) \in Key /\ Member(v, IntKey(x - 1)) \in FiniteValue
    <3>1. IntKey(x - 1) \in Key
      BY <1>0, <2>1
    <3> QED
      BY <1>0, <3>1, MemberFacts
  <2>3. \A x \in S, a \in FiniteValue : Merge(a, Member(v, IntKey(x - 1))) \in FiniteValue
    BY <2>2, MergeFinite
  <2>4. PICK g, pick : FoldsLast(v, FiniteValue, g, pick)
    <3>1. Bottom \in FiniteValue
      BY RootLabels
    <3> QED
      BY <1>4, <2>1, <2>3, <3>1, ArrayLastFold
  <2>5. /\ ArrayLast(v) = g[S]
        /\ \A s \in SUBSET S :
             /\ s # {} => pick[s] \in s
             /\ g[s] \in FiniteValue
             /\ g[s] = IF s = {} THEN Bottom
                       ELSE Merge(g[s \ {pick[s]}], Member(v, IntKey(pick[s] - 1)))
    BY <2>4, Zenon DEF FoldsLast
  <2> HIDE DEF S
  <2>6. ASSUME NEW s \in SUBSET S, s # {}
        PROVE  /\ pick[s] \in s /\ pick[s] \in S /\ s \ {pick[s]} \in SUBSET S
               /\ View(g[s], <<>>) = JoinViews(View(g[s \ {pick[s]}], <<>>),
                                               View(Member(v, IntKey(pick[s] - 1)), <<>>))
               /\ View(g[s \ {pick[s]}], <<>>) \in ViewLabel
               /\ View(Member(v, IntKey(pick[s] - 1)), <<>>) \in ViewLabel
    <3>1. pick[s] \in s /\ pick[s] \in S /\ s \ {pick[s]} \in SUBSET S
      BY <2>5, <2>6
    <3>2. g[s \ {pick[s]}] \in NormalValue /\ Member(v, IntKey(pick[s] - 1)) \in NormalValue
      BY <2>2, <2>5, <3>1 DEF FiniteValue
    <3>3. g[s] = Merge(g[s \ {pick[s]}], Member(v, IntKey(pick[s] - 1)))
      BY <2>5, <2>6
    <3>4. <<>> \in Path
      BY DEF Path
    <3> QED
      BY <3>1, <3>2, <3>3, <3>4, ViewOfMerge, ViewType
  <2>7. ASSUME NEW s \in SUBSET S, n \in s
        PROVE  Covers(View(g[s], <<>>), c)
    <3> DEFINE Bad == {t \in SUBSET S : n \in t /\ ~Covers(View(g[t], <<>>), c)}
    <3> SUFFICES ASSUME Bad # {}
                 PROVE  FALSE
      BY <2>7
    <3>1. PICK t \in Bad : \A x \in t : t \ {x} \notin Bad
      <4>1. Bad \in SUBSET (SUBSET S)
        OBVIOUS
      <4> HIDE DEF Bad
      <4> QED
        BY <2>1, <4>1, MinimalSubset
    <3>2. t \in SUBSET S /\ n \in t /\ t # {} /\ ~Covers(View(g[t], <<>>), c)
      OBVIOUS
    <3> DEFINE x == pick[t]
               rest == t \ {x}
    <3>3. /\ x \in t /\ x \in S /\ rest \in SUBSET S
          /\ View(g[t], <<>>) = JoinViews(View(g[rest], <<>>), View(Member(v, IntKey(x - 1)), <<>>))
          /\ View(g[rest], <<>>) \in ViewLabel
          /\ View(Member(v, IntKey(x - 1)), <<>>) \in ViewLabel
      BY <2>6, <3>2
    <3>4. x = n => Covers(View(Member(v, IntKey(x - 1)), <<>>), c)
      BY <1>0, <1>2, MemberCovers
    <3>5. x # n => Covers(View(g[rest], <<>>), c)
      BY <3>1, <3>2, <3>3
    <3> HIDE DEF x, rest, Bad
    <3> QED
      BY <3>2, <3>3, <3>4, <3>5, JoinCovers
  <2> QED
    BY <2>1, <2>5, <2>7
<1> QED
  BY <1>3, <1>4

-----------------------------------------------------------------------------
(* Changing the tracked lengths changes nothing else.                      *)
Relength(v, lengths) == [v EXCEPT ![<<>>].lengths = lengths]

(* A new set of tracked lengths leaves the members as they look.           *)
LEMMA RelengthFacts ==
  ASSUME NEW v \in LiveValue, NEW lengths \in SUBSET Nat, Dynamic \in Key
  PROVE  LET u == Relength(v, lengths)
         IN  /\ u \in LiveValue /\ u[<<>>] = [v[<<>>] EXCEPT !.lengths = lengths]
             /\ \A p \in Path : p # <<>> => View(u, p) = View(v, p)
             /\ \A c : \A k \in Key : EntryIsCovered(v, k, c) => EntryIsCovered(u, k, c)
<1> DEFINE label == [v[<<>>] EXCEPT !.lengths = lengths]
           u == [v EXCEPT ![<<>>] = label]
<1>1. v[<<>>] \in Label /\ ~v[<<>>].bottom
  BY NormalFacts DEF LiveValue, FiniteValue, IsBottom, ViewLabel
<1>2. label \in Label /\ ~label.bottom /\ label.membersComplete = v[<<>>].membersComplete
  BY <1>1 DEF Label
<1>3. Relength(v, lengths) = u
  BY DEF Relength
<1> HIDE DEF label
<1>4. /\ u \in LiveValue /\ u[<<>>] = label /\ DOMAIN u = DOMAIN v
      /\ \A p \in Path : p # <<>> => View(u, p) = View(v, p)
  BY <1>2, RelabelFacts
<1> HIDE DEF u
<1>5. ASSUME NEW k \in Key, NEW c, EntryIsCovered(v, k, c)
      PROVE  EntryIsCovered(u, k, c)
  <2>1. View(u, <<k>>) = View(v, <<k>>) /\ View(u, <<Dynamic>>) = View(v, <<Dynamic>>)
    BY <1>4, OneKey
  <2> QED
    BY <1>4, <1>5, <2>1, EntryKept
<1> QED
  BY <1>3, <1>4, <1>5 DEF label

(* The value of a push after it has been put into the slots of s.          *)
Landed(v, w, s, u) ==
  /\ u \in LiveValue /\ u[<<>>] = v[<<>>]
  /\ \A k \in Key : k \notin {IntKey(n) : n \in s} =>
       View(u, <<k>>) = View(v, <<k>>) /\ (<<k>> \in DOMAIN u <=> <<k>> \in DOMAIN v)
  /\ \A n \in s :
       /\ <<IntKey(n)>> \in DOMAIN u
       /\ View(u, <<IntKey(n)>>) =
            IF <<IntKey(n)>> \in DOMAIN v THEN JoinViews(View(v, <<IntKey(n)>>), View(w, <<>>))
            ELSE View(w, <<>>)

(* One more slot.                                                          *)
LEMMA LandedStep ==
  ASSUME KeysAreKeys, NEW v, NEW w \in FiniteValue, NEW s \in SUBSET Nat, NEW x \in s,
         NEW u, Landed(v, w, s \ {x}, u)
  PROVE  Landed(v, w, s, MergeMember(u, IntKey(x), w))
<1> DEFINE k == IntKey(x)
           m == MergeMember(u, k, w)
<1>1. k \in Key /\ \A n \in s \ {x} : IntKey(n) \in Key /\ IntKey(n) # k
  BY KeyFacts DEF KeysAreKeys
<1>2. /\ u \in LiveValue /\ u[<<>>] = v[<<>>]
      /\ \A j \in Key : j \notin {IntKey(n) : n \in s \ {x}} =>
           View(u, <<j>>) = View(v, <<j>>) /\ (<<j>> \in DOMAIN u <=> <<j>> \in DOMAIN v)
      /\ \A n \in s \ {x} :
           /\ <<IntKey(n)>> \in DOMAIN u
           /\ View(u, <<IntKey(n)>>) =
                IF <<IntKey(n)>> \in DOMAIN v THEN JoinViews(View(v, <<IntKey(n)>>), View(w, <<>>))
                ELSE View(w, <<>>)
  BY DEF Landed
<1>3. k \notin {IntKey(n) : n \in s \ {x}}
  BY <1>1
<1>4. /\ m \in LiveValue /\ m[<<>>] = u[<<>>] /\ <<k>> \in DOMAIN m
      /\ View(m, <<k>>) = IF <<k>> \in DOMAIN u THEN JoinViews(View(u, <<k>>), View(w, <<>>))
                          ELSE View(w, <<>>)
      /\ \A j \in Key : j # k =>
           View(m, <<j>>) = View(u, <<j>>) /\ (<<j>> \in DOMAIN m <=> <<j>> \in DOMAIN u)
  BY <1>1, <1>2, EntryAfterMerge
<1> HIDE DEF m
<1>5. ASSUME NEW j \in Key, j \notin {IntKey(n) : n \in s}
      PROVE  View(m, <<j>>) = View(v, <<j>>) /\ (<<j>> \in DOMAIN m <=> <<j>> \in DOMAIN v)
  <2>1. j # k /\ j \notin {IntKey(n) : n \in s \ {x}}
    BY <1>5
  <2> QED
    BY <1>2, <1>4, <2>1
<1>6. ASSUME NEW n \in s
      PROVE  /\ <<IntKey(n)>> \in DOMAIN m
             /\ View(m, <<IntKey(n)>>) =
                  IF <<IntKey(n)>> \in DOMAIN v THEN JoinViews(View(v, <<IntKey(n)>>), View(w, <<>>))
                  ELSE View(w, <<>>)
  <2>1. CASE n = x
    <3>1. /\ <<k>> \in DOMAIN m
          /\ View(u, <<k>>) = View(v, <<k>>) /\ (<<k>> \in DOMAIN u <=> <<k>> \in DOMAIN v)
      BY <1>1, <1>2, <1>3, <1>4
    <3> QED
      BY <1>4, <2>1, <3>1
  <2>2. CASE n # x
    BY <1>1, <1>2, <1>4, <2>2
  <2> QED
    BY <2>1, <2>2
<1> QED
  BY <1>5, <1>4, <1>5, <1>6 DEF Landed, m

(* A push lands in the slot of every tracked length.                       *)
LEMMA LandedFacts ==
  ASSUME KeysAreKeys, NEW v \in LiveValue, NEW w \in FiniteValue, NEW S \in SUBSET Nat, IsFiniteSet(S)
  PROVE  Landed(v, w, S, PushedAt(v, w, S))
<1>1. \A n \in S, a \in LiveValue : MergeMember(a, IntKey(n), w) \in LiveValue
  BY MergeMemberFacts DEF KeysAreKeys
<1>2. PICK g, pick : FoldsPush(v, w, S, LiveValue, g, pick)
  BY <1>1, PushFold
<1>5. /\ PushedAt(v, w, S) = g[S]
      /\ \A s \in SUBSET S :
           /\ s # {} => pick[s] \in s
           /\ g[s] \in LiveValue
           /\ g[s] = IF s = {} THEN v
                     ELSE MergeMember(g[s \ {pick[s]}], IntKey(pick[s]), w)
  BY <1>2, Zenon DEF FoldsPush
<1>3. Landed(v, w, {}, v)
  <2>1. \A k : k \notin {IntKey(n) : n \in {}}
    OBVIOUS
  <2> QED
    BY DEF Landed
<1>4. ASSUME NEW s \in SUBSET S
      PROVE  Landed(v, w, s, g[s])
  <2> DEFINE Bad == {t \in SUBSET S : ~Landed(v, w, t, g[t])}
  <2> SUFFICES ASSUME Bad # {}
               PROVE  FALSE
    BY <1>4
  <2>1. PICK t \in Bad : \A x \in t : t \ {x} \notin Bad
    <3>1. Bad \in SUBSET (SUBSET S)
      OBVIOUS
    <3> HIDE DEF Bad
    <3> QED
      BY <3>1, MinimalSubset
  <2>2. t \in SUBSET S /\ ~Landed(v, w, t, g[t])
    OBVIOUS
  <2>3. t # {}
    BY <1>5, <1>3, <2>2
  <2>4. pick[t] \in t /\ g[t] = MergeMember(g[t \ {pick[t]}], IntKey(pick[t]), w)
    BY <1>5, <2>2, <2>3
  <2>5. Landed(v, w, t \ {pick[t]}, g[t \ {pick[t]}])
    BY <2>1, <2>2, <2>4
  <2>6. t \in SUBSET Nat
    BY <2>2
  <2>7. Landed(v, w, t, MergeMember(g[t \ {pick[t]}], IntKey(pick[t]), w))
    <3> DEFINE x == pick[t]
               u == g[t \ {x}]
    <3> HIDE DEF x, u
    <3>1. x \in t /\ Landed(v, w, t \ {x}, u)
      BY <2>4, <2>5 DEF x, u
    <3>2. Landed(v, w, t, MergeMember(u, IntKey(x), w))
      BY <2>6, <3>1, LandedStep
    <3> QED
      BY <3>2 DEF x, u
  <2> QED
    BY <2>2, <2>4, <2>7
<1> QED
  BY <1>5, <1>4

-----------------------------------------------------------------------------
(* What landing in the slots of the tracked lengths does to the entries.   *)
LEMMA LandedCovers ==
  ASSUME KeysAreKeys, NEW v \in LiveValue, NEW w \in FiniteValue, NEW S \in SUBSET Nat,
         NEW u, Landed(v, w, S, u), v[<<>>].membersComplete
  PROVE  /\ \A d : \A k \in Key \ {Dynamic} : EntryIsCovered(v, k, d) => EntryIsCovered(u, k, d)
         /\ \A c : \A n \in S : Covers(View(w, <<>>), c) => EntryIsCovered(u, IntKey(n), c)
<1>1. /\ u \in LiveValue
      /\ \A k \in Key : k \notin {IntKey(n) : n \in S} =>
           View(u, <<k>>) = View(v, <<k>>) /\ (<<k>> \in DOMAIN u <=> <<k>> \in DOMAIN v)
      /\ \A n \in S :
           /\ <<IntKey(n)>> \in DOMAIN u
           /\ View(u, <<IntKey(n)>>) =
                IF <<IntKey(n)>> \in DOMAIN v THEN JoinViews(View(v, <<IntKey(n)>>), View(w, <<>>))
                ELSE View(w, <<>>)
  BY DEF Landed
<1>2. /\ Dynamic \in Key /\ \A n \in S : IntKey(n) \in Key
      /\ Dynamic \notin {IntKey(n) : n \in S}
  BY KeyFacts DEF KeysAreKeys
<1>3. View(w, <<>>) \in ViewLabel
  <2>1. w \in NormalValue /\ <<>> \in Path
    BY DEF FiniteValue, Path
  <2> QED
    BY <2>1, ViewType
<1>4. ASSUME NEW k \in Key, NEW d, Covers(View(v, <<k>>), d)
      PROVE  Covers(View(u, <<k>>), d)
  <2>1. <<k>> \in DOMAIN v /\ View(v, <<k>>) \in ViewLabel
    BY <1>4, EntryView, CoversPlain
  <2>2. CASE k \in {IntKey(n) : n \in S}
    <3>1. View(u, <<k>>) = JoinViews(View(v, <<k>>), View(w, <<>>))
      BY <1>1, <2>1, <2>2
    <3> QED
      BY <1>3, <1>4, <2>1, <3>1, JoinCovers
  <2>3. CASE k \notin {IntKey(n) : n \in S}
    BY <1>1, <1>4, <2>3
  <2> QED
    BY <2>2, <2>3
<1>5. ASSUME NEW k \in Key \ {Dynamic}, NEW d, EntryIsCovered(v, k, d)
      PROVE  EntryIsCovered(u, k, d)
  <2>1. <<Dynamic>> \in DOMAIN v => <<Dynamic>> \in DOMAIN u
    BY <1>1, <1>2
  <2> QED
    BY <1>1, <1>2, <1>4, <1>5, <2>1, EntryKept
<1>6. ASSUME NEW c, NEW n \in S, Covers(View(w, <<>>), c)
      PROVE  EntryIsCovered(u, IntKey(n), c)
  <2>1. Covers(View(u, <<IntKey(n)>>), c)
    <3>1. View(v, <<IntKey(n)>>) \in ViewLabel
      BY <1>2, EntryView
    <3>2. CASE <<IntKey(n)>> \in DOMAIN v
      <4>1. View(u, <<IntKey(n)>>) = JoinViews(View(v, <<IntKey(n)>>), View(w, <<>>))
        BY <1>1, <3>2
      <4> QED
        BY <1>3, <1>6, <3>1, <4>1, JoinCovers
    <3>3. CASE <<IntKey(n)>> \notin DOMAIN v
      BY <1>1, <1>6, <3>3
    <3> QED
      BY <3>2, <3>3
  <2> QED
    BY <1>1, <1>2, <2>1, EntryByView
<1> QED
  BY <1>5, <1>6

(* A push keeps every entry covered and covers the element that it adds;   *)
(* while lengths are tracked, the real one stays among them.               *)
LEMMA PushCovers ==
  ASSUME KeysAreKeys, NEW v \in LiveValue, NEW w \in FiniteValue,
         NEW c, Covers(View(w, <<>>), c), NEW n \in Nat, IsFiniteSet(v[<<>>].lengths),
         v[<<>>].lengths # {} => n \in v[<<>>].lengths /\ v[<<>>].membersComplete
  PROVE  LET u == PushArrayMember(v, w)
         IN  /\ u \in LiveValue /\ u[<<>>].targets = v[<<>>].targets
             /\ IsFiniteSet(u[<<>>].lengths)
             /\ u[<<>>].lengths # {} => n + 1 \in u[<<>>].lengths /\ u[<<>>].membersComplete
             /\ EntryIsCovered(u, IntKey(n), c)
             /\ \A d : \A k \in Key \ {Dynamic} : EntryIsCovered(v, k, d) => EntryIsCovered(u, k, d)
<1> DEFINE S == v[<<>>].lengths
           landed == PushedAt(v, w, S)
           next == {i + 1 : i \in S}
           Kept(u) == /\ EntryIsCovered(u, IntKey(n), c)
                      /\ \A d : \A k \in Key \ {Dynamic} :
                           EntryIsCovered(v, k, d) => EntryIsCovered(u, k, d)
<1>1. Dynamic \in Key /\ IntKey(n) \in Key \ {Dynamic}
  BY KeyFacts DEF KeysAreKeys
<1>2. S \in SUBSET Nat /\ v[<<>>] \in Label
  <2>1. v[<<>>] \in Label
    BY NormalFacts DEF LiveValue, FiniteValue, IsBottom, ViewLabel
  <2> QED
    BY <2>1, LengthsFacts
<1>3. CASE S = {}
  <2>1. PushArrayMember(v, w) = SetDynamicMember(v, w)
    BY <1>3, Zenon DEF PushArrayMember
  <2>2. /\ SetDynamicMember(v, w) \in LiveValue /\ SetDynamicMember(v, w)[<<>>] = v[<<>>]
        /\ Kept(SetDynamicMember(v, w))
    BY <1>1, DynamicCovers
  <2> HIDE DEF Kept
  <2>3. Kept(PushArrayMember(v, w)) /\ PushArrayMember(v, w) \in LiveValue
        /\ PushArrayMember(v, w)[<<>>] = v[<<>>]
    BY <2>1, <2>2
  <2> QED
    BY <1>3, <2>3 DEF Kept
<1>4. CASE S # {}
  <2>1. /\ landed \in LiveValue /\ landed[<<>>] = v[<<>>] /\ Kept(landed)
    <3>1. Landed(v, w, S, landed)
      BY <1>2, LandedFacts
    <3>2. landed \in LiveValue /\ landed[<<>>] = v[<<>>]
      BY <3>1 DEF Landed
    <3>3. n \in S /\ v[<<>>].membersComplete
      BY <1>4
    <3> HIDE DEF landed, S
    <3>4. /\ \A d : \A k \in Key \ {Dynamic} : EntryIsCovered(v, k, d) => EntryIsCovered(landed, k, d)
          /\ \A b : \A i \in S : Covers(View(w, <<>>), b) => EntryIsCovered(landed, IntKey(i), b)
      <4> HIDE DEF Kept
      <4> QED
        BY <1>2, <3>1, <3>3, LandedCovers
    <3>5. Kept(landed)
      BY <3>3, <3>4
    <3> QED
      BY <3>2, <3>5
  <2> DEFINE shorter == Relength(landed, {})
             longer == Relength(landed, next)
  <2>2. PushArrayMember(v, w) = SetDynamicMember(shorter, w) \/ PushArrayMember(v, w) = longer
    BY <1>4, Zenon DEF PushArrayMember, PushedAt, Relength
  <2> HIDE DEF landed
  <2>3. next \in SUBSET Nat /\ n + 1 \in next /\ IsFiniteSet(next)
    <3>1. \A i \in Nat : i + 1 \in Nat
      OBVIOUS
    <3>2. IsFiniteSet(next)
      <4> DEFINE f == [i \in S |-> i + 1]
      <4>1. IsFiniteSet({f[i] : i \in DOMAIN f})
        <5>1. DOMAIN f = S
          OBVIOUS
        <5> HIDE DEF f
        <5> QED
          BY <5>1, ImageFinite
      <4>2. {f[i] : i \in DOMAIN f} = next
        OBVIOUS
      <4> QED
        BY <4>1, <4>2
    <3> QED
      BY <1>2, <1>4, <3>1, <3>2
  <2> HIDE DEF next
  <2>9. ASSUME NEW lengths \in SUBSET Nat
        PROVE  /\ Relength(landed, lengths) \in LiveValue
               /\ Relength(landed, lengths)[<<>>] = [v[<<>>] EXCEPT !.lengths = lengths]
               /\ \A d : \A k \in Key :
                    EntryIsCovered(landed, k, d) => EntryIsCovered(Relength(landed, lengths), k, d)
    <3> HIDE DEF Kept
    <3> QED
      BY <1>1, <2>1, RelengthFacts
  <2>4. /\ shorter \in LiveValue /\ shorter[<<>>] = [v[<<>>] EXCEPT !.lengths = {}]
        /\ \A d : \A k \in Key : EntryIsCovered(landed, k, d) => EntryIsCovered(shorter, k, d)
    <3>1. {} \in SUBSET Nat
      OBVIOUS
    <3> QED
      BY <2>9, <3>1, Zenon
  <2>5. /\ longer \in LiveValue /\ longer[<<>>] = [v[<<>>] EXCEPT !.lengths = next]
        /\ \A d : \A k \in Key : EntryIsCovered(landed, k, d) => EntryIsCovered(longer, k, d)
    BY <2>3, <2>9, Zenon
  <2>8. Kept(shorter) /\ Kept(longer)
    <3> HIDE DEF shorter, longer
    <3> QED
      BY <1>1, <2>1, <2>4, <2>5
  <2> HIDE DEF shorter, longer
  <2>6. CASE PushArrayMember(v, w) = SetDynamicMember(shorter, w)
    <3>1. /\ SetDynamicMember(shorter, w) \in LiveValue
          /\ SetDynamicMember(shorter, w)[<<>>] = shorter[<<>>]
          /\ Kept(SetDynamicMember(shorter, w))
      <4>1. /\ SetDynamicMember(shorter, w) \in LiveValue
            /\ SetDynamicMember(shorter, w)[<<>>] = shorter[<<>>]
            /\ \A k \in Key : EntryIsCovered(SetDynamicMember(shorter, w), k, c)
            /\ \A d : \A k \in Key \ {Dynamic} :
                 EntryIsCovered(shorter, k, d) => EntryIsCovered(SetDynamicMember(shorter, w), k, d)
        <5> HIDE DEF Kept
        <5> QED
          BY <1>1, <2>4, DynamicCovers
      <4> QED
        BY <1>1, <2>8, <4>1
    <3>2. shorter[<<>>].targets = v[<<>>].targets /\ shorter[<<>>].lengths = {}
      BY <1>2, <2>4 DEF Label
    <3>3. IsFiniteSet({})
      BY FS_EmptySet
    <3> HIDE DEF Kept
    <3>4. PushArrayMember(v, w)[<<>>] = shorter[<<>>] /\ Kept(PushArrayMember(v, w))
          /\ PushArrayMember(v, w) \in LiveValue
      BY <2>6, <3>1
    <3> QED
      BY <3>2, <3>3, <3>4 DEF Kept
  <2>7. CASE PushArrayMember(v, w) = longer
    <3>1. /\ longer[<<>>].targets = v[<<>>].targets /\ longer[<<>>].lengths = next
          /\ longer[<<>>].membersComplete = v[<<>>].membersComplete
      BY <1>2, <2>5 DEF Label
    <3> HIDE DEF Kept
    <3>2. PushArrayMember(v, w)[<<>>] = longer[<<>>] /\ Kept(PushArrayMember(v, w))
          /\ PushArrayMember(v, w) \in LiveValue
      BY <2>5, <2>7, <2>8
    <3> QED
      BY <1>4, <2>3, <3>1, <3>2 DEF Kept
  <2> QED
    BY <2>2, <2>6, <2>7
<1> QED
  BY <1>3, <1>4

-----------------------------------------------------------------------------
(* A pop shortens every tracked length, the real one among them.           *)
LEMMA PopCovers ==
  ASSUME NEW v \in LiveValue, Dynamic \in Key, IsFiniteSet(v[<<>>].lengths),
         NEW n \in Nat \ {0}, v[<<>>].lengths # {} => n \in v[<<>>].lengths
  PROVE  LET u == ArrayPop(v)
         IN  /\ u \in LiveValue /\ u[<<>>].targets = v[<<>>].targets
             /\ u[<<>>].membersComplete = v[<<>>].membersComplete
             /\ IsFiniteSet(u[<<>>].lengths)
             /\ u[<<>>].lengths # {} => v[<<>>].lengths # {} /\ n - 1 \in u[<<>>].lengths
             /\ \A c : \A k \in Key : EntryIsCovered(v, k, c) => EntryIsCovered(u, k, c)
<1> DEFINE S == v[<<>>].lengths
           less == [i \in S |-> IF i = 0 THEN 0 ELSE i - 1]
           shorter == {less[i] : i \in S}
<1>1. S \subseteq Nat /\ v[<<>>] \in Label
  <2>1. v[<<>>] \in Label
    BY NormalFacts DEF LiveValue, FiniteValue, IsBottom, ViewLabel
  <2> QED
    BY <2>1, LengthsFacts
<1>2. shorter \subseteq Nat
  <2>1. \A i \in Nat : (IF i = 0 THEN 0 ELSE i - 1) \in Nat
    OBVIOUS
  <2> QED
    BY <1>1, <2>1
<1>3. ArrayPop(v) = Relength(v, shorter)
  <2>1. shorter = {IF i = 0 THEN 0 ELSE i - 1 : i \in S}
    OBVIOUS
  <2> HIDE DEF shorter, less
  <2> QED
    BY <2>1 DEF ArrayPop, Relength
<1>4. IsFiniteSet(shorter)
  <2>1. DOMAIN less = S
    OBVIOUS
  <2> HIDE DEF less
  <2> QED
    BY <2>1, ImageFinite
<1>5. S # {} => n - 1 \in shorter
  OBVIOUS
<1>6. S = {} => shorter = {}
  OBVIOUS
<1> HIDE DEF shorter
<1>7. /\ Relength(v, shorter) \in LiveValue
      /\ Relength(v, shorter)[<<>>] = [v[<<>>] EXCEPT !.lengths = shorter]
      /\ \A c : \A k \in Key : EntryIsCovered(v, k, c) => EntryIsCovered(Relength(v, shorter), k, c)
  BY <1>2, RelengthFacts
<1>8. /\ Relength(v, shorter)[<<>>].targets = v[<<>>].targets
      /\ Relength(v, shorter)[<<>>].lengths = shorter
      /\ Relength(v, shorter)[<<>>].membersComplete = v[<<>>].membersComplete
  BY <1>1, <1>7 DEF Label
<1> QED
  BY <1>3, <1>4, <1>5, <1>6, <1>7, <1>8

(* Flattened into one node, a value covers what any node that is not under *)
(* a bottom covers, and anything at all if such a node lists nothing and   *)
(* does not know its members.                                              *)
LEMMA NestedCovers ==
  ASSUME NEW v \in LiveValue, NEW p \in DOMAIN v, BottomAt(v, p) = {},
         NEW c, Covers(v[p], c) \/ (v[p].targets = {} /\ ~v[p].membersComplete)
  PROVE  /\ AnyNestedCallable(v) \in LiveValue
         /\ Covers(View(AnyNestedCallable(v), <<>>), c)
<1> DEFINE reached == {q \in DOMAIN v : BottomAt(v, q) = {}}
           nodes == {v[q] : q \in reached}
           label == [UnknownLabel EXCEPT
                       !.targets = UNION {n.targets : n \in nodes},
                       !.complete = \A n \in nodes : n.complete /\ (n.membersComplete \/ n.targets # {})]
<1>1. AnyNestedCallable(v) = Leaf(label)
  BY DEF AnyNestedCallable, LiveValue
<1>2. v \in [DOMAIN v -> Label]
  BY NormalFacts DEF LiveValue, FiniteValue
<1>3. \A n \in nodes : n \in Label
  BY <1>2
<1>4. v[p] \in nodes
  OBVIOUS
<1> HIDE DEF nodes
<1>5. /\ label \in Label /\ ~label.bottom
      /\ label.targets = UNION {n.targets : n \in nodes}
      /\ label.complete <=> \A n \in nodes : n.complete /\ (n.membersComplete \/ n.targets # {})
  <2>1. UNION {n.targets : n \in nodes} \subseteq Target
    BY <1>3 DEF Label
  <2> QED
    BY <2>1, LabelFacts DEF Label, ViewLabel
<1> HIDE DEF label
<1>6. label.complete => c \in label.targets
  BY <1>4, <1>5 DEF Covers
<1>7. label \in ViewLabel
  BY <1>5 DEF ViewLabel
<1>8. Leaf(label) \in LiveValue /\ View(Leaf(label), <<>>) = label
  BY <1>5, <1>7, LeafFacts DEF LiveValue, FiniteValue, IsBottom
<1> QED
  BY <1>1, <1>5, <1>6, <1>8 DEF Covers

(* A covered entry survives flattening: its own node lists it, or an       *)
(* ancestor that is reached does not know its members.                     *)
LEMMA EntryNested ==
  ASSUME NEW v \in LiveValue, v[<<>>].targets = {}, NEW k \in Key, Dynamic \in Key,
         NEW c, EntryIsCovered(v, k, c)
  PROVE  /\ AnyNestedCallable(v) \in LiveValue
         /\ Covers(View(AnyNestedCallable(v), <<>>), c)
<1>1. v \in NormalValue /\ ~v[<<>>].bottom /\ <<>> \in DOMAIN v
  BY NormalFacts DEF LiveValue, FiniteValue, IsBottom
<1>2. ASSUME NEW j \in Key, <<j>> \in DOMAIN v, Covers(v[<<j>>], c)
      PROVE  /\ AnyNestedCallable(v) \in LiveValue
             /\ Covers(View(AnyNestedCallable(v), <<>>), c)
  <2>1. BottomAt(v, <<j>>) = {}
    <3>1. Len(<<j>>) = 1 /\ Upto(<<j>>, 0) = <<>> /\ Upto(<<j>>, 1) = <<j>>
      BY OneKey
    <3>2. \A i \in 0 .. 1 : i = 0 \/ i = 1
      OBVIOUS
    <3> QED
      BY <1>1, <1>2, <3>1, <3>2 DEF BottomAt, Covers
  <2> QED
    BY <1>2, <2>1, NestedCovers
<1>3. CASE <<Dynamic>> \in DOMAIN v /\ Covers(v[<<Dynamic>>], c)
  BY <1>2, <1>3
<1>4. CASE Covers(LabelOr(v, <<k>>), c)
  <2>1. CASE <<k>> \in DOMAIN v
    <3>1. Covers(v[<<k>>], c)
      BY <1>4, <2>1 DEF LabelOr
    <3> QED
      BY <1>2, <2>1, <3>1
  <2>2. CASE <<k>> \notin DOMAIN v
    <3>1. ~v[<<>>].membersComplete
      <4>1. Parent(<<k>>) = <<>>
        BY OneKey
      <4> QED
        BY <1>1, <1>4, <2>2, <4>1, CoversPlain DEF LabelOr
    <3>2. BottomAt(v, <<>>) = {}
      <4>1. Len(<<>>) = 0 /\ Upto(<<>>, 0) = <<>>
        BY UptoZero
      <4>2. \A i \in 0 .. 0 : i = 0
        OBVIOUS
      <4> QED
        BY <1>1, <4>1, <4>2 DEF BottomAt
    <3> QED
      BY <1>1, <3>1, <3>2, NestedCovers
  <2> QED
    BY <2>1, <2>2
<1> QED
  BY <1>3, <1>4 DEF EntryIsCovered

(* Packed into a tuple and unpacked elsewhere, what the value covers       *)
(* flattened is covered in every slot.                                     *)
LEMMA PackingCovers ==
  ASSUME NEW v \in LiveValue, AnyNestedCallable(v) \in LiveValue, Dynamic \in Key,
         NEW c, Covers(View(AnyNestedCallable(v), <<>>), c), NEW slot \in Key
  PROVE  Describes(Member(UnpackedTuple(PackedTuple(v)), slot), c)
<1> DEFINE flat == AnyNestedCallable(v)
           packed == PackedTuple(v)
           flatter == AnyNestedCallable(packed)
           relabeled == [packed EXCEPT ![<<>>].targets = flatter[<<>>].targets,
                                       ![<<>>].complete = flatter[<<>>].complete]
           unpacked == UnpackedTuple(packed)
<1>1. flat \in LiveValue /\ flat \in FiniteValue /\ Covers(View(flat, <<>>), c)
  BY DEF LiveValue
<1>2. packed = SetDynamicMember(EmptyAggregate, flat)
  BY DEF PackedTuple, LiveValue
<1>3. EmptyAggregate \in LiveValue /\ EmptyAggregate[<<>>].targets = {}
  BY RootLabels DEF EmptyAggregate, Leaf, AggregateLabel, PlainLabel
<1> HIDE DEF flat, packed
<1>4. /\ packed \in LiveValue /\ packed[<<>>].targets = {} /\ EntryIsCovered(packed, slot, c)
  BY <1>1, <1>2, <1>3, DynamicCovers
<1>5. flatter \in LiveValue /\ flatter \in FiniteValue /\ Covers(View(flatter, <<>>), c)
  BY <1>4, EntryNested DEF LiveValue
<1> HIDE DEF flatter
<1>6. relabeled \in LiveValue
  <2> DEFINE label == [packed[<<>>] EXCEPT !.targets = flatter[<<>>].targets,
                                           !.complete = flatter[<<>>].complete]
  <2>1. /\ packed[<<>>] \in Label /\ ~packed[<<>>].bottom /\ flatter[<<>>] \in Label
        /\ packed \in [DOMAIN packed -> Label] /\ <<>> \in DOMAIN packed
    BY <1>4, <1>5, NormalFacts DEF LiveValue, FiniteValue, IsBottom, ViewLabel
  <2>2. /\ label \in Label /\ ~label.bottom
        /\ label.membersComplete = packed[<<>>].membersComplete
    BY <2>1 DEF Label
  <2>3. relabeled = [packed EXCEPT ![<<>>] = label]
    BY <2>1
  <2> HIDE DEF label, relabeled
  <2> QED
    BY <1>4, <2>2, <2>3, RelabelFacts
<1>7. unpacked = SetDynamicMember(relabeled, flatter)
  BY <1>4, Zenon DEF UnpackedTuple, LiveValue, flatter
<1> HIDE DEF relabeled, unpacked
<1>8. unpacked \in LiveValue /\ EntryIsCovered(unpacked, slot, c)
  BY <1>5, <1>6, <1>7, DynamicCovers
<1>9. Describes(Member(unpacked, slot), c)
  BY <1>8, MemberCovers, CoversDescribes
<1> QED
  BY <1>9 DEF unpacked, packed

(* The value of a lookup result is what the lookup found.                  *)
LEMMA LookupResultCovers ==
  ASSUME {Dynamic, MapValue} \subseteq Key, NEW w \in FiniteValue, NEW c, Covers(View(w, <<>>), c)
  PROVE  Describes(Member(MapLookupResult(w), MapValue), c)
<1> DEFINE u == MapLookupResult(w)
<1>1. u \in LiveValue /\ View(u, <<MapValue>>) = View(w, <<>>)
  BY RootLabels, EntryAfterPut DEF MapLookupResult
<1> HIDE DEF u
<1>2. EntryIsCovered(u, MapValue, c)
  BY <1>1, EntryByView
<1> QED
  BY <1>1, <1>2, MemberCovers, CoversDescribes DEF u

-----------------------------------------------------------------------------
(***************************************************************************)
(* Lists: the spine that prependHead and popHead move, and the heads on    *)
(* it.                                                                     *)
(***************************************************************************)
(* The keys a list goes down through.                                      *)
SpineKey == {TvmTuple, Second}

(* They alternate.                                                         *)
LEMMA SpineKeyFacts ==
  /\ TvmTuple \in SpineKey /\ Second \in SpineKey /\ First \notin SpineKey /\ Dynamic \notin SpineKey
  /\ Other(TvmTuple) = Second /\ Other(Second) = TvmTuple
  /\ \A k \in SpineKey : Other(k) \in SpineKey /\ Other(Other(k)) = k
  /\ KeysAreKeys => SpineKey \subseteq Key
BY KeyFacts DEF SpineKey, Other, KeysAreKeys

(* Paths on the spine, from the root and from one key below it.            *)
LEMMA OnSpineFacts ==
  ASSUME NEW k \in SpineKey, SpineKey \subseteq Key
  PROVE  /\ OnSpine(<<>>, k)
         /\ \A p \in Path : OnSpine(p, k) /\ p # <<>> => p[1] = k
         /\ \A p \in Path : OnSpine(<<k>> \o p, k) <=> OnSpine(p, Other(k))
         /\ \A p \in Path : OnSpine(p, k) => \A i \in 0 .. Len(p) : OnSpine(Upto(p, i), k)
<1>0. k \in Key
  OBVIOUS
<1>1. OnSpine(<<>>, k)
  BY DEF OnSpine
<1>2. ASSUME NEW p \in Path, OnSpine(p, k), p # <<>>
      PROVE  p[1] = k
  <2>1. 1 \in 1 .. Len(p)
    BY <1>2 DEF Path
  <2>2. 1 % 2 = 1
    OBVIOUS
  <2> QED
    BY <1>2, <2>1, <2>2 DEF OnSpine
<1>3. ASSUME NEW p \in Path
      PROVE  OnSpine(<<k>> \o p, k) <=> OnSpine(p, Other(k))
  <2> DEFINE u == <<k>> \o p
             At(j, key) == IF j % 2 = 1 THEN key ELSE Other(key)
  <2>1. Len(u) = Len(p) + 1 /\ u[1] = k /\ Len(p) \in Nat
    BY <1>0, UnderFacts DEF Path
  <2>2. \A j \in 1 .. Len(p) : u[j + 1] = p[j]
    BY <1>0 DEF Path
  <2>3. \A j \in Nat : (j + 1) % 2 = 1 <=> j % 2 # 1
    OBVIOUS
  <2>4. \A j \in Nat : At(j + 1, k) = At(j, Other(k))
    BY <2>3, SpineKeyFacts
  <2>5. At(1, k) = k
    <3>1. 1 % 2 = 1
      OBVIOUS
    <3> QED
      BY <3>1
  <2>6. OnSpine(u, k) <=> \A j \in 1 .. Len(u) : u[j] = At(j, k)
    BY DEF OnSpine
  <2>7. OnSpine(p, Other(k)) <=> \A j \in 1 .. Len(p) : p[j] = At(j, Other(k))
    BY DEF OnSpine
  <2> HIDE DEF u, At
  <2>8. ASSUME OnSpine(u, k), NEW j \in 1 .. Len(p)
        PROVE  p[j] = At(j, Other(k))
    <3>1. j + 1 \in 1 .. Len(u) /\ j \in Nat
      BY <2>1
    <3> QED
      BY <2>2, <2>4, <2>6, <2>8, <3>1
  <2>9. ASSUME OnSpine(p, Other(k)), NEW j \in 1 .. Len(u)
        PROVE  u[j] = At(j, k)
    <3>1. CASE j = 1
      BY <2>1, <2>5, <3>1
    <3>2. CASE j # 1
      <4> DEFINE i == j - 1
      <4>1. i \in 1 .. Len(p) /\ i \in Nat /\ j = i + 1
        BY <2>1, <3>2
      <4> HIDE DEF i
      <4> QED
        BY <2>2, <2>4, <2>7, <2>9, <4>1
    <3> QED
      BY <3>1, <3>2
  <2> QED
    BY <2>6, <2>7, <2>8, <2>9 DEF u
<1>4. ASSUME NEW p \in Path, OnSpine(p, k), NEW i \in 0 .. Len(p)
      PROVE  OnSpine(Upto(p, i), k)
  <2>1. Len(Upto(p, i)) = i /\ i \in Nat /\ i <= Len(p)
    BY PrefixFacts
  <2>2. \A j \in 1 .. i : Upto(p, i)[j] = p[j] /\ j \in 1 .. Len(p)
    BY <2>1 DEF Upto, Path
  <2> QED
    BY <1>4, <2>1, <2>2 DEF OnSpine
<1> QED
  BY <1>1, <1>2, <1>3, <1>4

(* The paths of the heads, cell by cell.                                   *)
LEMMA HeadOfFacts ==
  ASSUME KeysAreKeys
  PROVE  /\ HeadOf(1) = <<TvmTuple>> \o <<First>>
         /\ \A n \in Nat \ {0} :
              /\ HeadOf(n) \in Path /\ Len(HeadOf(n)) = 2 * n
              /\ Drop(HeadOf(n), 1) \in Path
              /\ HeadOf(n) = <<TvmTuple>> \o Drop(HeadOf(n), 1)
              /\ HeadOf(n + 1) = <<TvmTuple>> \o (<<Second>> \o HeadOf(n))
              /\ \A i \in 0 .. (Len(HeadOf(n)) - 1) : OnSpine(Upto(HeadOf(n), i), TvmTuple)
<1>0. /\ {TvmTuple, First, Second} \subseteq Key
      /\ Other(TvmTuple) = Second
  BY SpineKeyFacts DEF KeysAreKeys
<1> DEFINE At(n, j) == IF j = 2 * n THEN First ELSE IF j % 2 = 1 THEN TvmTuple ELSE Second
<1>1. ASSUME NEW n \in Nat \ {0}
      PROVE  /\ HeadOf(n) = [j \in 1 .. 2 * n |-> At(n, j)]
             /\ HeadOf(n) \in Path /\ Len(HeadOf(n)) = 2 * n
             /\ \A j \in 1 .. 2 * n : HeadOf(n)[j] = At(n, j)
  <2>1. HeadOf(n) = [j \in 1 .. 2 * n |-> At(n, j)]
    BY DEF HeadOf
  <2>2. \A j : At(n, j) \in Key
    BY <1>0
  <2>3. 2 * n \in Nat
    OBVIOUS
  <2> HIDE DEF At
  <2> QED
    BY <2>1, <2>2, <2>3 DEF Path
<1>2. At(1, 1) = TvmTuple /\ At(1, 2) = First /\ 2 * 1 = 2
  <2>1. 1 % 2 = 1 /\ 2 * 1 = 2 /\ 1 # 2
    OBVIOUS
  <2> QED
    BY <2>1
<1>3. HeadOf(1) = <<TvmTuple>> \o <<First>>
  <2> DEFINE t == <<TvmTuple>>
             f == <<First>>
             q == t \o f
             h == HeadOf(1)
  <2>1. t \in Seq(Key) /\ Len(t) = 1 /\ t[1] = TvmTuple /\ f \in Seq(Key) /\ Len(f) = 1 /\ f[1] = First
    BY <1>0
  <2> HIDE DEF t, f
  <2>2. q \in Seq(Key) /\ Len(q) = 2 /\ q[1] = TvmTuple /\ q[2] = First
    <3>1. /\ q \in Seq(Key) /\ Len(q) = Len(t) + Len(f)
          /\ \A i \in 1 .. Len(t) + Len(f) : q[i] = IF i <= Len(t) THEN t[i] ELSE f[i - Len(t)]
      BY <2>1, ConcatProperties, Zenon
    <3>3. 1 \in 1 .. 2 /\ 2 \in 1 .. 2 /\ 1 <= 1 /\ ~(2 <= 1) /\ 2 - 1 = 1 /\ 1 + 1 = 2
      OBVIOUS
    <3> HIDE DEF q
    <3> QED
      BY <2>1, <3>1, <3>3
  <2>3. 1 \in Nat \ {0} /\ 2 * 1 = 2 /\ 1 \in 1 .. 2 /\ 2 \in 1 .. 2
    OBVIOUS
  <2>4. h \in Seq(Key) /\ Len(h) = 2 * 1 /\ \A j \in 1 .. 2 * 1 : h[j] = At(1, j)
    BY <1>1, <2>3 DEF Path
  <2> HIDE DEF At, q, h
  <2>5. h[1] = TvmTuple /\ h[2] = First /\ Len(h) = 2
    BY <1>2, <2>3, <2>4
  <2>6. h = q
    BY <2>2, <2>4, <2>5
  <2> QED
    BY <2>6 DEF h, q, t, f
<1>4. ASSUME NEW n \in Nat \ {0}
      PROVE  Drop(HeadOf(n), 1) \in Path /\ HeadOf(n) = <<TvmTuple>> \o Drop(HeadOf(n), 1)
  <2>1. HeadOf(n) # <<>> /\ 1 \in 1 .. 2 * n
    BY <1>1 DEF Path
  <2>2. At(n, 1) = TvmTuple
    <3>1. 1 % 2 = 1 /\ 1 # 2 * n
      OBVIOUS
    <3> QED
      BY <3>1
  <2> HIDE DEF At
  <2>3. HeadOf(n)[1] = TvmTuple
    BY <1>1, <2>1, <2>2
  <2> QED
    BY <1>1, <2>1, <2>3, PathCases
<1>5. ASSUME NEW n \in Nat \ {0}
      PROVE  HeadOf(n + 1) = <<TvmTuple>> \o (<<Second>> \o HeadOf(n))
  <2> DEFINE m == n + 1
             p == HeadOf(n)
             q == <<TvmTuple>> \o (<<Second>> \o p)
  <2>1. m \in Nat \ {0} /\ 2 * m = 2 * n + 2 /\ 2 * n \in Nat
    OBVIOUS
  <2>2. p \in Seq(Key) /\ Len(p) = 2 * n
    BY <1>1 DEF Path
  <2> HIDE DEF p
  <2>3. /\ q \in Seq(Key) /\ Len(q) = 2 * n + 2
        /\ q[1] = TvmTuple /\ q[2] = Second
        /\ \A j \in 1 .. 2 * n : q[j + 2] = p[j]
    BY <1>0, <2>1, <2>2
  <2>4. At(m, 1) = TvmTuple /\ At(m, 2) = Second
    <3>1. 1 % 2 = 1 /\ 2 % 2 # 1 /\ 1 # 2 * m /\ 2 # 2 * m
      BY <2>1
    <3> HIDE DEF m
    <3> QED
      BY <3>1
  <2>5. \A j \in 1 .. 2 * n : At(m, j + 2) = At(n, j)
    <3>1. \A j \in Nat : (j + 2) % 2 = 1 <=> j % 2 = 1
      OBVIOUS
    <3>2. \A j \in Nat : j + 2 = 2 * m <=> j = 2 * n
      BY <2>1
    <3>3. \A j \in 1 .. 2 * n : j \in Nat
      OBVIOUS
    <3> HIDE DEF m
    <3> QED
      BY <3>1, <3>2, <3>3
  <2>6. HeadOf(m) \in Seq(Key) /\ Len(HeadOf(m)) = 2 * n + 2
        /\ \A j \in 1 .. 2 * n + 2 : HeadOf(m)[j] = At(m, j)
    BY <1>1, <2>1 DEF Path
  <2>7. \A j \in 1 .. 2 * n : p[j] = At(n, j)
    BY <1>1 DEF p
  <2> HIDE DEF At, m, q
  <2>8. ASSUME NEW j \in 1 .. 2 * n + 2
        PROVE  HeadOf(m)[j] = q[j]
    <3>1. CASE j = 1
      BY <2>3, <2>4, <2>6, <3>1
    <3>2. CASE j = 2
      BY <2>3, <2>4, <2>6, <3>2
    <3>3. CASE j # 1 /\ j # 2
      <4> DEFINE i == j - 2
      <4>1. i \in 1 .. 2 * n /\ j = i + 2
        BY <2>1, <3>3
      <4> HIDE DEF i
      <4> QED
        BY <2>3, <2>5, <2>6, <2>7, <4>1
    <3> QED
      BY <3>1, <3>2, <3>3
  <2>9. HeadOf(m) = q
    BY <2>3, <2>6, <2>8
  <2> QED
    BY <2>9 DEF m, q, p
<1>6. ASSUME NEW n \in Nat \ {0}, NEW i \in 0 .. (Len(HeadOf(n)) - 1)
      PROVE  OnSpine(Upto(HeadOf(n), i), TvmTuple)
  <2>1. /\ i \in Nat /\ i < 2 * n /\ i <= Len(HeadOf(n)) /\ i \in 0 .. Len(HeadOf(n))
        /\ HeadOf(n) \in Path
    <3>1. Len(HeadOf(n)) = 2 * n /\ HeadOf(n) \in Path
      BY <1>1
    <3>2. \A m \in Nat : \A j \in 0 .. (m - 1) : j \in Nat /\ j < m /\ j <= m /\ j \in 0 .. m
      OBVIOUS
    <3>3. 2 * n \in Nat
      OBVIOUS
    <3> QED
      BY <3>1, <3>2, <3>3
  <2>2. Len(Upto(HeadOf(n), i)) = i
    BY <2>1, PrefixFacts
  <2>3. ASSUME NEW j \in 1 .. i
        PROVE  Upto(HeadOf(n), i)[j] = IF j % 2 = 1 THEN TvmTuple ELSE Second
    <3>1. j \in 1 .. 2 * n /\ j # 2 * n
      BY <2>1
    <3>2. Upto(HeadOf(n), i)[j] = HeadOf(n)[j]
      BY <2>1 DEF Upto, Path
    <3>3. HeadOf(n)[j] = At(n, j)
      BY <1>1, <3>1
    <3> QED
      BY <3>1, <3>2, <3>3
  <2> QED
    BY <1>0, <2>2, <2>3 DEF OnSpine
<1> HIDE DEF At
<1> QED
  BY <1>1, <1>3, <1>4, <1>5, <1>6

-----------------------------------------------------------------------------
(* A leaf with no targets has a plain spine and, knowing none of its       *)
(* members, covers any head.                                               *)
LEMMA LeafSpine ==
  ASSUME NEW k \in SpineKey, NEW label \in ViewLabel, ~label.bottom, label.targets = {}
  PROVE  /\ SpineIsPlain(Leaf(label), k)
         /\ label = UnknownLabel => \A p \in Path, c \in Callable : HeadIsCovered(Leaf(label), p, c)
<1> DEFINE v == Leaf(label)
<1>1. DOMAIN v = {<<>>} /\ v[<<>>] = label
  BY LeafFacts
<1> HIDE DEF v
<1>2. \A p \in DOMAIN v : ~v[p].bottom /\ v[p].targets = {} /\ Append(p, Dynamic) \notin DOMAIN v
  <2>1. Append(<<>>, Dynamic) # <<>>
    OBVIOUS
  <2> QED
    BY <1>1, <2>1
<1>3. SpineIsPlain(v, k)
  BY <1>2 DEF SpineIsPlain
<1>4. ASSUME label = UnknownLabel, NEW p \in Path, NEW c \in Callable
      PROVE  HeadIsCovered(v, p, c)
  <2>1. Covers(v[<<>>], c) /\ ~v[<<>>].membersComplete
    BY <1>1, <1>4, CoversPlain, LabelFacts
  <2>2. ASSUME NEW i \in 0 .. (Len(p) - 1), Upto(p, i) \in DOMAIN v
        PROVE  ~v[Upto(p, i)].membersComplete
    BY <1>1, <2>1, <2>2
  <2> QED
    BY <1>1, <2>1, <2>2 DEF HeadIsCovered
<1> QED
  BY <1>3, <1>4 DEF v

(* What a value has under a key whose trie is a value of its own.          *)
LEMMA SpineBelow ==
  ASSUME NEW u, NEW w, NEW k \in SpineKey, SpineKey \subseteq Key,
         DOMAIN u \subseteq Path, DOMAIN w \subseteq Path, <<>> \in DOMAIN u,
         \A q \in Path : /\ <<k>> \o q \in DOMAIN u <=> q \in DOMAIN w
                         /\ q \in DOMAIN w => u[<<k>> \o q] = w[q]
  PROVE  /\ SpineIsPlain(u, k) => SpineIsPlain(w, Other(k))
         /\ SpineIsPlain(w, Other(k)) /\ ~u[<<>>].bottom /\ u[<<>>].targets = {}
              /\ <<Dynamic>> \notin DOMAIN u => SpineIsPlain(u, k)
<1>0. k \in Key
  OBVIOUS
<1>1. ASSUME NEW q \in Path
      PROVE  /\ <<k>> \o q \in Path
             /\ OnSpine(<<k>> \o q, k) <=> OnSpine(q, Other(k))
             /\ Dynamic \in Key => Append(<<k>> \o q, Dynamic) = <<k>> \o Append(q, Dynamic)
             /\ Dynamic \in Key => Append(q, Dynamic) \in Path
  <2>1. Dynamic \in Key => Append(<<k>> \o q, Dynamic) = <<k>> \o Append(q, Dynamic)
    BY <1>0 DEF Path
  <2>2. Dynamic \in Key => Append(q, Dynamic) \in Path
    BY DEF Path
  <2> QED
    BY <1>0, <2>1, <2>2, OnSpineFacts, UnderFacts
<1>2. ASSUME SpineIsPlain(u, k), NEW q \in DOMAIN w, OnSpine(q, Other(k))
      PROVE  ~w[q].bottom /\ w[q].targets = {} /\ Append(q, Dynamic) \notin DOMAIN w
  <2>1. q \in Path /\ <<k>> \o q \in DOMAIN u /\ u[<<k>> \o q] = w[q] /\ OnSpine(<<k>> \o q, k)
    BY <1>1, <1>2
  <2>2. ~w[q].bottom /\ w[q].targets = {} /\ Append(<<k>> \o q, Dynamic) \notin DOMAIN u
    BY <1>2, <2>1 DEF SpineIsPlain
  <2>3. ASSUME Append(q, Dynamic) \in DOMAIN w
        PROVE  FALSE
    <3>1. Dynamic \in Key /\ Append(q, Dynamic) \in Path
      <4>1. Append(q, Dynamic) \in Seq(Key) /\ q \in Seq(Key)
        BY <2>1, <2>3 DEF Path
      <4>2. Append(q, Dynamic)[Len(q) + 1] = Dynamic /\ Len(q) + 1 \in 1 .. Len(Append(q, Dynamic))
        BY <4>1
      <4>3. Dynamic \in Key
        BY <4>1, <4>2
      <4> QED
        BY <4>1, <4>3 DEF Path
    <3>2. <<k>> \o Append(q, Dynamic) \in DOMAIN u
      BY <2>3, <3>1
    <3> QED
      BY <1>1, <2>1, <2>2, <3>1, <3>2
  <2> QED
    BY <2>2, <2>3
<1>3. ASSUME SpineIsPlain(w, Other(k)), ~u[<<>>].bottom, u[<<>>].targets = {},
             <<Dynamic>> \notin DOMAIN u, NEW p \in DOMAIN u, OnSpine(p, k)
      PROVE  ~u[p].bottom /\ u[p].targets = {} /\ Append(p, Dynamic) \notin DOMAIN u
  <2>1. CASE p = <<>>
    <3>1. Append(<<>>, Dynamic) = <<Dynamic>>
      OBVIOUS
    <3> QED
      BY <1>3, <2>1, <3>1
  <2>2. CASE p # <<>>
    <3> DEFINE q == Drop(p, 1)
    <3>1. p \in Path /\ q \in Path /\ p = <<k>> \o q
      BY <1>3, <2>2, OnSpineFacts, PathCases
    <3> HIDE DEF q
    <3>2. q \in DOMAIN w /\ OnSpine(q, Other(k)) /\ u[p] = w[q]
      BY <1>1, <1>3, <3>1
    <3>3. ~w[q].bottom /\ w[q].targets = {} /\ Append(q, Dynamic) \notin DOMAIN w
      BY <1>3, <3>2 DEF SpineIsPlain
    <3>4. ASSUME Append(p, Dynamic) \in DOMAIN u
          PROVE  FALSE
      <4>1. Dynamic \in Key
        <5>1. Append(p, Dynamic) \in Seq(Key) /\ p \in Seq(Key)
          BY <3>1, <3>4 DEF Path
        <5>2. Append(p, Dynamic)[Len(p) + 1] = Dynamic /\ Len(p) + 1 \in 1 .. Len(Append(p, Dynamic))
          BY <5>1
        <5> QED
          BY <5>1, <5>2
      <4>2. Append(p, Dynamic) = <<k>> \o Append(q, Dynamic) /\ Append(q, Dynamic) \in Path
        BY <1>1, <3>1, <4>1
      <4> QED
        BY <3>3, <3>4, <4>2
    <3> QED
      BY <3>2, <3>3, <3>4
  <2> QED
    BY <2>1, <2>2
<1>4. SpineIsPlain(u, k) => SpineIsPlain(w, Other(k))
  BY <1>2 DEF SpineIsPlain
<1>5. SpineIsPlain(w, Other(k)) /\ ~u[<<>>].bottom /\ u[<<>>].targets = {}
        /\ <<Dynamic>> \notin DOMAIN u => SpineIsPlain(u, k)
  <2> SUFFICES ASSUME SpineIsPlain(w, Other(k)), ~u[<<>>].bottom, u[<<>>].targets = {},
                      <<Dynamic>> \notin DOMAIN u
               PROVE  SpineIsPlain(u, k)
    OBVIOUS
  <2> QED
    BY <1>3 DEF SpineIsPlain
<1> QED
  BY <1>4, <1>5

(* A head is covered from the root as it is covered from the member its    *)
(* path goes through.                                                      *)
LEMMA HeadBelow ==
  ASSUME NEW u, NEW w, NEW k \in Key, <<>> \in DOMAIN u, <<>> \in DOMAIN w,
         \A q \in Path : /\ <<k>> \o q \in DOMAIN u <=> q \in DOMAIN w
                         /\ q \in DOMAIN w => u[<<k>> \o q] = w[q],
         NEW p \in Path, NEW c
  PROVE  HeadIsCovered(u, <<k>> \o p, c) <=> HeadIsCovered(w, p, c)
<1> DEFINE r == <<k>> \o p
<1>1. /\ r \in Path /\ Len(r) = Len(p) + 1 /\ Len(p) \in Nat
      /\ \A i \in 1 .. Len(p) + 1 : Upto(r, i) = <<k>> \o Upto(p, i - 1)
      /\ Upto(r, 0) = <<>> /\ Upto(p, 0) = <<>>
  <2>1. Len(p) \in Nat
    BY DEF Path
  <2>2. Upto(p, 0) = <<>>
    BY UptoZero
  <2> QED
    BY <2>1, <2>2, UnderFacts
<1>2. \A i \in 0 .. Len(p) : Upto(p, i) \in Path
  BY PrefixFacts
<1>3. <<k>> \o <<>> = <<k>> /\ <<>> \in Path
  BY OneKey
<1>4. r \in DOMAIN u <=> p \in DOMAIN w
  OBVIOUS
<1>5. r \in DOMAIN u => u[r] = w[p]
  OBVIOUS
<1> HIDE DEF r
<1> DEFINE Ends(v, s, i) == Upto(s, i) \in DOMAIN v /\ Upto(s, i + 1) \notin DOMAIN v
           Open(v, s, i) == ~v[Upto(s, i)].membersComplete
<1>6. ASSUME NEW i \in 0 .. (Len(p) - 1)
      PROVE  /\ Ends(u, r, i + 1) <=> Ends(w, p, i)
             /\ Ends(w, p, i) => (Open(u, r, i + 1) <=> Open(w, p, i))
  <2>1. /\ i \in Nat /\ i + 1 \in 1 .. Len(p) + 1 /\ (i + 1) + 1 \in 1 .. Len(p) + 1
        /\ (i + 1) - 1 = i /\ ((i + 1) + 1) - 1 = i + 1 /\ i \in 0 .. Len(p) /\ i + 1 \in 0 .. Len(p)
    <3>1. \A n \in Nat : \A j \in 0 .. (n - 1) :
            /\ j \in Nat /\ j + 1 \in 1 .. n + 1 /\ (j + 1) + 1 \in 1 .. n + 1
            /\ (j + 1) - 1 = j /\ ((j + 1) + 1) - 1 = j + 1 /\ j \in 0 .. n /\ j + 1 \in 0 .. n
      OBVIOUS
    <3> QED
      BY <1>1, <3>1
  <2>2. Upto(r, i + 1) = <<k>> \o Upto(p, i) /\ Upto(r, (i + 1) + 1) = <<k>> \o Upto(p, i + 1)
    BY <1>1, <2>1
  <2>3. Upto(p, i) \in Path /\ Upto(p, i + 1) \in Path
    BY <1>2, <2>1
  <2> QED
    BY <2>2, <2>3
<1>7. ~Ends(u, r, 0)
  <2>1. Upto(r, 0 + 1) = <<k>> \o <<>> /\ 0 + 1 = 1
    <3>1. 0 + 1 = 1 /\ 1 \in 1 .. Len(p) + 1 /\ 1 - 1 = 0
      BY <1>1
    <3> QED
      BY <1>1, <3>1
  <2> QED
    BY <1>3, <2>1
<1>8. (\A i \in 0 .. (Len(r) - 1) : Ends(u, r, i) => Open(u, r, i))
        <=> \A i \in 0 .. (Len(p) - 1) : Ends(w, p, i) => Open(w, p, i)
  <2> HIDE DEF Ends, Open
  <2>1. ASSUME \A i \in 0 .. (Len(r) - 1) : Ends(u, r, i) => Open(u, r, i),
               NEW i \in 0 .. (Len(p) - 1), Ends(w, p, i)
        PROVE  Open(w, p, i)
    <3>1. i + 1 \in 0 .. (Len(r) - 1)
      BY <1>1
    <3> QED
      BY <1>6, <2>1, <3>1
  <2>2. ASSUME \A i \in 0 .. (Len(p) - 1) : Ends(w, p, i) => Open(w, p, i),
               NEW i \in 0 .. (Len(r) - 1), Ends(u, r, i)
        PROVE  Open(u, r, i)
    <3> DEFINE j == i - 1
    <3>1. i # 0
      BY <1>7, <2>2
    <3>2. j \in 0 .. (Len(p) - 1) /\ i = j + 1
      BY <1>1, <3>1
    <3> HIDE DEF j
    <3> QED
      BY <1>6, <2>2, <3>2
  <2> QED
    BY <2>1, <2>2
<1>9. HeadIsCovered(u, r, c) <=>
        IF r \in DOMAIN u THEN Covers(u[r], c)
        ELSE \A i \in 0 .. (Len(r) - 1) : Ends(u, r, i) => Open(u, r, i)
  BY DEF HeadIsCovered
<1>10. HeadIsCovered(w, p, c) <=>
        IF p \in DOMAIN w THEN Covers(w[p], c)
        ELSE \A i \in 0 .. (Len(p) - 1) : Ends(w, p, i) => Open(w, p, i)
  BY DEF HeadIsCovered
<1> HIDE DEF Ends, Open
<1> QED
  BY <1>4, <1>5, <1>8, <1>9, <1>10 DEF r

-----------------------------------------------------------------------------
(* One step down the spine: the member is a plain value again, with the    *)
(* rest of the spine and of the heads.                                     *)
LEMMA SpineMember ==
  ASSUME KeysAreKeys, NEW v \in LiveValue, NEW k \in SpineKey, SpineIsPlain(v, k)
  PROVE  /\ Member(v, k) \in LiveValue /\ SpineIsPlain(Member(v, k), Other(k))
         /\ \A p \in Path, c \in Callable :
              HeadIsCovered(v, <<k>> \o p, c) => HeadIsCovered(Member(v, k), p, c)
<1>0. k \in Key /\ SpineKey \subseteq Key /\ Dynamic \in Key /\ Other(k) \in SpineKey
  BY SpineKeyFacts DEF KeysAreKeys
<1>1. /\ v \in NormalValue /\ IsFiniteSet(DOMAIN v) /\ ~v[<<>>].bottom /\ ~IsBottom(v)
      /\ DOMAIN v \subseteq Path /\ <<>> \in DOMAIN v
      /\ \A p \in DOMAIN v, i \in Nat : i <= Len(p) => Upto(p, i) \in DOMAIN v
      /\ \A p \in DOMAIN v : v[p] = View(v, p)
  BY NormalFacts DEF LiveValue, FiniteValue, IsBottom
<1>2. <<Dynamic>> \notin DOMAIN v
  <2>1. Append(<<>>, Dynamic) = <<Dynamic>>
    OBVIOUS
  <2> QED
    <3>1. OnSpine(<<>>, k)
      BY <1>0, OnSpineFacts
    <3> QED
      BY <1>1, <2>1, <3>1 DEF SpineIsPlain
<1>3. CASE <<k>> \in DOMAIN v
  <2> DEFINE w == Sub(v, <<k>>)
  <2>1. Member(v, k) = w
    BY <1>1, <1>2, <1>3 DEF Member
  <2>2. /\ w \in NormalValue /\ w \in FiniteValue
        /\ \A q \in Path : View(w, q) = View(v, <<k>> \o q)
        /\ \A q \in Path : q \in DOMAIN w <=> <<k>> \o q \in DOMAIN v
    BY <1>0, <1>1, <1>3, SubFacts, SubFinite
  <2> HIDE DEF w
  <2>3. DOMAIN w \subseteq Path /\ <<>> \in DOMAIN w /\ \A p \in DOMAIN w : w[p] = View(w, p)
    BY <2>2, NormalFacts
  <2>4. \A q \in Path : /\ <<k>> \o q \in DOMAIN v <=> q \in DOMAIN w
                        /\ q \in DOMAIN w => v[<<k>> \o q] = w[q]
    BY <1>1, <2>2, <2>3
  <2>5. ~IsBottom(w)
    <3>1. OnSpine(<<k>>, k)
      <4>1. <<k>> \o <<>> = <<k>> /\ <<>> \in Path
        BY <1>0, OneKey
      <4>2. OnSpine(<<>>, Other(k))
        BY <1>0, OnSpineFacts
      <4>3. OnSpine(<<k>> \o <<>>, k)
        BY <1>0, <4>1, <4>2, OnSpineFacts
      <4> QED
        BY <4>1, <4>3
    <3>2. ~v[<<k>>].bottom
      BY <1>3, <3>1 DEF SpineIsPlain
    <3>3. w[<<>>] = v[<<k>>]
      <4>1. <<k>> \o <<>> = <<k>> /\ <<>> \in Path
        BY <1>0, OneKey
      <4> QED
        BY <2>3, <2>4, <4>1
    <3> QED
      BY <3>2, <3>3 DEF IsBottom
  <2>6. SpineIsPlain(w, Other(k))
    BY <1>0, <1>1, <2>3, <2>4, SpineBelow
  <2>7. \A p \in Path, c \in Callable : HeadIsCovered(v, <<k>> \o p, c) => HeadIsCovered(w, p, c)
    BY <1>0, <1>1, <2>3, <2>4, HeadBelow
  <2> QED
    BY <2>1, <2>2, <2>5, <2>6, <2>7 DEF LiveValue
<1>4. CASE <<k>> \notin DOMAIN v
  <2> DEFINE label == IF v[<<>>].membersComplete THEN NonCallableLabel ELSE UnknownLabel
             w == Leaf(label)
  <2>1. Member(v, k) = w
    BY <1>1, <1>2, <1>4 DEF Member, Placeholder, NonCallable, Unknown
  <2>2. label \in ViewLabel /\ ~label.bottom /\ label.targets = {}
    BY LabelFacts
  <2> HIDE DEF label
  <2>3. w \in LiveValue
    BY <2>2, LeafFacts DEF LiveValue, FiniteValue, IsBottom
  <2>4. SpineIsPlain(w, Other(k))
    BY <1>0, <2>2, LeafSpine
  <2>5. ASSUME NEW p \in Path, NEW c \in Callable, HeadIsCovered(v, <<k>> \o p, c)
        PROVE  HeadIsCovered(w, p, c)
    <3> DEFINE r == <<k>> \o p
    <3>1. r \in Path /\ Upto(r, 0) = <<>> /\ Upto(r, 1) = <<k>> /\ Len(r) \in Nat /\ Len(r) >= 1
      <4>1. r \in Path /\ Len(r) = Len(p) + 1 /\ Upto(r, 0) = <<>>
        BY <1>0, UnderFacts
      <4>2. Len(p) \in Nat
        BY DEF Path
      <4>3. Upto(r, 1) = <<k>> \o Upto(p, 0)
        <5>1. 1 \in 1 .. Len(p) + 1 /\ 1 - 1 = 0
          <6>1. \A n \in Nat : 1 \in 1 .. n + 1 /\ 1 - 1 = 0
            OBVIOUS
          <6> QED
            BY <4>2, <6>1
        <5>2. \A i \in 1 .. Len(p) + 1 : Upto(r, i) = <<k>> \o Upto(p, i - 1)
          BY <1>0, UnderFacts
        <5> HIDE DEF r
        <5> QED
          BY <5>1, <5>2
      <4> HIDE DEF r
      <4> QED
        BY <1>0, <4>1, <4>2, <4>3, OneKey, UptoZero
    <3> HIDE DEF r
    <3>2. r \notin DOMAIN v
      BY <1>1, <1>4, <3>1
    <3>3. 0 \in 0 .. (Len(r) - 1) /\ 0 + 1 = 1
      BY <3>1
    <3>4. ~v[<<>>].membersComplete
      <4>1. HeadIsCovered(v, r, c)
        BY <2>5 DEF r
      <4> QED
        BY <1>1, <1>4, <3>1, <3>2, <3>3, <4>1 DEF HeadIsCovered
    <3>5. label = UnknownLabel
      BY <3>4 DEF label
    <3> QED
      BY <1>0, <2>2, <3>5, LeafSpine
  <2> QED
    BY <2>1, <2>3, <2>4, <2>5
<1> QED
  BY <1>3, <1>4

(* The last step, from the pair to its head.                               *)
LEMMA HeadMember ==
  ASSUME KeysAreKeys, NEW v \in LiveValue, NEW c, HeadIsCovered(v, <<First>>, c)
  PROVE  Describes(Member(v, First), c)
<1>0. First \in Key /\ Dynamic \in Key
  BY DEF KeysAreKeys
<1>1. Covers(LabelOr(v, <<First>>), c)
  <2>1. CASE <<First>> \in DOMAIN v
    BY <2>1 DEF HeadIsCovered, LabelOr
  <2>2. CASE <<First>> \notin DOMAIN v
    <3>1. /\ Upto(<<First>>, 0) = <<>> /\ Upto(<<First>>, 1) = <<First>> /\ Len(<<First>>) = 1
          /\ Parent(<<First>>) = <<>>
      BY <1>0, OneKey
    <3>2. <<>> \in DOMAIN v
      BY <1>0, EntryView
    <3>3. 0 \in 0 .. (1 - 1) /\ 0 + 1 = 1
      OBVIOUS
    <3>4. ~v[<<>>].membersComplete
      BY <2>2, <3>1, <3>2, <3>3 DEF HeadIsCovered
    <3> QED
      BY <2>2, <3>1, <3>4, CoversPlain DEF LabelOr
  <2> QED
    BY <2>1, <2>2
<1> QED
  BY <1>0, <1>1, MemberCovers, CoversDescribes DEF EntryIsCovered

-----------------------------------------------------------------------------
(* Writing below a key of the spine puts the spine of what is written      *)
(* under it, and its heads.                                                *)
LEMMA SpinePut ==
  ASSUME KeysAreKeys, NEW v \in LiveValue, NEW k \in SpineKey, SpineIsPlain(v, k),
         NEW w \in LiveValue, SpineIsPlain(w, Other(k))
  PROVE  /\ Put(v, <<k>>, w) \in LiveValue /\ SpineIsPlain(Put(v, <<k>>, w), k)
         /\ Put(v, <<k>>, w)[<<>>] = v[<<>>]
<1> DEFINE u == Put(v, <<k>>, w)
<1>0. /\ k \in Key /\ SpineKey \subseteq Key /\ Dynamic \in Key /\ k # Dynamic /\ <<>> \in Path
      /\ <<Dynamic>> \in Path /\ <<Dynamic>> # <<>> /\ <<Dynamic>>[1] = Dynamic
  BY SpineKeyFacts, OneKey DEF KeysAreKeys
<1>1. v \in NormalValue /\ w \in NormalValue /\ ~IsBottom(v) /\ w \in FiniteValue
  BY DEF LiveValue, FiniteValue
<1>2. /\ u \in NormalValue /\ u \in LiveValue /\ u[<<>>] = v[<<>>]
      /\ \A q \in Path : View(u, <<k>> \o q) = View(w, q)
      /\ \A p \in Path : p = <<>> \/ p[1] # k =>
           View(u, p) = View(v, p) /\ (p \in DOMAIN u <=> p \in DOMAIN v)
      /\ \A q \in Path : <<k>> \o q \in DOMAIN u <=> q \in DOMAIN w
  BY <1>0, <1>1, PutFacts, PutFinite
<1> HIDE DEF u
<1>3. /\ DOMAIN u \subseteq Path /\ <<>> \in DOMAIN u /\ \A p \in DOMAIN u : u[p] = View(u, p)
      /\ DOMAIN w \subseteq Path /\ \A p \in DOMAIN w : w[p] = View(w, p)
      /\ <<>> \in DOMAIN v
  BY <1>1, <1>2, NormalFacts
<1>4. \A q \in Path : /\ <<k>> \o q \in DOMAIN u <=> q \in DOMAIN w
                      /\ q \in DOMAIN w => u[<<k>> \o q] = w[q]
  BY <1>2, <1>3
<1>5. ~v[<<>>].bottom /\ v[<<>>].targets = {} /\ <<Dynamic>> \notin DOMAIN v
  <2>1. Append(<<>>, Dynamic) = <<Dynamic>>
    OBVIOUS
  <2>2. OnSpine(<<>>, k)
    BY <1>0, OnSpineFacts
  <2> QED
    BY <1>3, <2>1, <2>2 DEF SpineIsPlain
<1>6. <<Dynamic>> \notin DOMAIN u
  BY <1>0, <1>2, <1>5
<1>7. SpineIsPlain(u, k)
  BY <1>0, <1>2, <1>3, <1>4, <1>5, <1>6, SpineBelow
<1> QED
  BY <1>2, <1>7 DEF u

(* After a write at a member, a head below that member is covered as the   *)
(* written value covers it.                                                *)
LEMMA HeadPut ==
  ASSUME NEW v \in LiveValue, NEW k \in Key, NEW w \in FiniteValue,
         NEW p \in Path, NEW c, HeadIsCovered(w, p, c)
  PROVE  HeadIsCovered(Put(v, <<k>>, w), <<k>> \o p, c)
<1> DEFINE u == Put(v, <<k>>, w)
<1>1. v \in NormalValue /\ w \in NormalValue /\ ~IsBottom(v)
  BY DEF LiveValue, FiniteValue
<1>2. /\ u \in NormalValue
      /\ \A q \in Path : View(u, <<k>> \o q) = View(w, q)
      /\ \A q \in Path : <<k>> \o q \in DOMAIN u <=> q \in DOMAIN w
  BY <1>1, PutFacts
<1> HIDE DEF u
<1>3. /\ <<>> \in DOMAIN u /\ \A q \in DOMAIN u : u[q] = View(u, q)
      /\ <<>> \in DOMAIN w /\ \A q \in DOMAIN w : w[q] = View(w, q)
  BY <1>1, <1>2, NormalFacts
<1>4. \A q \in Path : /\ <<k>> \o q \in DOMAIN u <=> q \in DOMAIN w
                      /\ q \in DOMAIN w => u[<<k>> \o q] = w[q]
  BY <1>2, <1>3
<1>5. HeadIsCovered(u, <<k>> \o p, c)
  BY <1>3, <1>4, HeadBelow
<1> QED
  BY <1>5 DEF u

(* Writing elsewhere changes neither.                                      *)
LEMMA PutElsewhere ==
  ASSUME KeysAreKeys, NEW v \in LiveValue, NEW j \in Key \ {Dynamic}, NEW w \in FiniteValue
  PROVE  /\ \A k \in SpineKey \ {j} : SpineIsPlain(v, k) => SpineIsPlain(Put(v, <<j>>, w), k)
         /\ \A k \in Key \ {j} : \A p \in Path, c \in Callable :
              HeadIsCovered(v, <<k>> \o p, c) => HeadIsCovered(Put(v, <<j>>, w), <<k>> \o p, c)
<1> DEFINE u == Put(v, <<j>>, w)
<1>0. SpineKey \subseteq Key /\ Dynamic \in Key /\ j # Dynamic
  BY SpineKeyFacts DEF KeysAreKeys
<1>1. v \in NormalValue /\ w \in NormalValue /\ ~IsBottom(v)
  BY DEF LiveValue, FiniteValue
<1>2. /\ u \in NormalValue
      /\ \A p \in Path : p = <<>> \/ p[1] # j =>
           View(u, p) = View(v, p) /\ (p \in DOMAIN u <=> p \in DOMAIN v)
  BY <1>1, PutFacts
<1> HIDE DEF u
<1>3. /\ DOMAIN u \subseteq Path /\ \A p \in DOMAIN u : u[p] = View(u, p)
      /\ \A p \in DOMAIN v : v[p] = View(v, p)
  BY <1>1, <1>2, NormalFacts
<1>4. \A p \in Path : p = <<>> \/ p[1] # j =>
        (p \in DOMAIN u <=> p \in DOMAIN v) /\ (p \in DOMAIN v => u[p] = v[p])
  BY <1>2, <1>3
<1>5. ASSUME NEW k \in SpineKey \ {j}, SpineIsPlain(v, k)
      PROVE  SpineIsPlain(u, k)
  <2> SUFFICES ASSUME NEW p \in DOMAIN u, OnSpine(p, k)
               PROVE  ~u[p].bottom /\ u[p].targets = {} /\ Append(p, Dynamic) \notin DOMAIN u
    BY DEF SpineIsPlain
  <2>1. p \in Path /\ (p = <<>> \/ p[1] # j)
    BY <1>0, <1>3, OnSpineFacts
  <2>2. p \in DOMAIN v /\ u[p] = v[p]
    BY <1>4, <2>1
  <2>3. ~v[p].bottom /\ v[p].targets = {} /\ Append(p, Dynamic) \notin DOMAIN v
    BY <1>5, <2>2 DEF SpineIsPlain
  <2>4. Append(p, Dynamic) \in Path /\ Append(p, Dynamic)[1] # j
    <3>1. p \in Seq(Key) /\ Append(p, Dynamic) \in Seq(Key)
      BY <1>0, <2>1 DEF Path
    <3>2. CASE p = <<>>
      <4>1. Append(<<>>, Dynamic) = <<Dynamic>> /\ <<Dynamic>>[1] = Dynamic
        OBVIOUS
      <4> QED
        BY <1>0, <3>1, <3>2, <4>1 DEF Path
    <3>3. CASE p # <<>>
      <4>1. Append(p, Dynamic)[1] = p[1]
        BY <3>1, <3>3
      <4> QED
        BY <2>1, <3>1, <3>3, <4>1 DEF Path
    <3> QED
      BY <3>2, <3>3
  <2> QED
    BY <1>4, <2>2, <2>3, <2>4
<1>6. ASSUME NEW k \in Key \ {j}, NEW p \in Path, NEW c \in Callable,
             HeadIsCovered(v, <<k>> \o p, c)
      PROVE  HeadIsCovered(u, <<k>> \o p, c)
  <2> DEFINE r == <<k>> \o p
  <2>1. r \in Path /\ r # <<>> /\ r[1] = k /\ Len(r) \in Nat
    <3>1. r \in Path /\ r # <<>> /\ r[1] = k
      BY UnderFacts
    <3> HIDE DEF r
    <3> QED
      BY <3>1 DEF Path
  <2> HIDE DEF r
  <2>2. ASSUME NEW i \in 0 .. Len(r)
        PROVE  Upto(r, i) \in Path /\ (Upto(r, i) = <<>> \/ Upto(r, i)[1] # j)
    <3>1. Upto(r, i) \in Path
      BY <2>1, PrefixFacts
    <3>2. CASE i = 0
      BY <3>1, <3>2, UptoZero
    <3>3. CASE i # 0
      <4>1. 1 \in 1 .. i /\ r \in Seq(Key) /\ i <= Len(r)
        BY <2>1, <3>3 DEF Path
      <4>2. Upto(r, i)[1] = r[1]
        BY <4>1 DEF Upto
      <4> QED
        BY <2>1, <3>1, <4>2
    <3> QED
      BY <3>2, <3>3
  <2>3. \A i \in 0 .. Len(r) : /\ Upto(r, i) \in DOMAIN u <=> Upto(r, i) \in DOMAIN v
                               /\ Upto(r, i) \in DOMAIN v => u[Upto(r, i)] = v[Upto(r, i)]
    BY <1>4, <2>2
  <2>4. /\ r \in DOMAIN u <=> r \in DOMAIN v
        /\ r \in DOMAIN v => u[r] = v[r]
    BY <1>4, <2>1
  <2>5. \A i \in 0 .. (Len(r) - 1) : i \in 0 .. Len(r) /\ i + 1 \in 0 .. Len(r)
    <3>1. \A n \in Nat : \A i \in 0 .. (n - 1) : i \in 0 .. n /\ i + 1 \in 0 .. n
      OBVIOUS
    <3> QED
      BY <2>1, <3>1
  <2>6. HeadIsCovered(v, r, c)
    BY <1>6 DEF r
  <2>7. HeadIsCovered(u, r, c)
    BY <2>3, <2>4, <2>5, <2>6 DEF HeadIsCovered
  <2> QED
    BY <2>7 DEF r
<1> QED
  BY <1>5, <1>6 DEF u

-----------------------------------------------------------------------------
(* The tail of a list is a list, whose heads are the heads but the first.  *)
LEMMA TailCovers ==
  ASSUME KeysAreKeys, NEW v \in LiveValue, SpineIsPlain(v, TvmTuple)
  PROVE  /\ ListTail(v) \in LiveValue /\ SpineIsPlain(ListTail(v), TvmTuple)
         /\ \A i \in Nat \ {0}, c \in Callable :
              HeadIsCovered(v, HeadOf(i + 1), c) => HeadIsCovered(ListTail(v), HeadOf(i), c)
<1> DEFINE pair == Member(v, TvmTuple)
           tail == Member(pair, Second)
<1>0. /\ TvmTuple \in SpineKey /\ Second \in SpineKey
      /\ Other(TvmTuple) = Second /\ Other(Second) = TvmTuple /\ Second \in Key
  BY SpineKeyFacts DEF KeysAreKeys
<1>1. /\ pair \in LiveValue /\ SpineIsPlain(pair, Second)
      /\ \A p \in Path, c \in Callable :
           HeadIsCovered(v, <<TvmTuple>> \o p, c) => HeadIsCovered(pair, p, c)
  BY <1>0, SpineMember
<1> HIDE DEF pair
<1>2. /\ tail \in LiveValue /\ SpineIsPlain(tail, TvmTuple)
      /\ \A p \in Path, c \in Callable :
           HeadIsCovered(pair, <<Second>> \o p, c) => HeadIsCovered(tail, p, c)
  BY <1>0, <1>1, SpineMember
<1>3. ListTail(v) = tail
  BY DEF ListTail, pair
<1> HIDE DEF tail
<1>4. ASSUME NEW i \in Nat \ {0}, NEW c \in Callable, HeadIsCovered(v, HeadOf(i + 1), c)
      PROVE  HeadIsCovered(tail, HeadOf(i), c)
  <2>1. HeadOf(i) \in Path /\ HeadOf(i + 1) = <<TvmTuple>> \o (<<Second>> \o HeadOf(i))
    BY HeadOfFacts
  <2>2. <<Second>> \o HeadOf(i) \in Path
    BY <1>0, <2>1, UnderFacts
  <2> QED
    BY <1>1, <1>2, <1>4, <2>1, <2>2
<1> QED
  BY <1>2, <1>3, <1>4

(* The head of a list covers its first element.                            *)
LEMMA HeadCovers ==
  ASSUME KeysAreKeys, NEW v \in LiveValue, SpineIsPlain(v, TvmTuple),
         NEW c \in Callable, HeadIsCovered(v, HeadOf(1), c)
  PROVE  Describes(ListHead(v), c)
<1> DEFINE pair == Member(v, TvmTuple)
<1>0. TvmTuple \in SpineKey /\ First \in Key
  BY SpineKeyFacts DEF KeysAreKeys
<1>1. HeadOf(1) = <<TvmTuple>> \o <<First>> /\ <<First>> \in Path
  BY <1>0, HeadOfFacts, OneKey
<1>2. pair \in LiveValue /\ HeadIsCovered(pair, <<First>>, c)
  BY <1>0, <1>1, SpineMember
<1> HIDE DEF pair
<1>3. Describes(Member(pair, First), c)
  BY <1>2, HeadMember
<1> QED
  BY <1>3 DEF ListHead, pair

(* Prepending covers the new head and moves every other one a cell down.   *)
LEMMA PrependCovers ==
  ASSUME KeysAreKeys, NEW v \in LiveValue, SpineIsPlain(v, TvmTuple),
         NEW w \in LiveValue, NEW c \in Callable, Covers(View(w, <<>>), c)
  PROVE  LET u == PrependHead(v, w)
         IN  /\ u \in LiveValue /\ u[<<>>] = v[<<>>] /\ SpineIsPlain(u, TvmTuple)
             /\ HeadIsCovered(u, HeadOf(1), c)
             /\ \A i \in Nat \ {0}, d \in Callable :
                  HeadIsCovered(v, HeadOf(i), d) => HeadIsCovered(u, HeadOf(i + 1), d)
<1> DEFINE empty == EmptyAggregate
           half == Put(empty, <<First>>, w)
           pair == Put(half, <<Second>>, v)
           u == Put(v, <<TvmTuple>>, pair)
<1>0. /\ TvmTuple \in SpineKey /\ Second \in SpineKey /\ First \notin SpineKey
      /\ Other(TvmTuple) = Second /\ Other(Second) = TvmTuple
      /\ {First, Second, TvmTuple} \subseteq Key \ {Dynamic} /\ First # Second
      /\ First \in Key \ {Dynamic} /\ Second \in Key \ {Dynamic} /\ TvmTuple \in Key \ {Dynamic}
      /\ <<>> \in Path /\ w \in FiniteValue /\ v \in FiniteValue
      /\ <<First>> \o <<>> = <<First>> /\ <<First>> \in Path
  BY SpineKeyFacts, KeyFacts, OneKey DEF KeysAreKeys, LiveValue
<1>1. empty \in LiveValue /\ SpineIsPlain(empty, Second)
  <2>1. AggregateLabel \in ViewLabel /\ ~AggregateLabel.bottom /\ AggregateLabel.targets = {}
    BY RootLabels DEF AggregateLabel, PlainLabel
  <2> QED
    BY <1>0, <2>1, RootLabels, LeafSpine DEF EmptyAggregate
<1> HIDE DEF empty
<1>2. /\ half \in LiveValue /\ SpineIsPlain(half, Second) /\ HeadIsCovered(half, <<First>>, c)
  <2>1. half \in LiveValue
    BY <1>0, <1>1, PutFinite
  <2>2. SpineIsPlain(half, Second)
    BY <1>0, <1>1, PutElsewhere
  <2>3. HeadIsCovered(w, <<>>, c)
    BY EntryView, <1>0 DEF HeadIsCovered
  <2>4. HeadIsCovered(half, <<First>> \o <<>>, c)
    BY <1>0, <1>1, <2>3, HeadPut
  <2> QED
    BY <1>0, <2>1, <2>2, <2>4
<1> HIDE DEF half
<1>3. /\ pair \in LiveValue /\ SpineIsPlain(pair, Second) /\ HeadIsCovered(pair, <<First>>, c)
      /\ \A p \in Path, d \in Callable :
           HeadIsCovered(v, p, d) => HeadIsCovered(pair, <<Second>> \o p, d)
  <2>1. pair \in LiveValue /\ SpineIsPlain(pair, Second)
    BY <1>0, <1>2, SpinePut
  <2>2. HeadIsCovered(pair, <<First>> \o <<>>, c)
    <3>1. HeadIsCovered(half, <<First>> \o <<>>, c)
      BY <1>0, <1>2
    <3>2. First \in Key \ {Second}
      BY <1>0
    <3> QED
      BY <1>0, <1>2, <3>1, <3>2, PutElsewhere
  <2>3. \A p \in Path, d \in Callable :
          HeadIsCovered(v, p, d) => HeadIsCovered(pair, <<Second>> \o p, d)
    BY <1>0, <1>2, HeadPut
  <2> QED
    BY <1>0, <2>1, <2>2, <2>3
<1>4. PrependHead(v, w) = u
  BY DEF PrependHead, Pair, half, empty
<1> HIDE DEF pair
<1>5. /\ u \in LiveValue /\ u[<<>>] = v[<<>>] /\ SpineIsPlain(u, TvmTuple)
      /\ \A p \in Path, d \in Callable :
           HeadIsCovered(pair, p, d) => HeadIsCovered(u, <<TvmTuple>> \o p, d)
  <2>1. pair \in FiniteValue
    BY <1>3 DEF LiveValue
  <2> QED
    BY <1>0, <1>3, <2>1, SpinePut, HeadPut
<1> HIDE DEF u
<1>6. HeadIsCovered(u, HeadOf(1), c)
  BY <1>0, <1>3, <1>5, HeadOfFacts
<1>7. ASSUME NEW i \in Nat \ {0}, NEW d \in Callable, HeadIsCovered(v, HeadOf(i), d)
      PROVE  HeadIsCovered(u, HeadOf(i + 1), d)
  <2>1. HeadOf(i) \in Path /\ HeadOf(i + 1) = <<TvmTuple>> \o (<<Second>> \o HeadOf(i))
    BY HeadOfFacts
  <2>2. <<Second>> \o HeadOf(i) \in Path
    BY <1>0, <2>1, UnderFacts
  <2> QED
    BY <1>3, <1>5, <1>7, <2>1, <2>2
<1> QED
  BY <1>4, <1>5, <1>6, <1>7

(* Popping moves every head but the first a cell up.                       *)
LEMMA PopHeadCovers ==
  ASSUME KeysAreKeys, NEW v \in LiveValue, SpineIsPlain(v, TvmTuple)
  PROVE  LET u == PopHead(v)
         IN  /\ u \in LiveValue /\ u[<<>>] = v[<<>>] /\ SpineIsPlain(u, TvmTuple)
             /\ \A i \in Nat \ {0}, d \in Callable :
                  HeadIsCovered(v, HeadOf(i + 1), d) => HeadIsCovered(u, HeadOf(i), d)
<1> DEFINE tail == ListTail(v)
           pair == Member(tail, TvmTuple)
           u == Put(v, <<TvmTuple>>, pair)
<1>0. /\ TvmTuple \in SpineKey /\ Other(TvmTuple) = Second /\ TvmTuple \in Key
  BY SpineKeyFacts DEF KeysAreKeys
<1>1. /\ tail \in LiveValue /\ SpineIsPlain(tail, TvmTuple)
      /\ \A i \in Nat \ {0}, c \in Callable :
           HeadIsCovered(v, HeadOf(i + 1), c) => HeadIsCovered(tail, HeadOf(i), c)
  BY TailCovers
<1> HIDE DEF tail
<1>2. /\ pair \in LiveValue /\ SpineIsPlain(pair, Second) /\ pair \in FiniteValue
      /\ \A p \in Path, c \in Callable :
           HeadIsCovered(tail, <<TvmTuple>> \o p, c) => HeadIsCovered(pair, p, c)
  BY <1>0, <1>1, SpineMember DEF LiveValue
<1>3. PopHead(v) = u
  BY DEF PopHead, pair, tail
<1> HIDE DEF pair
<1>4. /\ u \in LiveValue /\ u[<<>>] = v[<<>>] /\ SpineIsPlain(u, TvmTuple)
      /\ \A p \in Path, d \in Callable :
           HeadIsCovered(pair, p, d) => HeadIsCovered(u, <<TvmTuple>> \o p, d)
  BY <1>0, <1>2, SpinePut, HeadPut
<1> HIDE DEF u
<1>5. ASSUME NEW i \in Nat \ {0}, NEW d \in Callable, HeadIsCovered(v, HeadOf(i + 1), d)
      PROVE  HeadIsCovered(u, HeadOf(i), d)
  <2> DEFINE rest == Drop(HeadOf(i), 1)
  <2>1. rest \in Path /\ HeadOf(i) = <<TvmTuple>> \o rest
    BY HeadOfFacts
  <2> HIDE DEF rest
  <2>2. HeadIsCovered(tail, <<TvmTuple>> \o rest, d)
    BY <1>1, <1>5, <2>1
  <2> QED
    BY <1>2, <1>4, <2>1, <2>2
<1> QED
  BY <1>3, <1>4, <1>5

-----------------------------------------------------------------------------
(* On the spine a value looks like its nodes, and unknown between them.    *)
LEMMA SpineView ==
  ASSUME NEW v \in LiveValue, NEW k \in SpineKey, SpineKey \subseteq Key, SpineIsPlain(v, k),
         NEW q \in Path, OnSpine(q, k)
  PROVE  /\ View(v, q) \in ViewLabel /\ ~View(v, q).bottom /\ View(v, q).targets = {}
         /\ q \in DOMAIN v => View(v, q) = v[q]
         /\ q \notin DOMAIN v => ~View(v, q).membersComplete
<1>1. v \in NormalValue
  BY DEF LiveValue, FiniteValue
<1>2. BottomAt(v, q) = {}
  <2> SUFFICES ASSUME NEW i \in BottomAt(v, q)
               PROVE  FALSE
    OBVIOUS
  <2>1. i \in 0 .. Len(q) /\ Upto(q, i) \in DOMAIN v /\ v[Upto(q, i)].bottom
    BY DEF BottomAt
  <2>2. OnSpine(Upto(q, i), k)
    BY <2>1, OnSpineFacts
  <2> QED
    BY <2>1, <2>2 DEF SpineIsPlain
<1>3. View(v, q) \in ViewLabel /\ ~View(v, q).bottom
  BY <1>1, <1>2, ViewType
<1>4. q \in DOMAIN v => View(v, q) = v[q]
  BY <1>1, NormalFacts
<1>5. q \notin DOMAIN v => View(v, q) \in {UnknownLabel, NonCallableLabel}
  BY <1>1, <1>2, ViewType
<1>6. \A label \in {UnknownLabel, NonCallableLabel} : label.targets = {} /\ ~label.membersComplete
  BY LabelFacts
<1>7. q \in DOMAIN v => v[q].targets = {}
  BY DEF SpineIsPlain
<1> QED
  BY <1>3, <1>4, <1>5, <1>6, <1>7

(* A head that is covered is covered by its view, even where it is not in  *)
(* the value.                                                              *)
LEMMA HeadView ==
  ASSUME NEW v \in LiveValue, NEW k \in SpineKey, SpineKey \subseteq Key, SpineIsPlain(v, k),
         NEW p \in Path, p # <<>>, \A i \in 0 .. (Len(p) - 1) : OnSpine(Upto(p, i), k),
         NEW c, HeadIsCovered(v, p, c)
  PROVE  Covers(View(v, p), c)
<1>1. /\ v \in NormalValue /\ <<>> \in DOMAIN v
      /\ \A q \in DOMAIN v : v[q] = View(v, q)
  BY NormalFacts DEF LiveValue, FiniteValue
<1>2. CASE p \in DOMAIN v
  BY <1>1, <1>2 DEF HeadIsCovered
<1>3. CASE p \notin DOMAIN v
  <2>1. Len(p) \in Nat /\ Len(p) >= 1 /\ Upto(p, Len(p)) = p
    <3>1. Len(p) \in Nat /\ Len(p) # 0
      BY DEF Path
    <3>2. Len(p) \in 0 .. Len(p)
      BY <3>1
    <3> QED
      BY <3>1, <3>2, PrefixFacts
  <2>2. BottomAt(v, p) = {}
    <3> SUFFICES ASSUME NEW i \in BottomAt(v, p)
                 PROVE  FALSE
      OBVIOUS
    <3>1. i \in 0 .. Len(p) /\ Upto(p, i) \in DOMAIN v /\ v[Upto(p, i)].bottom
      BY DEF BottomAt
    <3>2. i # Len(p)
      BY <1>3, <2>1, <3>1
    <3>3. i \in 0 .. (Len(p) - 1)
      BY <2>1, <3>1, <3>2
    <3> QED
      BY <3>1, <3>3 DEF SpineIsPlain
  <2>3. CASE Parent(p) \notin DOMAIN v
    <3>1. View(v, p) = UnknownLabel
      BY <1>1, <1>3, <2>2, <2>3, ViewOutside
    <3> QED
      BY <3>1, CoversPlain
  <2>4. CASE Parent(p) \in DOMAIN v
    <3> DEFINE i == Len(p) - 1
    <3>1. i \in 0 .. (Len(p) - 1) /\ i + 1 = Len(p) /\ Upto(p, i) = Parent(p)
      BY <2>1 DEF Upto, Parent
    <3> HIDE DEF i
    <3>2. ~v[Parent(p)].membersComplete
      BY <1>3, <2>1, <2>4, <3>1 DEF HeadIsCovered
    <3>3. View(v, p) = UnknownLabel
      BY <1>1, <1>3, <2>2, <2>4, <3>2, ViewOutside
    <3> QED
      BY <3>3, CoversPlain
  <2> QED
    BY <2>3, <2>4
<1> QED
  BY <1>2, <1>3

(* Two plain spines meet in one, and every head stays covered.             *)
LEMMA ListMergeCovers ==
  ASSUME KeysAreKeys, NEW l \in LiveValue, NEW r \in LiveValue,
         SpineIsPlain(l, TvmTuple), SpineIsPlain(r, TvmTuple)
  PROVE  /\ SpineIsPlain(Merge(l, r), TvmTuple)
         /\ \A n \in Nat \ {0}, c \in Callable :
              HeadIsCovered(l, HeadOf(n), c) => HeadIsCovered(Merge(l, r), HeadOf(n), c)
<1> DEFINE m == Merge(l, r)
           k == TvmTuple
<1>0. k \in SpineKey /\ SpineKey \subseteq Key
  BY SpineKeyFacts
<1>1. l \in NormalValue /\ r \in NormalValue /\ l \in FiniteValue /\ r \in FiniteValue
  BY DEF LiveValue, FiniteValue
<1>2. /\ m \in NormalValue /\ DOMAIN m = DOMAIN l \cup DOMAIN r
      /\ \A p \in DOMAIN m : m[p] = JoinViews(View(l, p), View(r, p))
  BY <1>1, MergeType
<1> HIDE DEF m
<1>3. DOMAIN l \subseteq Path /\ DOMAIN r \subseteq Path /\ DOMAIN m \subseteq Path
  BY <1>1, <1>2, NormalFacts
<1>4. ASSUME NEW p \in DOMAIN m, OnSpine(p, k)
      PROVE  /\ m[p] = Join(View(l, p), View(r, p))
             /\ ~m[p].bottom /\ m[p].targets = {}
             /\ m[p].membersComplete = (View(l, p).membersComplete /\ View(r, p).membersComplete)
  <2>1. p \in Path
    BY <1>3
  <2>2. /\ ~View(l, p).bottom /\ View(l, p).targets = {}
        /\ ~View(r, p).bottom /\ View(r, p).targets = {}
    BY <1>0, <1>4, <2>1, SpineView
  <2>3. m[p] = Join(View(l, p), View(r, p))
    BY <1>2, <2>2 DEF JoinViews
  <2> QED
    BY <2>2, <2>3 DEF Join
<1>5. SpineIsPlain(m, k)
  <2> SUFFICES ASSUME NEW p \in DOMAIN m, OnSpine(p, k)
               PROVE  ~m[p].bottom /\ m[p].targets = {} /\ Append(p, Dynamic) \notin DOMAIN m
    BY DEF SpineIsPlain
  <2>1. ASSUME NEW v \in {l, r}, Append(p, Dynamic) \in DOMAIN v
        PROVE  FALSE
    <3>1. v \in NormalValue /\ SpineIsPlain(v, k) /\ Append(p, Dynamic) \in Path /\ p \in Path
      BY <1>1, <1>3, <2>1
    <3>2. p \in DOMAIN v
      <4>1. Upto(Append(p, Dynamic), Len(p)) = p /\ Len(p) \in Nat /\ Len(p) <= Len(Append(p, Dynamic))
        <5>1. p \in Seq(Key) /\ Append(p, Dynamic) \in Seq(Key)
          BY <3>1 DEF Path
        <5>2. Dynamic \in Key
          BY DEF KeysAreKeys
        <5>3. Len(p) \in Nat /\ Len(Append(p, Dynamic)) = Len(p) + 1
          BY <5>1, <5>2
        <5>4. \A j \in 1 .. Len(p) : Append(p, Dynamic)[j] = p[j]
          BY <5>1, <5>2
        <5>5. Len(p) \in 0 .. Len(Append(p, Dynamic))
          BY <5>3
        <5>6. Upto(Append(p, Dynamic), Len(p)) \in Seq(Key) /\ Len(Upto(Append(p, Dynamic), Len(p))) = Len(p)
          BY <3>1, <5>5, PrefixFacts DEF Path
        <5>7. \A j \in 1 .. Len(p) : Upto(Append(p, Dynamic), Len(p))[j] = Append(p, Dynamic)[j]
          BY <5>1, <5>3 DEF Upto
        <5>8. Upto(Append(p, Dynamic), Len(p)) = p
          BY <5>1, <5>4, <5>6, <5>7
        <5> QED
          BY <5>3, <5>8
      <4> DEFINE longer == Append(p, Dynamic)
      <4>2. longer \in DOMAIN v /\ Len(p) \in Nat /\ Len(p) <= Len(longer) /\ Upto(longer, Len(p)) = p
        BY <2>1, <4>1
      <4> HIDE DEF longer
      <4>3. \A q \in DOMAIN v, i \in Nat : i <= Len(q) => Upto(q, i) \in DOMAIN v
        BY <3>1, NormalFacts
      <4> QED
        BY <4>2, <4>3
    <3> QED
      BY <2>1, <3>1, <3>2 DEF SpineIsPlain
  <2> QED
    BY <1>2, <1>4, <2>1
<1>6. ASSUME NEW n \in Nat \ {0}, NEW c \in Callable, HeadIsCovered(l, HeadOf(n), c)
      PROVE  HeadIsCovered(m, HeadOf(n), c)
  <2> DEFINE p == HeadOf(n)
  <2>1. /\ p \in Path /\ Len(p) = 2 * n /\ \A i \in 0 .. (Len(p) - 1) : OnSpine(Upto(p, i), k)
    BY HeadOfFacts
  <2>2. HeadIsCovered(l, p, c)
    BY <1>6
  <2> SUFFICES HeadIsCovered(m, p, c)
    OBVIOUS
  <2> HIDE DEF p
  <2>3. p # <<>> /\ Len(p) \in Nat
    BY <2>1 DEF Path
  <2>4. CASE p \in DOMAIN m
    <3>1. View(l, p) \in ViewLabel /\ View(r, p) \in ViewLabel /\ Covers(View(l, p), c)
      BY <1>0, <1>1, <2>1, <2>2, <2>3, HeadView, ViewType
    <3> QED
      BY <1>2, <2>4, <3>1, JoinCovers DEF HeadIsCovered
  <2>5. CASE p \notin DOMAIN m
    <3>1. ASSUME NEW i \in 0 .. (Len(p) - 1), Upto(p, i) \in DOMAIN m, Upto(p, i + 1) \notin DOMAIN m
          PROVE  ~m[Upto(p, i)].membersComplete
      <4> DEFINE q == Upto(p, i)
      <4>1. q \in DOMAIN m /\ q \in Path /\ OnSpine(q, k)
        BY <1>3, <2>1, <3>1
      <4>2. q \in DOMAIN l => ~l[q].membersComplete
        BY <1>2, <2>2, <2>5, <3>1 DEF HeadIsCovered
      <4> HIDE DEF q
      <4>3. ~View(l, q).membersComplete
        BY <1>0, <4>1, <4>2, SpineView
      <4>4. ~m[q].membersComplete
        BY <1>4, <4>1, <4>3
      <4> QED
        BY <4>4 DEF q
    <3> QED
      BY <2>5, <3>1 DEF HeadIsCovered
  <2> QED
    BY <2>4, <2>5
<1> QED
  BY <1>5, <1>6 DEF m

-----------------------------------------------------------------------------
(* The order in which FoldLeft takes the indexes 1 to n.                   *)
LEMMA MaxFacts ==
  ASSUME NEW n \in Nat
  PROVE  /\ \A s \in SUBSET (1 .. n) : s # {} => Max(s) \in s
         /\ n # 0 => Max(1 .. n) = n /\ (1 .. n) \ {n} = 1 .. (n - 1)
<1>1. ASSUME NEW s \in SUBSET (1 .. n), s # {}
      PROVE  \E x \in s : \A y \in s : x >= y
  <2> DEFINE T == {i \in 0 .. n : n - i \in s}
  <2>1. T \in SUBSET Nat
    OBVIOUS
  <2>2. T # {}
    <3>1. PICK x \in s : TRUE
      BY <1>1
    <3>2. x \in 1 .. n
      BY <3>1
    <3>3. n - x \in 0 .. n /\ n - (n - x) = x
      BY <3>2
    <3> QED
      BY <3>1, <3>3
  <2>3. PICK i \in T : \A j \in T : i <= j
    <3> HIDE DEF T
    <3> QED
      BY <2>1, <2>2, LeastNatural
  <2>4. n - i \in s /\ i \in 0 .. n
    BY <2>3
  <2>5. ASSUME NEW y \in s
        PROVE  n - i >= y
    <3>1. y \in 1 .. n
      OBVIOUS
    <3>2. n - y \in 0 .. n /\ n - (n - y) = y
      BY <3>1
    <3>3. n - y \in T
      BY <3>2
    <3>4. i <= n - y
      BY <2>3, <3>3
    <3> QED
      BY <2>4, <3>1, <3>4
  <2> QED
    BY <2>4, <2>5
<1>2. \A s \in SUBSET (1 .. n) : s # {} => Max(s) \in s /\ \A y \in s : Max(s) >= y
  BY <1>1, Zenon DEF Max
<1>3. ASSUME n # 0
      PROVE  Max(1 .. n) = n /\ (1 .. n) \ {n} = 1 .. (n - 1)
  <2>1. n \in 1 .. n
    BY <1>3
  <2>2. Max(1 .. n) \in 1 .. n /\ \A y \in 1 .. n : Max(1 .. n) >= y
    BY <1>2, <2>1
  <2>3. \A x \in 1 .. n : x >= n => x = n
    OBVIOUS
  <2>4. Max(1 .. n) = n
    BY <2>1, <2>2, <2>3, Zenon
  <2>5. (1 .. n) \ {n} = 1 .. (n - 1)
    OBVIOUS
  <2> QED
    BY <2>4, <2>5
<1> QED
  BY <1>2, <1>3

(* The values whose spine is plain, the list after i - 1 calls of getTail, *)
(* and the fold that computes it.                                          *)
PlainLists == {v \in LiveValue : SpineIsPlain(v, TvmTuple)}

TailOf(v, i) == FoldLeft(LAMBDA list, n : ListTail(list), v, [n \in 1 .. (i - 1) |-> n])

FoldsTail(v, i, g) ==
  /\ TailOf(v, i) = g[1 .. (i - 1)]
  /\ \A s \in SUBSET (1 .. (i - 1)) :
       /\ g[s] \in PlainLists
       /\ g[s] = IF s = {} THEN v ELSE ListTail(g[s \ {Max(s)}])

(* The fold of getTail exists among the plain lists.                       *)
LEMMA TailFold ==
  ASSUME KeysAreKeys, NEW v \in PlainLists, NEW i \in Nat \ {0}
  PROVE  \E g : FoldsTail(v, i, g)
<1> DEFINE S == 1 .. (i - 1)
           V == PlainLists
           pick == [s \in SUBSET S |-> Max(s)]
           step == [n \in S |-> [a \in V |-> ListTail(a)]]
           iter == CHOOSE f : f = [s \in SUBSET S |-> IF s = {} THEN v
             ELSE LET x == Max(s) IN ListTail(f[s \ {x}])]
<1>0. i - 1 \in Nat /\ IsFiniteSet(S)
  <2>1. i - 1 \in Nat
    OBVIOUS
  <2>2. 1 \in Int /\ i - 1 \in Int
    BY <2>1
  <2> QED
    BY <2>1, <2>2, FS_Interval
<1>1. Picks(pick, S)
  BY <1>0, MaxFacts DEF Picks
<1>a. \A a \in V : ListTail(a) \in V
  BY TailCovers DEF PlainLists
<1>2. step \in [S -> [V -> V]]
  BY <1>a
<1>3. PICK g \in [SUBSET S -> V] : Folds(g, S, V, v, step, pick)
  <2> HIDE DEF pick, step, S, V
  <2>1. v \in V
    BY DEF V
  <2> QED
    BY <1>0, <1>1, <1>2, <2>1, FoldExists
<1>4. \A s \in SUBSET S : g[s] = IF s = {} THEN v ELSE ListTail(g[s \ {Max(s)}])
  <2> SUFFICES ASSUME NEW s \in SUBSET S, s # {}
               PROVE  g[s] = ListTail(g[s \ {Max(s)}])
    BY <1>3 DEF Folds
  <2> HIDE DEF S, V
  <2>1. pick[s] = Max(s) /\ Max(s) \in S /\ g[s \ {Max(s)}] \in V
    BY <1>1 DEF Picks
  <2>2. step[Max(s)][g[s \ {Max(s)}]] = ListTail(g[s \ {Max(s)}])
    BY <2>1
  <2> HIDE DEF pick, step
  <2> QED
    BY <1>3, <2>1, <2>2 DEF Folds
<1>5. g = [s \in SUBSET S |-> IF s = {} THEN v ELSE LET x == Max(s) IN ListTail(g[s \ {x}])]
  BY <1>4
<1>6. TailOf(v, i) = iter[S]
  <2>1. DOMAIN [n \in 1 .. (i - 1) |-> n] = S
    OBVIOUS
  <2> QED
    BY <2>1 DEF TailOf, FoldLeft, MapThenFoldSet
<1> HIDE DEF S
<1>7. iter = [s \in SUBSET S |-> IF s = {} THEN v ELSE LET x == Max(s) IN ListTail(iter[s \ {x}])]
  BY <1>5
<1> HIDE DEF iter
<1>8. \A s \in SUBSET S : iter[s] = IF s = {} THEN v ELSE ListTail(iter[s \ {Max(s)}])
  BY <1>7
<1>9. \A s \in SUBSET S : iter[s] \in V
  <2> HIDE DEF V
  <2>1. iter[{}] = v /\ v \in V
    BY <1>8 DEF V
  <2>2. ASSUME NEW s \in SUBSET S, s # {}, iter[s \ {pick[s]}] \in V
        PROVE  iter[s] = step[pick[s]][iter[s \ {pick[s]}]]
    <3>1. pick[s] \in S /\ pick[s] = Max(s)
      BY <1>1, <2>2 DEF Picks
    <3>2. step[pick[s]][iter[s \ {pick[s]}]] = ListTail(iter[s \ {pick[s]}])
      BY <2>2, <3>1
    <3> HIDE DEF pick, step
    <3> QED
      BY <1>8, <2>2, <3>1, <3>2
  <2>3. Folds(iter, S, V, v, step, pick)
    BY <2>1, <2>2 DEF Folds
  <2> HIDE DEF pick, step
  <2> QED
    BY <1>0, <1>1, <1>2, <2>1, <2>3, FoldTyped
<1> HIDE DEF pick
<1>10. FoldsTail(v, i, iter)
  BY <1>6, <1>8, <1>9 DEF FoldsTail, S
<1> QED
  BY <1>10

(* However far down the tails a read goes, it finds the element there.     *)
LEMMA ListReadCovers ==
  ASSUME KeysAreKeys, NEW v \in LiveValue, SpineIsPlain(v, TvmTuple),
         NEW i \in Nat \ {0}, NEW c \in Callable, HeadIsCovered(v, HeadOf(i), c)
  PROVE  Describes(ListHead(TailOf(v, i)), c)
<1>0. v \in PlainLists
  BY DEF PlainLists
<1>1. PICK g : FoldsTail(v, i, g)
  BY <1>0, TailFold
<1>2. /\ TailOf(v, i) = g[1 .. (i - 1)]
      /\ \A s \in SUBSET (1 .. (i - 1)) :
           /\ g[s] \in PlainLists
           /\ g[s] = IF s = {} THEN v ELSE ListTail(g[s \ {Max(s)}])
  BY <1>1, Zenon DEF FoldsTail
<1>3. \A m \in 0 .. (i - 1) :
        /\ 1 .. m \in SUBSET (1 .. (i - 1)) /\ m \in Nat /\ i - m \in Nat \ {0}
        /\ m # 0 => /\ m - 1 \in 0 .. (i - 1) /\ m - 1 < m /\ (i - m) + 1 = i - (m - 1)
                    /\ 1 .. m # {}
  <2> SUFFICES ASSUME NEW m \in 0 .. (i - 1)
               PROVE  /\ 1 .. m \in SUBSET (1 .. (i - 1)) /\ m \in Nat /\ i - m \in Nat \ {0}
                      /\ m # 0 => /\ m - 1 \in 0 .. (i - 1) /\ m - 1 < m
                                  /\ (i - m) + 1 = i - (m - 1) /\ 1 .. m # {}
    OBVIOUS
  <2>1. m \in Nat /\ i - m \in Nat \ {0}
    OBVIOUS
  <2>2. 1 .. m \in SUBSET (1 .. (i - 1))
    OBVIOUS
  <2>3. m # 0 => m - 1 \in 0 .. (i - 1) /\ m - 1 < m /\ (i - m) + 1 = i - (m - 1)
    OBVIOUS
  <2>4. m # 0 => 1 .. m # {}
    <3>1. m # 0 => 1 \in 1 .. m
      OBVIOUS
    <3> QED
      BY <3>1
  <2> QED
    BY <2>1, <2>2, <2>3, <2>4
<1>4. 1 .. 0 = {} /\ i - 0 = i
  OBVIOUS
<1>5. \A m \in 0 .. (i - 1) : HeadIsCovered(g[1 .. m], HeadOf(i - m), c)
  <2> DEFINE Bad == {n \in 0 .. (i - 1) : ~HeadIsCovered(g[1 .. n], HeadOf(i - n), c)}
  <2>0. Bad = {} => \A m \in 0 .. (i - 1) : HeadIsCovered(g[1 .. m], HeadOf(i - m), c)
    <3> SUFFICES ASSUME Bad = {}, NEW m \in 0 .. (i - 1)
                 PROVE  HeadIsCovered(g[1 .. m], HeadOf(i - m), c)
      OBVIOUS
    <3>1. m \notin Bad
      OBVIOUS
    <3> QED
      BY <3>1
  <2> SUFFICES ASSUME Bad # {}
               PROVE  FALSE
    <3> HIDE DEF Bad
    <3> QED
      BY <2>0
  <2>1. PICK n \in Bad : \A j \in Bad : n <= j
    <3>1. Bad \in SUBSET Nat
      BY <1>3
    <3> HIDE DEF Bad
    <3> QED
      BY <3>1, LeastNatural
  <2>2. n \in 0 .. (i - 1) /\ ~HeadIsCovered(g[1 .. n], HeadOf(i - n), c)
    BY <2>1
  <2>3. CASE n = 0
    <3>1. g[{}] = v
      BY <1>2
    <3> QED
      BY <1>4, <2>2, <2>3, <3>1
  <2>4. CASE n # 0
    <3> DEFINE list == g[1 .. (n - 1)]
    <3>1. /\ n - 1 \in 0 .. (i - 1) /\ n - 1 < n /\ (i - n) + 1 = i - (n - 1)
          /\ 1 .. n \in SUBSET (1 .. (i - 1)) /\ 1 .. n # {} /\ n \in Nat /\ i - n \in Nat \ {0}
          /\ 1 .. (n - 1) \in SUBSET (1 .. (i - 1))
      BY <1>3, <2>2, <2>4
    <3>2. HeadIsCovered(list, HeadOf(i - (n - 1)), c)
      <4>1. n - 1 \notin Bad
        BY <2>1, <3>1
      <4> QED
        BY <3>1, <4>1
    <3>3. Max(1 .. n) = n /\ (1 .. n) \ {n} = 1 .. (n - 1)
      BY <2>4, <3>1, MaxFacts
    <3>4. g[1 .. n] = ListTail(list) /\ list \in PlainLists
      BY <1>2, <3>1, <3>3
    <3> HIDE DEF list, Bad
    <3>5. HeadIsCovered(list, HeadOf((i - n) + 1), c)
      BY <3>1, <3>2
    <3>6. HeadIsCovered(ListTail(list), HeadOf(i - n), c)
      BY <3>1, <3>4, <3>5, TailCovers DEF PlainLists
    <3> QED
      BY <2>2, <3>4, <3>6
  <2> QED
    BY <2>3, <2>4
<1>6. HeadIsCovered(TailOf(v, i), HeadOf(1), c) /\ TailOf(v, i) \in PlainLists
  <2>1. i - 1 \in 0 .. (i - 1) /\ i - (i - 1) = 1 /\ 1 .. (i - 1) \in SUBSET (1 .. (i - 1))
    OBVIOUS
  <2>2. HeadIsCovered(g[1 .. (i - 1)], HeadOf(i - (i - 1)), c)
    BY <1>5, <2>1
  <2> QED
    BY <1>2, <2>1, <2>2
<1> QED
  BY <1>6, HeadCovers DEF PlainLists

-----------------------------------------------------------------------------
(***************************************************************************)
(* The machine: every call keeps the description of the contents.          *)
(***************************************************************************)
(* A covered head survives flattening: it is a node of its own, or the     *)
(* node its path ends at does not know its members.                        *)
LEMMA HeadNested ==
  ASSUME KeysAreKeys, NEW v \in LiveValue, SpineIsPlain(v, TvmTuple),
         NEW n \in Nat \ {0}, NEW c, HeadIsCovered(v, HeadOf(n), c)
  PROVE  /\ AnyNestedCallable(v) \in LiveValue
         /\ Covers(View(AnyNestedCallable(v), <<>>), c)
<1> DEFINE p == HeadOf(n)
           k == TvmTuple
<1>0. k \in SpineKey /\ SpineKey \subseteq Key
  BY SpineKeyFacts
<1>1. /\ v \in NormalValue /\ <<>> \in DOMAIN v /\ DOMAIN v \subseteq Path
  BY NormalFacts DEF LiveValue, FiniteValue
<1>2. /\ p \in Path /\ Len(p) \in Nat /\ Len(p) # 0
      /\ \A i \in 0 .. (Len(p) - 1) : OnSpine(Upto(p, i), k)
  <2>1. p \in Path /\ Len(p) = 2 * n /\ \A i \in 0 .. (Len(p) - 1) : OnSpine(Upto(p, i), k)
    BY HeadOfFacts
  <2>2. 2 * n \in Nat /\ 2 * n # 0
    OBVIOUS
  <2> HIDE DEF p
  <2> QED
    BY <2>1, <2>2
<1>3. HeadIsCovered(v, p, c)
  OBVIOUS
<1> HIDE DEF p
<1>4. /\ \A i \in 0 .. Len(p) : Upto(p, i) \in Path /\ Len(Upto(p, i)) = i
      /\ Upto(p, 0) = <<>> /\ Upto(p, Len(p)) = p
      /\ \A i \in 0 .. Len(p) : \A j \in 0 .. i : Upto(Upto(p, i), j) = Upto(p, j)
  BY <1>2, PrefixFacts, UptoZero
<1>5. ASSUME NEW i \in 0 .. (Len(p) - 1)
      PROVE  Upto(p, i) \in DOMAIN v =>
               ~v[Upto(p, i)].bottom /\ v[Upto(p, i)].targets = {}
  BY <1>2 DEF SpineIsPlain
<1>6. ASSUME NEW i \in 0 .. (Len(p) - 1)
      PROVE  BottomAt(v, Upto(p, i)) = {}
  <2> SUFFICES ASSUME NEW j \in BottomAt(v, Upto(p, i))
               PROVE  FALSE
    OBVIOUS
  <2>1. i \in 0 .. Len(p)
    BY <1>2
  <2>2. j \in 0 .. i /\ Upto(p, j) \in DOMAIN v /\ v[Upto(p, j)].bottom
    BY <1>4, <2>1 DEF BottomAt
  <2>3. j \in 0 .. (Len(p) - 1)
    BY <1>2, <2>2
  <2> QED
    BY <1>5, <2>2, <2>3
<1>7. CASE p \in DOMAIN v
  <2>1. Covers(v[p], c)
    BY <1>3, <1>7 DEF HeadIsCovered
  <2>2. BottomAt(v, p) = {}
    <3> SUFFICES ASSUME NEW j \in BottomAt(v, p)
                 PROVE  FALSE
      OBVIOUS
    <3>1. j \in 0 .. Len(p) /\ Upto(p, j) \in DOMAIN v /\ v[Upto(p, j)].bottom
      BY DEF BottomAt
    <3>2. j # Len(p)
      BY <1>4, <2>1, <3>1 DEF Covers
    <3>3. j \in 0 .. (Len(p) - 1)
      BY <1>2, <3>1, <3>2
    <3> QED
      BY <1>5, <3>1, <3>3
  <2> QED
    BY <1>7, <2>1, <2>2, NestedCovers
<1>8. CASE p \notin DOMAIN v
  <2> DEFINE Out == {i \in 0 .. Len(p) : Upto(p, i) \notin DOMAIN v}
  <2>1. Len(p) \in Out
    BY <1>2, <1>4, <1>8
  <2>2. PICK i \in Out : \A j \in Out : i <= j
    <3>1. Out \in SUBSET Nat /\ Out # {}
      BY <2>1
    <3> HIDE DEF Out
    <3> QED
      BY <3>1, LeastNatural
  <2>3. i \in 0 .. Len(p) /\ Upto(p, i) \notin DOMAIN v
    BY <2>2
  <2>4. i # 0
    BY <1>1, <1>4, <2>3
  <2> DEFINE j == i - 1
             q == Upto(p, j)
  <2>5. j \in 0 .. (Len(p) - 1) /\ j \in 0 .. Len(p) /\ j + 1 = i /\ ~(i <= j)
    BY <1>2, <2>3, <2>4
  <2>6. q \in DOMAIN v
    BY <2>2, <2>5
  <2> HIDE DEF j, Out
  <2>7. ~v[q].membersComplete
    BY <1>3, <1>8, <2>3, <2>5, <2>6 DEF HeadIsCovered
  <2>8. v[q].targets = {} /\ BottomAt(v, q) = {}
    BY <1>5, <1>6, <2>5, <2>6
  <2> HIDE DEF q
  <2> QED
    BY <2>6, <2>7, <2>8, NestedCovers
<1> QED
  BY <1>7, <1>8

(* What the machine keeps of a value, in the terms of the lemmas.          *)
LEMMA DescribedIsLive ==
  ASSUME NEW k, NEW used, NEW v, NEW contents
  PROVE  IsDescribed(k, used, v, contents) <=>
           /\ k \in {"Array", "Map", "LispList"}
           /\ v \in LiveValue /\ v[<<>>].targets = {}
           /\ k = "Array" => contents \in Seq(Callable) /\ ArrayIsDescribed(v, contents)
           /\ k = "Map" => DOMAIN contents \subseteq Keys /\ MapIsDescribed(v, contents, used)
           /\ k = "LispList" => contents \in Seq(Callable) /\ ListIsDescribed(v, contents)
<1>1. v \in LiveValue <=> IsValue(v) /\ Normal(v) /\ IsFiniteSet(DOMAIN v) /\ ~IsBottom(v)
  <2>1. IsValue(v) => DOMAIN v \in SUBSET Path /\ v \in [DOMAIN v -> Label]
    BY DEF IsValue, Path
  <2>2. v \in NormalValue <=> IsValue(v) /\ Normal(v)
    BY <2>1 DEF NormalValue
  <2> QED
    BY <2>2 DEF LiveValue, FiniteValue
<1> QED
  BY <1>1 DEF IsDescribed

(* An argument is a value that covers the callable passed.                 *)
LEMMA ArgumentFacts ==
  ASSUME NEW arg \in Arguments
  PROVE  /\ arg[1] \in Callable /\ arg[2] \in LiveValue /\ arg[2] \in FiniteValue
         /\ Covers(View(arg[2], <<>>), arg[1])
<1>1. CASE \E c \in Target : arg = <<c, TargetValue(c)>>
  BY <1>1, RootLabels, CoversPlain DEF Callable, LiveValue
<1>2. CASE \E c \in Callable : arg = <<c, Unknown>>
  BY <1>2, RootLabels, CoversPlain DEF LiveValue
<1> QED
  BY <1>1, <1>2 DEF Arguments

-----------------------------------------------------------------------------
(* The arms that the calls of the machine take.                            *)
LEMMA WrittenArms ==
  ASSUME NEW v, NEW key, NEW w
  PROVE  /\ Written("Array", "push", v, key, w) = PushArrayMember(v, w)
         /\ Written("Array", "set", v, key, w) = Insert(v, key, w)
         /\ Written("Array", "pop", v, key, w) = ArrayPop(v)
         /\ \A m \in Stores : Written("Map", m, v, key, w) = Insert(v, key, w)
         /\ \A m \in Offers : Written("Map", m, v, key, w) = MapOffer(v, key, w)
         /\ \A m \in Deletes : Written("Map", m, v, key, w) = MapDelete(v, key)
         /\ Written("LispList", "prependHead", v, key, w) = PrependHead(v, w)
         /\ Written("LispList", "popHead", v, key, w) = PopHead(v)
<1>1. /\ Written("Array", "push", v, key, w) = PushArrayMember(v, w)
      /\ Written("Array", "set", v, key, w) = Insert(v, key, w)
      /\ Written("Array", "pop", v, key, w) = ArrayPop(v)
  BY DEF Written
<1>2. \A m \in Stores : Written("Map", m, v, key, w) = Insert(v, key, w)
  BY DEF Written, Stores, Offers, Deletes
<1>3. \A m \in Offers : Written("Map", m, v, key, w) = MapOffer(v, key, w)
  BY DEF Written, Stores, Offers, Deletes
<1>4. \A m \in Deletes : Written("Map", m, v, key, w) = MapDelete(v, key)
  BY DEF Written, Stores, Offers, Deletes
<1>5. /\ Written("LispList", "prependHead", v, key, w) = PrependHead(v, w)
      /\ Written("LispList", "popHead", v, key, w) = PopHead(v)
  BY DEF Written
<1> QED
  BY <1>1, <1>2, <1>3, <1>4, <1>5

(* The arms that the reads take.                                           *)
LEMMA ReturnedArms ==
  ASSUME NEW v, NEW key, NEW w
  PROVE  /\ Returned("Array", "get", v, key, w) = Lookup(v, key)
         /\ Returned("Array", "first", v, key, w) = ArrayFirst(v)
         /\ Returned("Array", "last", v, key, w) = ArrayLast(v)
         /\ Returned("Map", "mustGet", v, key, w) = Lookup(v, key)
         /\ Returned("Map", "get", v, key, w) = MapLookupResult(Lookup(v, key))
         /\ Returned("Map", "findFirst", v, key, w) = MapLookupResult(AnyMember(v))
<1>1. /\ Returned("Array", "get", v, key, w) = Lookup(v, key)
      /\ Returned("Array", "first", v, key, w) = ArrayFirst(v)
      /\ Returned("Array", "last", v, key, w) = ArrayLast(v)
  BY DEF Returned
<1>2. Returned("Map", "mustGet", v, key, w) = Lookup(v, key)
  BY DEF Returned, Traversals
<1>3. /\ "get" \in Results("Map") \ (Traversals \cup {"mustGet", "toLowLevelDict", "set"})
      /\ "findFirst" \in Traversals /\ "get" \notin Traversals
  <2>1. "get" \in Results("Map")
    BY DEF Results
  <2> QED
    BY <2>1 DEF Traversals
<1>4. Returned("Map", "get", v, key, w) = MapLookupResult(Lookup(v, key))
  BY <1>3 DEF Returned
<1>5. Returned("Map", "findFirst", v, key, w) = MapLookupResult(AnyMember(v))
  BY <1>3 DEF Returned
<1> QED
  BY <1>1, <1>2, <1>4, <1>5

-----------------------------------------------------------------------------
(* Arrays: each call keeps the description.                                *)
LEMMA PushKeeps ==
  ASSUME KeysAreKeys, NEW used, NEW v, NEW s, IsDescribed("Array", used, v, s),
         NEW arg \in Arguments
  PROVE  IsDescribed("Array", used, PushArrayMember(v, arg[2]), Append(s, arg[1]))
<1> DEFINE u == PushArrayMember(v, arg[2])
           t == Append(s, arg[1])
<1>1. /\ v \in LiveValue /\ v[<<>>].targets = {} /\ s \in Seq(Callable)
      /\ ArrayIsDescribed(v, s)
  BY DescribedIsLive
<1>2. /\ arg[1] \in Callable /\ arg[2] \in FiniteValue /\ Covers(View(arg[2], <<>>), arg[1])
  BY ArgumentFacts
<1>3. Len(s) \in Nat /\ t \in Seq(Callable) /\ Len(t) = Len(s) + 1
      /\ DOMAIN t = 1 .. (Len(s) + 1) /\ DOMAIN s = 1 .. Len(s)
      /\ \A i \in 1 .. (Len(s) + 1) : t[i] = IF i = Len(s) + 1 THEN arg[1] ELSE s[i]
  BY <1>1, <1>2
<1>4. /\ IsFiniteSet(v[<<>>].lengths)
      /\ v[<<>>].lengths # {} => Len(s) \in v[<<>>].lengths /\ v[<<>>].membersComplete
      /\ \A i \in 1 .. Len(s) : EntryIsCovered(v, IntKey(i - 1), s[i])
  BY <1>1, <1>3 DEF ArrayIsDescribed
<1>5. /\ u \in LiveValue /\ u[<<>>].targets = v[<<>>].targets
      /\ IsFiniteSet(u[<<>>].lengths)
      /\ u[<<>>].lengths # {} => Len(s) + 1 \in u[<<>>].lengths /\ u[<<>>].membersComplete
      /\ EntryIsCovered(u, IntKey(Len(s)), arg[1])
      /\ \A d : \A k \in Key \ {Dynamic} : EntryIsCovered(v, k, d) => EntryIsCovered(u, k, d)
  BY <1>1, <1>2, <1>3, <1>4, PushCovers
<1>6. \A i \in 1 .. (Len(s) + 1) :
        (i = Len(s) + 1 => i - 1 = Len(s)) /\ (i # Len(s) + 1 => i \in 1 .. Len(s) /\ i - 1 \in Nat)
  BY <1>3
<1>7. \A i \in Nat : IntKey(i) \in Key \ {Dynamic}
  BY KeyFacts DEF KeysAreKeys
<1> HIDE DEF u, t
<1>8. ASSUME NEW i \in 1 .. (Len(s) + 1)
      PROVE  EntryIsCovered(u, IntKey(i - 1), t[i])
  <2>1. CASE i = Len(s) + 1
    BY <1>3, <1>5, <1>6, <2>1
  <2>2. CASE i # Len(s) + 1
    BY <1>3, <1>4, <1>5, <1>6, <1>7, <2>2
  <2> QED
    BY <2>1, <2>2
<1>9. ArrayIsDescribed(u, t)
  BY <1>3, <1>5, <1>8 DEF ArrayIsDescribed
<1> QED
  <2>1. IsDescribed("Array", used, u, t)
    BY <1>1, <1>3, <1>5, <1>9, DescribedIsLive
  <2> QED
    BY <2>1 DEF u, t

(* A set at a constant or unknown index of an element that is there.       *)
LEMMA SetKeeps ==
  ASSUME KeysAreKeys, NEW used, NEW v, NEW s, IsDescribed("Array", used, v, s),
         NEW arg \in Arguments, NEW i \in DOMAIN s, NEW key \in {IntKey(i - 1), NoKey}
  PROVE  IsDescribed("Array", used, Insert(v, key, arg[2]), [s EXCEPT ![i] = arg[1]])
<1> DEFINE u == Insert(v, key, arg[2])
           t == [s EXCEPT ![i] = arg[1]]
<1>1. /\ v \in LiveValue /\ v[<<>>].targets = {} /\ s \in Seq(Callable)
      /\ ArrayIsDescribed(v, s)
  BY DescribedIsLive
<1>2. /\ arg[1] \in Callable /\ arg[2] \in FiniteValue /\ Covers(View(arg[2], <<>>), arg[1])
  BY ArgumentFacts
<1>3. t \in Seq(Callable) /\ Len(t) = Len(s) /\ DOMAIN t = DOMAIN s /\ DOMAIN s = 1 .. Len(s)
      /\ \A j \in DOMAIN s : t[j] = IF j = i THEN arg[1] ELSE s[j]
  BY <1>1, <1>2
<1>4. /\ \A j \in DOMAIN s : EntryIsCovered(v, IntKey(j - 1), s[j])
      /\ IsFiniteSet(v[<<>>].lengths)
      /\ v[<<>>].lengths # {} => Len(s) \in v[<<>>].lengths /\ v[<<>>].membersComplete
  BY <1>1 DEF ArrayIsDescribed
<1>5. /\ \A n \in Nat : IntKey(n) \in Key \ {Dynamic}
      /\ \A n, m : IntKey(n) = IntKey(m) => n = m
      /\ Dynamic \in Key
  BY KeyFacts DEF KeysAreKeys
<1>6. \A j \in DOMAIN s : j - 1 \in Nat /\ (j - 1 = i - 1 => j = i)
  BY <1>3
<1>7. key = NoKey \/ key \in Key \ {Dynamic}
  BY <1>5, <1>6
<1>8. /\ u \in LiveValue /\ u[<<>>] = v[<<>>]
      /\ \A k \in Key : key \in {k, NoKey} => EntryIsCovered(u, k, arg[1])
      /\ \A d : \A k \in Key \ {Dynamic} : key # k /\ EntryIsCovered(v, k, d) => EntryIsCovered(u, k, d)
  BY <1>1, <1>2, <1>5, <1>7, InsertCovers
<1> HIDE DEF u, t
<1>9. ASSUME NEW j \in DOMAIN s
      PROVE  EntryIsCovered(u, IntKey(j - 1), t[j])
  <2>1. CASE j = i
    BY <1>3, <1>5, <1>6, <1>8, <2>1
  <2>2. CASE j # i /\ key = NoKey
    <3>1. NoKey # IntKey(j - 1)
      BY DEF NoKey, IntKey
    <3> QED
      BY <1>3, <1>4, <1>5, <1>6, <1>8, <2>2, <3>1
  <2>3. CASE j # i /\ key = IntKey(i - 1)
    <3>1. key # IntKey(j - 1)
      BY <1>5, <1>6, <2>3
    <3> QED
      BY <1>3, <1>4, <1>5, <1>6, <1>8, <2>3, <3>1
  <2> QED
    BY <2>1, <2>2, <2>3
<1>10. ArrayIsDescribed(u, t)
  BY <1>3, <1>4, <1>8, <1>9 DEF ArrayIsDescribed
<1> QED
  <2>1. IsDescribed("Array", used, u, t)
    BY <1>1, <1>3, <1>8, <1>10, DescribedIsLive
  <2> QED
    BY <2>1 DEF u, t

(* A pop drops the last element and shifts the tracked lengths.            *)
LEMMA PopKeeps ==
  ASSUME KeysAreKeys, NEW used, NEW v, NEW s, IsDescribed("Array", used, v, s), s # <<>>
  PROVE  IsDescribed("Array", used, ArrayPop(v), Front(s))
<1> DEFINE u == ArrayPop(v)
           t == Front(s)
<1>1. /\ v \in LiveValue /\ v[<<>>].targets = {} /\ s \in Seq(Callable)
      /\ ArrayIsDescribed(v, s)
  BY DescribedIsLive
<1>2. /\ Len(s) \in Nat \ {0} /\ t \in Seq(Callable) /\ Len(t) = Len(s) - 1
      /\ DOMAIN t = 1 .. (Len(s) - 1) /\ DOMAIN s = 1 .. Len(s)
      /\ \A i \in DOMAIN t : i \in DOMAIN s /\ t[i] = s[i] /\ i - 1 \in Nat
  <2>1. Len(s) \in Nat \ {0}
    BY <1>1, EmptySeq
  <2>2. DOMAIN s = 1 .. Len(s) /\ \A i \in 1 .. (Len(s) - 1) : i \in 1 .. Len(s) /\ i - 1 \in Nat
    BY <1>1, <2>1
  <2>3. \A i \in 1 .. (Len(s) - 1) : s[i] \in Callable
    BY <1>1, <2>2
  <2>4. /\ t \in Seq(Callable)
        /\ Len(t) = IF 1 <= Len(s) - 1 THEN Len(s) - 1 - 1 + 1 ELSE 0
        /\ \A i \in 1 .. (Len(s) - 1) - 1 + 1 : t[i] = s[1 + i - 1]
    <3>1. 1 \in Int /\ Len(s) - 1 \in Int
      BY <2>1
    <3> QED
      BY <2>3, <3>1, SubSeqProperties DEF Front
  <2>5. Len(t) = Len(s) - 1 /\ \A i \in 1 .. (Len(s) - 1) : t[i] = s[i]
    <3> HIDE DEF t
    <3>1. Len(t) = Len(s) - 1
      <4>1. \A n \in Nat \ {0} : (1 <= n - 1 => n - 1 - 1 + 1 = n - 1) /\ (~(1 <= n - 1) => 0 = n - 1)
        OBVIOUS
      <4> QED
        BY <2>1, <2>4, <4>1
    <3>2. ASSUME NEW n \in Nat, NEW i \in 1 .. n
          PROVE  i \in 1 .. n - 1 + 1 /\ 1 + i - 1 = i
      <4>1. i \in Int /\ n \in Int /\ 1 <= i /\ i <= n
        OBVIOUS
      <4>2. n - 1 + 1 = n /\ 1 + i - 1 = i
        BY <4>1
      <4> QED
        BY <4>1, <4>2
    <3>3. Len(s) - 1 \in Nat
      BY <2>1
    <3> QED
      BY <2>4, <3>1, <3>2, <3>3
  <2>6. DOMAIN t = 1 .. (Len(s) - 1)
    BY <2>4, <2>5
  <2> HIDE DEF t
  <2> QED
    BY <2>1, <2>2, <2>4, <2>5, <2>6
<1>3. /\ \A j \in DOMAIN s : EntryIsCovered(v, IntKey(j - 1), s[j])
      /\ IsFiniteSet(v[<<>>].lengths)
      /\ v[<<>>].lengths # {} => Len(s) \in v[<<>>].lengths /\ v[<<>>].membersComplete
  BY <1>1 DEF ArrayIsDescribed
<1>4. Dynamic \in Key /\ \A n \in Nat : IntKey(n) \in Key
  BY DEF KeysAreKeys
<1>5. /\ u \in LiveValue /\ u[<<>>].targets = v[<<>>].targets
      /\ u[<<>>].membersComplete = v[<<>>].membersComplete
      /\ IsFiniteSet(u[<<>>].lengths)
      /\ u[<<>>].lengths # {} => v[<<>>].lengths # {} /\ Len(s) - 1 \in u[<<>>].lengths
      /\ \A c : \A k \in Key : EntryIsCovered(v, k, c) => EntryIsCovered(u, k, c)
  BY <1>1, <1>2, <1>3, <1>4, PopCovers
<1> HIDE DEF u, t
<1>6. \A i \in DOMAIN t : EntryIsCovered(u, IntKey(i - 1), t[i])
  BY <1>2, <1>3, <1>4, <1>5
<1>7. ArrayIsDescribed(u, t)
  BY <1>2, <1>3, <1>5, <1>6 DEF ArrayIsDescribed
<1> QED
  <2>1. IsDescribed("Array", used, u, t)
    BY <1>1, <1>2, <1>5, <1>7, DescribedIsLive
  <2> QED
    BY <2>1 DEF u, t

-----------------------------------------------------------------------------
(* Maps.  What each write leaves to show: where the entries lead.          *)
LEMMA MapKeeps ==
  ASSUME NEW used, NEW v, NEW map, IsDescribed("Map", used, v, map),
         NEW u \in LiveValue, u[<<>>] = v[<<>>], NEW next, DOMAIN next \subseteq Keys,
         \A k \in DOMAIN next : EntryIsCovered(u, k, next[k])
  PROVE  IsDescribed("Map", used, u, next)
<1>1. v[<<>>].targets = {} /\ MapIsDescribed(v, map, used)
  BY DescribedIsLive
<1>2. MapIsDescribed(u, next, used)
  BY <1>1 DEF MapIsDescribed
<1> QED
  BY <1>1, <1>2, DescribedIsLive

(* An unconditional write of a map, at a constant or unknown key.          *)
LEMMA StoreKeeps ==
  ASSUME KeysAreKeys, NEW used, NEW v, NEW map, IsDescribed("Map", used, v, map),
         NEW arg \in Arguments, NEW k \in Keys, NEW key \in {k, NoKey}
  PROVE  IsDescribed("Map", used, Insert(v, key, arg[2]), With(map, k, arg[1]))
<1> DEFINE u == Insert(v, key, arg[2])
           next == With(map, k, arg[1])
<1>1. /\ v \in LiveValue /\ DOMAIN map \subseteq Keys /\ MapIsDescribed(v, map, used)
  BY DescribedIsLive
<1>2. /\ arg[2] \in FiniteValue /\ Covers(View(arg[2], <<>>), arg[1])
  BY ArgumentFacts
<1>3. Keys \subseteq Key \ {Dynamic} /\ NoKey \notin Keys /\ Dynamic \in Key
  BY DEF KeysAreKeys
<1>4. key = NoKey \/ key \in Key \ {Dynamic}
  BY <1>3
<1>5. /\ u \in LiveValue /\ u[<<>>] = v[<<>>]
      /\ \A j \in Key : key \in {j, NoKey} => EntryIsCovered(u, j, arg[1])
      /\ \A d : \A j \in Key \ {Dynamic} : key # j /\ EntryIsCovered(v, j, d) => EntryIsCovered(u, j, d)
  BY <1>1, <1>2, <1>3, <1>4, InsertCovers
<1>6. /\ DOMAIN next = DOMAIN map \cup {k} /\ next[k] = arg[1]
      /\ \A j \in DOMAIN map : j # k => next[j] = map[j]
  BY DEF With
<1>7. \A j \in DOMAIN map : EntryIsCovered(v, j, map[j])
  BY <1>1 DEF MapIsDescribed
<1> HIDE DEF u, next
<1>8. ASSUME NEW j \in DOMAIN next
      PROVE  EntryIsCovered(u, j, next[j])
  <2>1. CASE j = k
    BY <1>3, <1>5, <1>6, <2>1
  <2>2. CASE j # k
    <3>1. j \in DOMAIN map /\ j \in Keys /\ key # j
      BY <1>1, <1>3, <1>6, <2>2
    <3> QED
      BY <1>3, <1>5, <1>6, <1>7, <2>2, <3>1
  <2> QED
    BY <2>1, <2>2
<1>9. DOMAIN next \subseteq Keys
  BY <1>1, <1>6
<1>10. IsDescribed("Map", used, u, next)
  BY <1>5, <1>8, <1>9, MapKeeps
<1> QED
  BY <1>10 DEF u, next

(* A conditional write may have happened or not.  It happens to an entry   *)
(* that is there, unless the method is an add; an add keeps an entry that  *)
(* is there covered because a missing entry stands for nothing.            *)
LEMMA OfferKeeps ==
  ASSUME KeysAreKeys, NEW used, NEW v, NEW map, IsDescribed("Map", used, v, map),
         NEW arg \in Arguments, NEW k \in Keys, NEW key \in {k, NoKey},
         NEW next,
         \/ next = With(map, k, arg[1])
         \/ next = map /\ (k \in DOMAIN map => used \cap Adds # {})
  PROVE  IsDescribed("Map", used, MapOffer(v, key, arg[2]), next)
<1> DEFINE u == MapOffer(v, key, arg[2])
<1>1. /\ v \in LiveValue /\ DOMAIN map \subseteq Keys /\ MapIsDescribed(v, map, used)
  BY DescribedIsLive
<1>2. /\ arg[2] \in FiniteValue /\ Covers(View(arg[2], <<>>), arg[1])
  BY ArgumentFacts
<1>3. Keys \subseteq Key \ {Dynamic} /\ NoKey \notin Keys /\ Dynamic \in Key
  BY DEF KeysAreKeys
<1>4. key = NoKey \/ key \in Key \ {Dynamic}
  BY <1>3
<1>5. /\ u \in LiveValue /\ u[<<>>] = v[<<>>]
      /\ \A j \in Key : key \in {j, NoKey} => EntryIsCovered(u, j, arg[1])
      /\ \A d : \A j \in Key \ {Dynamic} :
           (key # j \/ v[<<>>].membersComplete) /\ EntryIsCovered(v, j, d) => EntryIsCovered(u, j, d)
  BY <1>1, <1>2, <1>3, <1>4, OfferCovers
<1>6. /\ DOMAIN With(map, k, arg[1]) = DOMAIN map \cup {k} /\ With(map, k, arg[1])[k] = arg[1]
      /\ \A j \in DOMAIN map : j # k => With(map, k, arg[1])[j] = map[j]
  BY DEF With
<1>7. /\ \A j \in DOMAIN map : EntryIsCovered(v, j, map[j])
      /\ used \cap Adds # {} => v[<<>>].membersComplete
  BY <1>1 DEF MapIsDescribed
<1> HIDE DEF u
<1>8. ASSUME NEW j \in DOMAIN map, j # k
      PROVE  EntryIsCovered(u, j, map[j])
  <2>1. j \in Keys /\ key # j
    BY <1>1, <1>3, <1>8
  <2> QED
    BY <1>3, <1>5, <1>7, <1>8, <2>1
<1>9. DOMAIN next \subseteq Keys /\ \A j \in DOMAIN next : EntryIsCovered(u, j, next[j])
  <2>1. CASE next = With(map, k, arg[1])
    <3>1. EntryIsCovered(u, k, next[k])
      BY <1>3, <1>5, <1>6, <2>1
    <3> QED
      BY <1>1, <1>6, <1>8, <2>1, <3>1
  <2>2. CASE next = map /\ (k \in DOMAIN map => used \cap Adds # {})
    <3>1. k \in DOMAIN map => EntryIsCovered(u, k, map[k])
      BY <1>3, <1>5, <1>7, <2>2
    <3> QED
      BY <1>1, <1>8, <2>2, <3>1
  <2> QED
    BY <2>1, <2>2
<1>10. IsDescribed("Map", used, u, next)
  BY <1>5, <1>9, MapKeeps
<1> QED
  BY <1>10 DEF u

(* A deletion, of a key that may not be there.                             *)
LEMMA DeleteKeeps ==
  ASSUME KeysAreKeys, NEW used, NEW v, NEW map, IsDescribed("Map", used, v, map),
         NEW k \in Keys, NEW key \in {k, NoKey}
  PROVE  IsDescribed("Map", used, MapDelete(v, key), [j \in DOMAIN map \ {k} |-> map[j]])
<1> DEFINE u == MapDelete(v, key)
           next == [j \in DOMAIN map \ {k} |-> map[j]]
<1>1. /\ v \in LiveValue /\ DOMAIN map \subseteq Keys /\ MapIsDescribed(v, map, used)
  BY DescribedIsLive
<1>2. Keys \subseteq Key \ {Dynamic} /\ NoKey \notin Keys /\ Dynamic \in Key
  BY DEF KeysAreKeys
<1>3. key = NoKey \/ key \in Key \ {Dynamic}
  BY <1>2
<1>4. /\ u \in LiveValue /\ u[<<>>] = v[<<>>]
      /\ \A d : \A j \in Key \ {Dynamic} : key # j /\ EntryIsCovered(v, j, d) => EntryIsCovered(u, j, d)
  BY <1>1, <1>2, <1>3, DeleteCovers
<1>5. \A j \in DOMAIN map : EntryIsCovered(v, j, map[j])
  BY <1>1 DEF MapIsDescribed
<1>6. DOMAIN next = DOMAIN map \ {k} /\ \A j \in DOMAIN next : next[j] = map[j]
  OBVIOUS
<1> HIDE DEF u, next
<1>7. ASSUME NEW j \in DOMAIN next
      PROVE  EntryIsCovered(u, j, next[j])
  <2>1. j \in DOMAIN map /\ j \in Keys /\ key # j /\ j \in Key \ {Dynamic}
    BY <1>1, <1>2, <1>6
  <2> QED
    BY <1>4, <1>5, <1>6, <2>1
<1>8. DOMAIN next \subseteq Keys
  BY <1>1, <1>6
<1>9. IsDescribed("Map", used, u, next)
  BY <1>4, <1>7, <1>8, MapKeeps
<1> QED
  BY <1>9 DEF u, next

-----------------------------------------------------------------------------
(* Lists.                                                                  *)
LEMMA PrependKeeps ==
  ASSUME KeysAreKeys, NEW used, NEW v, NEW s, IsDescribed("LispList", used, v, s),
         NEW arg \in Arguments
  PROVE  IsDescribed("LispList", used, PrependHead(v, arg[2]), <<arg[1]>> \o s)
<1> DEFINE u == PrependHead(v, arg[2])
           t == <<arg[1]>> \o s
<1>1. /\ v \in LiveValue /\ v[<<>>].targets = {} /\ s \in Seq(Callable)
      /\ ListIsDescribed(v, s)
  BY DescribedIsLive
<1>2. /\ arg[1] \in Callable /\ arg[2] \in LiveValue /\ Covers(View(arg[2], <<>>), arg[1])
  BY ArgumentFacts
<1>3. SpineIsPlain(v, TvmTuple) /\ \A i \in DOMAIN s : HeadIsCovered(v, HeadOf(i), s[i])
  BY <1>1 DEF ListIsDescribed
<1>4. /\ u \in LiveValue /\ u[<<>>] = v[<<>>] /\ SpineIsPlain(u, TvmTuple)
      /\ HeadIsCovered(u, HeadOf(1), arg[1])
      /\ \A i \in Nat \ {0}, d \in Callable :
           HeadIsCovered(v, HeadOf(i), d) => HeadIsCovered(u, HeadOf(i + 1), d)
  BY <1>1, <1>2, <1>3, PrependCovers
<1>5. <<arg[1]>> \in Seq(Callable) /\ Len(<<arg[1]>>) = 1 /\ <<arg[1]>>[1] = arg[1]
  BY <1>2
<1>6. /\ t \in Seq(Callable) /\ Len(t) = 1 + Len(s)
      /\ \A i \in 1 .. 1 + Len(s) : t[i] = IF i <= 1 THEN <<arg[1]>>[i] ELSE s[i - 1]
  BY <1>1, <1>5, ConcatProperties
<1>7. Len(s) \in Nat /\ DOMAIN s = 1 .. Len(s) /\ \A i \in DOMAIN s : s[i] \in Callable
  BY <1>1
<1> HIDE DEF u, t
<1>8. DOMAIN t = 1 .. 1 + Len(s)
  BY <1>6
<1>9. ASSUME NEW i \in DOMAIN t
      PROVE  HeadIsCovered(u, HeadOf(i), t[i])
  <2>1. CASE i = 1
    <3>1. t[i] = arg[1]
      BY <1>5, <1>6, <1>8, <2>1
    <3> QED
      BY <1>4, <2>1, <3>1
  <2>2. CASE i # 1
    <3> DEFINE j == i - 1
    <3>1. j \in Nat \ {0} /\ j \in 1 .. Len(s) /\ j + 1 = i /\ ~(i <= 1)
      BY <1>7, <1>8, <2>2
    <3>2. t[i] = s[j]
      BY <1>6, <1>8, <3>1
    <3> HIDE DEF j
    <3>3. HeadIsCovered(v, HeadOf(j), s[j]) /\ s[j] \in Callable
      BY <1>3, <1>7, <3>1
    <3>4. HeadIsCovered(u, HeadOf(j + 1), s[j])
      BY <1>4, <3>1, <3>3
    <3> QED
      BY <3>1, <3>2, <3>4
  <2> QED
    BY <2>1, <2>2
<1>10. ListIsDescribed(u, t)
  BY <1>4, <1>9 DEF ListIsDescribed
<1>11. IsDescribed("LispList", used, u, t)
  BY <1>1, <1>4, <1>6, <1>10, DescribedIsLive
<1> QED
  BY <1>11 DEF u, t

(* A pop of the head moves every cell one place up.                        *)
LEMMA PopHeadKeeps ==
  ASSUME KeysAreKeys, NEW used, NEW v, NEW s, IsDescribed("LispList", used, v, s), s # <<>>
  PROVE  IsDescribed("LispList", used, PopHead(v), Tail(s))
<1> DEFINE u == PopHead(v)
           t == Tail(s)
<1>1. /\ v \in LiveValue /\ v[<<>>].targets = {} /\ s \in Seq(Callable)
      /\ ListIsDescribed(v, s)
  BY DescribedIsLive
<1>2. SpineIsPlain(v, TvmTuple) /\ \A i \in DOMAIN s : HeadIsCovered(v, HeadOf(i), s[i])
  BY <1>1 DEF ListIsDescribed
<1>3. /\ u \in LiveValue /\ u[<<>>] = v[<<>>] /\ SpineIsPlain(u, TvmTuple)
      /\ \A i \in Nat \ {0}, d \in Callable :
           HeadIsCovered(v, HeadOf(i + 1), d) => HeadIsCovered(u, HeadOf(i), d)
  BY <1>1, <1>2, PopHeadCovers
<1>4. Len(s) \in Nat \ {0} /\ DOMAIN s = 1 .. Len(s) /\ \A i \in DOMAIN s : s[i] \in Callable
  BY <1>1, EmptySeq
<1>5. /\ t \in Seq(Callable) /\ Len(t) = Len(s) - 1 /\ DOMAIN t = 1 .. Len(t)
      /\ \A i \in 1 .. Len(t) : t[i] = s[i + 1]
  BY <1>1, HeadTailProperties
<1> HIDE DEF u, t
<1>6. ASSUME NEW i \in DOMAIN t
      PROVE  HeadIsCovered(u, HeadOf(i), t[i])
  <2>1. i \in Nat \ {0} /\ i + 1 \in DOMAIN s /\ t[i] = s[i + 1]
    BY <1>4, <1>5
  <2> QED
    BY <1>2, <1>3, <1>4, <2>1
<1>7. ListIsDescribed(u, t)
  BY <1>3, <1>6 DEF ListIsDescribed
<1>8. IsDescribed("LispList", used, u, t)
  BY <1>1, <1>3, <1>5, <1>7, DescribedIsLive
<1> QED
  BY <1>8 DEF u, t

-----------------------------------------------------------------------------
(* Where two branches meet, the merged value describes what either of them *)
(* left in the collection.                                                 *)
LEMMA BranchesKeep ==
  ASSUME KeysAreKeys, NEW k, NEW used, NEW v, NEW s, NEW r, NEW z,
         IsDescribed(k, used, v, s), IsDescribed(k, used, r, z)
  PROVE  IsDescribed(k, used, Merge(v, r), s) /\ IsDescribed(k, used, Merge(r, v), s)
<1> DEFINE m == Merge(v, r)
<1>1. /\ k \in {"Array", "Map", "LispList"}
      /\ v \in LiveValue /\ v[<<>>].targets = {} /\ r \in LiveValue /\ r[<<>>].targets = {}
  BY DescribedIsLive
<1>2. /\ m \in LiveValue /\ m[<<>>] = Join(v[<<>>], r[<<>>]) /\ m = Merge(r, v)
      /\ \A c : \A j \in Key : EntryIsCovered(v, j, c) => EntryIsCovered(m, j, c)
  BY <1>1, MergeCovers DEF KeysAreKeys
<1>3. /\ m[<<>>].targets = v[<<>>].targets \cup r[<<>>].targets
      /\ m[<<>>].membersComplete = (v[<<>>].membersComplete /\ r[<<>>].membersComplete)
      /\ m[<<>>].lengths = IF v[<<>>].lengths = {} \/ r[<<>>].lengths = {} THEN {}
                           ELSE v[<<>>].lengths \cup r[<<>>].lengths
  BY <1>2 DEF Join
<1>4. m[<<>>].targets = {}
  BY <1>1, <1>3
<1>5. SpineIsPlain(v, TvmTuple) /\ SpineIsPlain(r, TvmTuple) =>
        /\ SpineIsPlain(m, TvmTuple)
        /\ \A n \in Nat \ {0}, c \in Callable :
             HeadIsCovered(v, HeadOf(n), c) => HeadIsCovered(m, HeadOf(n), c)
  BY <1>1, ListMergeCovers
<1> HIDE DEF m
<1>6. CASE k = "Array"
  <2>1. /\ s \in Seq(Callable) /\ ArrayIsDescribed(v, s) /\ ArrayIsDescribed(r, z)
    BY <1>6, DescribedIsLive
  <2>2. /\ \A i \in DOMAIN s : EntryIsCovered(v, IntKey(i - 1), s[i])
        /\ v[<<>>].lengths # {} => Len(s) \in v[<<>>].lengths /\ v[<<>>].membersComplete
        /\ r[<<>>].lengths # {} => r[<<>>].membersComplete
        /\ IsFiniteSet(v[<<>>].lengths) /\ IsFiniteSet(r[<<>>].lengths)
    BY <2>1 DEF ArrayIsDescribed
  <2>3. \A i \in DOMAIN s : IntKey(i - 1) \in Key
    <3>1. \A i \in DOMAIN s : i - 1 \in Nat
      BY <2>1
    <3> QED
      BY <3>1 DEF KeysAreKeys
  <2>4. IsFiniteSet(m[<<>>].lengths)
    <3>1. IsFiniteSet(v[<<>>].lengths \cup r[<<>>].lengths)
      BY <2>2, FS_Union
    <3>2. m[<<>>].lengths \in {{}, v[<<>>].lengths \cup r[<<>>].lengths}
      BY <1>3
    <3> QED
      BY <3>1, <3>2, FS_EmptySet
  <2>5. m[<<>>].lengths # {} => Len(s) \in m[<<>>].lengths /\ m[<<>>].membersComplete
    BY <1>3, <2>2
  <2>6. ArrayIsDescribed(m, s)
    BY <1>2, <2>2, <2>3, <2>4, <2>5 DEF ArrayIsDescribed
  <2>7. IsDescribed(k, used, m, s)
    BY <1>2, <1>4, <1>6, <2>1, <2>6, DescribedIsLive
  <2> QED
    BY <1>2, <2>7 DEF m
<1>7. CASE k = "Map"
  <2>1. /\ DOMAIN s \subseteq Keys /\ MapIsDescribed(v, s, used) /\ MapIsDescribed(r, z, used)
    BY <1>7, DescribedIsLive
  <2>2. /\ \A i \in DOMAIN s : EntryIsCovered(v, i, s[i])
        /\ used \cap Adds # {} => v[<<>>].membersComplete /\ r[<<>>].membersComplete
    BY <2>1 DEF MapIsDescribed
  <2>3. MapIsDescribed(m, s, used)
    BY <1>2, <1>3, <2>1, <2>2 DEF MapIsDescribed, KeysAreKeys
  <2>4. IsDescribed(k, used, m, s)
    BY <1>2, <1>4, <1>7, <2>1, <2>3, DescribedIsLive
  <2> QED
    BY <1>2, <2>4 DEF m
<1>8. CASE k = "LispList"
  <2>1. /\ s \in Seq(Callable) /\ ListIsDescribed(v, s) /\ ListIsDescribed(r, z)
    BY <1>8, DescribedIsLive
  <2>2. /\ SpineIsPlain(v, TvmTuple) /\ SpineIsPlain(r, TvmTuple)
        /\ \A i \in DOMAIN s : HeadIsCovered(v, HeadOf(i), s[i])
    BY <2>1 DEF ListIsDescribed
  <2>3. \A i \in DOMAIN s : i \in Nat \ {0} /\ s[i] \in Callable
    BY <2>1
  <2>4. ListIsDescribed(m, s)
    BY <1>5, <2>2, <2>3 DEF ListIsDescribed
  <2>5. IsDescribed(k, used, m, s)
    BY <1>2, <1>4, <1>8, <2>1, <2>4, DescribedIsLive
  <2> QED
    BY <1>2, <2>5 DEF m
<1> QED
  BY <1>1, <1>6, <1>7, <1>8

-----------------------------------------------------------------------------
(* The analysis describes the collection the local starts with: empty and  *)
(* literal collections by their elements, what comes from outside by       *)
(* nothing known.                                                          *)
StartsAreSound ==
  \A start \in Starts : IsDescribed(start.kind, start.methods, start.value, start.store)

(* The description holds before the first call.                            *)
LEMMA InitIsDescribed ==
  ASSUME StartsAreSound, Init
  PROVE  ContentsAreDescribed
<1>1. PICK start \in Starts : /\ kind = start.kind /\ methods = start.methods
                              /\ value = start.value /\ store = start.store /\ saved = <<>>
  BY DEF Init
<1> QED
  BY <1>1 DEF StartsAreSound, ContentsAreDescribed

(* A call changes the value by its arm: if the arm and the runtime keep    *)
(* the description, the call does.                                         *)
LEMMA CallFacts ==
  ASSUME NEW method, NEW key, NEW w, Call(method, key, w),
         ContentsAreDescribed,
         IsDescribed(kind, methods, Written(kind, method, value, key, w), store')
  PROVE  ContentsAreDescribed'
BY DEF Call, ContentsAreDescribed

(* One lemma for each action.                                              *)
LEMMA PushStep ==
  ASSUME KeysAreKeys, ContentsAreDescribed, ArrayPush
  PROVE  ContentsAreDescribed'
<1>1. PICK arg \in Arguments : kind = "Array" /\ Call("push", NoKey, arg[2]) /\ store' = Append(store, arg[1])
  BY DEF ArrayPush
<1>2. IsDescribed("Array", methods, value, store)
  BY <1>1 DEF ContentsAreDescribed
<1>3. IsDescribed("Array", methods, PushArrayMember(value, arg[2]), Append(store, arg[1]))
  BY <1>2, PushKeeps
<1>4. IsDescribed(kind, methods, Written(kind, "push", value, NoKey, arg[2]), store')
  BY <1>1, <1>3, WrittenArms
<1> QED
  BY <1>1, <1>4, CallFacts

LEMMA SetStep ==
  ASSUME KeysAreKeys, ContentsAreDescribed, ArraySet
  PROVE  ContentsAreDescribed'
<1>1. PICK i \in DOMAIN store, constant \in BOOLEAN, arg \in Arguments :
        /\ kind = "Array"
        /\ Call("set", IF constant THEN IntKey(i - 1) ELSE NoKey, arg[2])
        /\ store' = [store EXCEPT ![i] = arg[1]]
  BY DEF ArraySet
<1>2. PICK key \in {IntKey(i - 1), NoKey} : Call("set", key, arg[2])
  BY <1>1
<1>3. IsDescribed("Array", methods, value, store)
  BY <1>1 DEF ContentsAreDescribed
<1>4. IsDescribed("Array", methods, Insert(value, key, arg[2]), [store EXCEPT ![i] = arg[1]])
  BY <1>3, SetKeeps
<1>5. IsDescribed(kind, methods, Written(kind, "set", value, key, arg[2]), store')
  BY <1>1, <1>4, WrittenArms
<1> QED
  BY <1>2, <1>5, CallFacts

LEMMA PopStep ==
  ASSUME KeysAreKeys, ContentsAreDescribed, ArrayPopLast
  PROVE  ContentsAreDescribed'
<1>1. kind = "Array" /\ store # <<>> /\ Call("pop", NoKey, Unknown) /\ store' = Front(store)
  BY DEF ArrayPopLast
<1>2. IsDescribed("Array", methods, value, store)
  BY <1>1 DEF ContentsAreDescribed
<1>3. IsDescribed("Array", methods, ArrayPop(value), Front(store))
  BY <1>1, <1>2, PopKeeps
<1>4. IsDescribed(kind, methods, Written(kind, "pop", value, NoKey, Unknown), store')
  BY <1>1, <1>3, WrittenArms
<1> QED
  BY <1>1, <1>4, CallFacts

LEMMA PrependStep ==
  ASSUME KeysAreKeys, ContentsAreDescribed, ListPrepend
  PROVE  ContentsAreDescribed'
<1>1. PICK arg \in Arguments : /\ kind = "LispList" /\ Call("prependHead", NoKey, arg[2])
                               /\ store' = <<arg[1]>> \o store
  BY DEF ListPrepend
<1>2. IsDescribed("LispList", methods, value, store)
  BY <1>1 DEF ContentsAreDescribed
<1>3. IsDescribed("LispList", methods, PrependHead(value, arg[2]), <<arg[1]>> \o store)
  BY <1>2, PrependKeeps
<1>4. IsDescribed(kind, methods, Written(kind, "prependHead", value, NoKey, arg[2]), store')
  BY <1>1, <1>3, WrittenArms
<1> QED
  BY <1>1, <1>4, CallFacts

LEMMA PopHeadStep ==
  ASSUME KeysAreKeys, ContentsAreDescribed, ListPop
  PROVE  ContentsAreDescribed'
<1>1. /\ kind = "LispList" /\ store # <<>> /\ Call("popHead", NoKey, Unknown)
      /\ store' = Tail(store)
  BY DEF ListPop
<1>2. IsDescribed("LispList", methods, value, store)
  BY <1>1 DEF ContentsAreDescribed
<1>3. IsDescribed("LispList", methods, PopHead(value), Tail(store))
  BY <1>1, <1>2, PopHeadKeeps
<1>4. IsDescribed(kind, methods, Written(kind, "popHead", value, NoKey, Unknown), store')
  BY <1>1, <1>3, WrittenArms
<1> QED
  BY <1>1, <1>4, CallFacts

LEMMA StoreStep ==
  ASSUME KeysAreKeys, ContentsAreDescribed, MapStore
  PROVE  ContentsAreDescribed'
<1>1. PICK key \in KeyArguments, arg \in Arguments, method \in Stores :
        /\ kind = "Map" /\ Fits(key) /\ Call(method, key[2], arg[2])
        /\ store' = With(store, key[1], arg[1])
  BY DEF MapStore
<1>2. key[1] \in Keys /\ key[2] \in {key[1], NoKey}
  BY <1>1 DEF KeyArguments, Fits
<1>3. IsDescribed("Map", methods, value, store)
  BY <1>1 DEF ContentsAreDescribed
<1>4. IsDescribed("Map", methods, Insert(value, key[2], arg[2]), With(store, key[1], arg[1]))
  BY <1>2, <1>3, StoreKeeps
<1>5. IsDescribed(kind, methods, Written(kind, method, value, key[2], arg[2]), store')
  BY <1>1, <1>4, WrittenArms
<1> QED
  BY <1>1, <1>5, CallFacts

LEMMA ReplaceStep ==
  ASSUME KeysAreKeys, ContentsAreDescribed, MapReplace
  PROVE  ContentsAreDescribed'
<1>1. PICK key \in KeyArguments, arg \in Arguments,
           method \in {"replaceIfExists", "replaceAndGetPrevious"} :
        /\ kind = "Map" /\ Fits(key) /\ Call(method, key[2], arg[2])
        /\ store' = IF key[1] \in DOMAIN store THEN With(store, key[1], arg[1]) ELSE store
  BY DEF MapReplace
<1>2. key[1] \in Keys /\ key[2] \in {key[1], NoKey} /\ method \in Offers
  BY <1>1 DEF KeyArguments, Fits, Offers
<1>3. IsDescribed("Map", methods, value, store)
  BY <1>1 DEF ContentsAreDescribed
<1>4. IsDescribed("Map", methods, MapOffer(value, key[2], arg[2]), store')
  <2>1. CASE key[1] \in DOMAIN store
    <3>1. store' = With(store, key[1], arg[1])
      BY <1>1, <2>1
    <3> QED
      BY <1>2, <1>3, <3>1, OfferKeeps
  <2>2. CASE key[1] \notin DOMAIN store
    BY <1>1, <1>2, <1>3, <2>2, OfferKeeps
  <2> QED
    BY <2>1, <2>2
<1>5. IsDescribed(kind, methods, Written(kind, method, value, key[2], arg[2]), store')
  BY <1>1, <1>2, <1>4, WrittenArms
<1> QED
  BY <1>1, <1>5, CallFacts

LEMMA AddStep ==
  ASSUME KeysAreKeys, ContentsAreDescribed, MapAdd
  PROVE  ContentsAreDescribed'
<1>1. PICK key \in KeyArguments, arg \in Arguments,
           method \in {"addIfNotExists", "addOrGetExisting"} :
        /\ kind = "Map" /\ Fits(key) /\ Call(method, key[2], arg[2])
        /\ store' = IF key[1] \in DOMAIN store THEN store ELSE With(store, key[1], arg[1])
  BY DEF MapAdd
<1>2. key[1] \in Keys /\ key[2] \in {key[1], NoKey} /\ method \in Offers
  BY <1>1 DEF KeyArguments, Fits, Offers
<1>3. IsDescribed("Map", methods, value, store)
  BY <1>1 DEF ContentsAreDescribed
<1>4. methods \cap Adds # {}
  BY <1>1 DEF Call, Adds
<1>5. IsDescribed("Map", methods, MapOffer(value, key[2], arg[2]), store')
  <2>1. CASE key[1] \in DOMAIN store
    BY <1>1, <1>2, <1>3, <1>4, <2>1, OfferKeeps
  <2>2. CASE key[1] \notin DOMAIN store
    BY <1>1, <1>2, <1>3, <2>2, OfferKeeps
  <2> QED
    BY <2>1, <2>2
<1>6. IsDescribed(kind, methods, Written(kind, method, value, key[2], arg[2]), store')
  BY <1>1, <1>2, <1>5, WrittenArms
<1> QED
  BY <1>1, <1>6, CallFacts

LEMMA DeleteStep ==
  ASSUME KeysAreKeys, ContentsAreDescribed, MapDeleteEntry
  PROVE  ContentsAreDescribed'
<1>1. PICK key \in KeyArguments, method \in Deletes :
        /\ kind = "Map" /\ Fits(key) /\ Call(method, key[2], Unknown)
        /\ store' = [k \in DOMAIN store \ {key[1]} |-> store[k]]
  BY DEF MapDeleteEntry
<1>2. key[1] \in Keys /\ key[2] \in {key[1], NoKey}
  BY <1>1 DEF KeyArguments, Fits
<1>3. IsDescribed("Map", methods, value, store)
  BY <1>1 DEF ContentsAreDescribed
<1>4. IsDescribed("Map", methods, MapDelete(value, key[2]), store')
  BY <1>1, <1>2, <1>3, DeleteKeeps
<1>5. IsDescribed(kind, methods, Written(kind, method, value, key[2], Unknown), store')
  BY <1>1, <1>4, WrittenArms
<1> QED
  BY <1>1, <1>5, CallFacts

LEMMA ForkStep ==
  ASSUME ContentsAreDescribed, Fork
  PROVE  ContentsAreDescribed'
BY DEF Fork, ContentsAreDescribed

LEMMA JoinStep ==
  ASSUME KeysAreKeys, ContentsAreDescribed, Join2
  PROVE  ContentsAreDescribed'
<1>1. /\ IsDescribed(kind, methods, value, store)
      /\ IsDescribed(kind, methods, saved[1], saved[2])
  BY DEF Join2, ContentsAreDescribed
<1>2. /\ IsDescribed(kind, methods, Merge(value, saved[1]), store)
      /\ IsDescribed(kind, methods, Merge(saved[1], value), store)
  BY <1>1, BranchesKeep
<1>3. /\ IsDescribed(kind, methods, Merge(saved[1], value), saved[2])
      /\ IsDescribed(kind, methods, Merge(value, saved[1]), saved[2])
  BY <1>1, BranchesKeep
<1>4. /\ value' \in {Merge(saved[1], value), Merge(value, saved[1])}
      /\ store' \in {store, saved[2]} /\ saved' = <<>> /\ kind' = kind /\ methods' = methods
  BY DEF Join2
<1> QED
  BY <1>2, <1>3, <1>4 DEF ContentsAreDescribed

(* Inductive invariant: apply_collection_mutations and                     *)
(* merge_callable_states keep the abstract value of a collection a         *)
(* description of what is in it, on the branch that runs and on the one    *)
(* that waits, whatever the calls, their order and number, the callables,  *)
(* the keys, and whether the analysis can read the keys as constants.      *)
THEOREM CollectionsAreDescribed ==
  ASSUME KeysAreKeys, StartsAreSound
  PROVE  Spec => []ContentsAreDescribed
<1>1. Init => ContentsAreDescribed
  BY InitIsDescribed
<1>2. ContentsAreDescribed /\ [Next]_vars => ContentsAreDescribed'
  <2> SUFFICES ASSUME ContentsAreDescribed, [Next]_vars
               PROVE  ContentsAreDescribed'
    OBVIOUS
  <2>1. CASE UNCHANGED vars
    BY <2>1 DEF vars, ContentsAreDescribed
  <2>2. CASE ArrayPush
    BY <2>2, PushStep
  <2>3. CASE ArraySet
    BY <2>3, SetStep
  <2>4. CASE ArrayPopLast
    BY <2>4, PopStep
  <2>5. CASE ListPrepend
    BY <2>5, PrependStep
  <2>6. CASE ListPop
    BY <2>6, PopHeadStep
  <2>7. CASE MapStore
    BY <2>7, StoreStep
  <2>8. CASE MapReplace
    BY <2>8, ReplaceStep
  <2>9. CASE MapAdd
    BY <2>9, AddStep
  <2>10. CASE MapDeleteEntry
    BY <2>10, DeleteStep
  <2>11. CASE Fork
    BY <2>11, ForkStep
  <2>12. CASE Join2
    BY <2>12, JoinStep
  <2> QED
    BY <2>1, <2>2, <2>3, <2>4, <2>5, <2>6, <2>7, <2>8, <2>9, <2>10, <2>11, <2>12 DEF Next
<1> QED
  BY <1>1, <1>2, PTL DEF Spec

-----------------------------------------------------------------------------
(* A lookup describes the entry it finds, at a constant and an unknown     *)
(* key.                                                                    *)
LEMMA LookupCovers ==
  ASSUME NEW v \in LiveValue, Dynamic \in Key, NEW k \in Key \ {NoKey}, NEW key \in {k, NoKey},
         NEW c, EntryIsCovered(v, k, c)
  PROVE  /\ Lookup(v, key) \in FiniteValue /\ Covers(View(Lookup(v, key), <<>>), c)
         /\ Describes(Lookup(v, key), c)
<1>1. Lookup(v, key) = IF key = NoKey THEN AnyMember(v) ELSE Member(v, k)
  BY DEF Lookup
<1>2. Lookup(v, key) \in FiniteValue /\ Covers(View(Lookup(v, key), <<>>), c)
  BY <1>1, MemberCovers, AnyMemberCovers
<1> QED
  BY <1>2, CoversDescribes

(* What the invariant says of the reads: get, first and last of an array.  *)
LEMMA ArraysAreRead ==
  ASSUME KeysAreKeys, ContentsAreDescribed
  PROVE  ArrayReadsAreSound
<1> SUFFICES ASSUME kind = "Array"
             PROVE  /\ \A i \in DOMAIN store : \A key \in {IntKey(i - 1), NoKey} :
                         Describes(Returned(kind, "get", value, key, Unknown), store[i])
                    /\ store # <<>> =>
                         /\ Describes(Returned(kind, "first", value, NoKey, Unknown), store[1])
                         /\ Describes(Returned(kind, "last", value, NoKey, Unknown), store[Len(store)])
  BY DEF ArrayReadsAreSound
<1>1. /\ value \in LiveValue /\ store \in Seq(Callable) /\ ArrayIsDescribed(value, store)
  <2>1. IsDescribed("Array", methods, value, store)
    BY DEF ContentsAreDescribed
  <2> QED
    BY <2>1, DescribedIsLive
<1>2. /\ \A i \in DOMAIN store : EntryIsCovered(value, IntKey(i - 1), store[i])
      /\ IsFiniteSet(value[<<>>].lengths)
      /\ value[<<>>].lengths # {} => Len(store) \in value[<<>>].lengths
  BY <1>1 DEF ArrayIsDescribed
<1>3. Dynamic \in Key /\ \A n \in Nat : IntKey(n) \in Key \ {NoKey}
  <2>1. \A n : IntKey(n) # NoKey
    BY DEF IntKey, NoKey
  <2> QED
    BY <2>1 DEF KeysAreKeys
<1>4. /\ Len(store) \in Nat /\ DOMAIN store = 1 .. Len(store)
      /\ \A i \in DOMAIN store : i - 1 \in Nat
      /\ store # <<>> => Len(store) \in Nat \ {0} /\ Len(store) \in DOMAIN store /\ 1 \in DOMAIN store
  BY <1>1, EmptySeq
<1>5. ASSUME NEW i \in DOMAIN store, NEW key \in {IntKey(i - 1), NoKey}
      PROVE  Describes(Returned(kind, "get", value, key, Unknown), store[i])
  <2>1. Describes(Lookup(value, key), store[i])
    BY <1>1, <1>2, <1>3, <1>4, LookupCovers
  <2> QED
    BY <2>1, ReturnedArms
<1>6. ASSUME store # <<>>
      PROVE  Describes(Returned(kind, "first", value, NoKey, Unknown), store[1])
  <2>1. EntryIsCovered(value, IntKey(1 - 1), store[1])
    BY <1>2, <1>4, <1>6
  <2>2. EntryIsCovered(value, IntKey(0), store[1]) /\ IntKey(0) \in Key
    BY <1>3, <2>1
  <2>3. Describes(Member(value, IntKey(0)), store[1])
    BY <1>1, <1>3, <2>2, MemberCovers, CoversDescribes
  <2> QED
    BY <2>3, ReturnedArms DEF ArrayFirst
<1>7. ASSUME store # <<>>
      PROVE  Describes(Returned(kind, "last", value, NoKey, Unknown), store[Len(store)])
  <2>1. EntryIsCovered(value, IntKey(Len(store) - 1), store[Len(store)])
    BY <1>2, <1>4, <1>7
  <2>2. Len(store) \in Nat \ {0}
    BY <1>4, <1>7
  <2>3. /\ ArrayLast(value) \in FiniteValue
        /\ Covers(View(ArrayLast(value), <<>>), store[Len(store)])
    BY <1>1, <1>2, <2>1, <2>2, ArrayLastCovers
  <2> QED
    BY <2>3, ReturnedArms, CoversDescribes
<1> QED
  BY <1>5, <1>6, <1>7

(* The tracked lengths.                                                    *)
LEMMA LengthsAreTracked ==
  ASSUME ContentsAreDescribed
  PROVE  LengthIsTracked
BY DEF ContentsAreDescribed, IsDescribed, ArrayIsDescribed, LengthIsTracked

(* mustGet, lookups and traversals of a map.                               *)
LEMMA MapsAreRead ==
  ASSUME KeysAreKeys, ContentsAreDescribed
  PROVE  MapReadsAreSound
<1> SUFFICES ASSUME kind = "Map", NEW k \in DOMAIN store
             PROVE  /\ \A key \in {k, NoKey} :
                         /\ Describes(Returned(kind, "mustGet", value, key, Unknown), store[k])
                         /\ Describes(Member(Returned(kind, "get", value, key, Unknown), MapValue), store[k])
                    /\ Describes(Member(Returned(kind, "findFirst", value, NoKey, Unknown), MapValue), store[k])
  BY DEF MapReadsAreSound
<1>1. /\ value \in LiveValue /\ k \in Keys /\ EntryIsCovered(value, k, store[k])
  <2>1. IsDescribed("Map", methods, value, store)
    BY DEF ContentsAreDescribed
  <2>2. value \in LiveValue /\ DOMAIN store \subseteq Keys /\ MapIsDescribed(value, store, methods)
    BY <2>1, DescribedIsLive
  <2> QED
    BY <2>2 DEF MapIsDescribed
<1>2. k \in Key \ {NoKey} /\ k \in Key /\ Dynamic \in Key /\ {Dynamic, MapValue} \subseteq Key
  BY <1>1 DEF KeysAreKeys
<1>3. ASSUME NEW key \in {k, NoKey}
      PROVE  /\ Describes(Returned(kind, "mustGet", value, key, Unknown), store[k])
             /\ Describes(Member(Returned(kind, "get", value, key, Unknown), MapValue), store[k])
  <2>1. /\ Lookup(value, key) \in FiniteValue /\ Covers(View(Lookup(value, key), <<>>), store[k])
        /\ Describes(Lookup(value, key), store[k])
    BY <1>1, <1>2, LookupCovers
  <2>2. Describes(Member(MapLookupResult(Lookup(value, key)), MapValue), store[k])
    BY <1>2, <2>1, LookupResultCovers
  <2> QED
    BY <2>1, <2>2, ReturnedArms
<1>4. Describes(Member(Returned(kind, "findFirst", value, NoKey, Unknown), MapValue), store[k])
  <2>1. AnyMember(value) \in FiniteValue /\ Covers(View(AnyMember(value), <<>>), store[k])
    BY <1>1, <1>2, AnyMemberCovers
  <2>2. Describes(Member(MapLookupResult(AnyMember(value)), MapValue), store[k])
    BY <1>2, <2>1, LookupResultCovers
  <2> QED
    BY <2>2, ReturnedArms
<1> QED
  BY <1>3, <1>4

(* The heads of the tails of a list.                                       *)
LEMMA ListsAreRead ==
  ASSUME KeysAreKeys, ContentsAreDescribed
  PROVE  ListReadsAreSound
<1> SUFFICES ASSUME kind = "LispList", NEW i \in DOMAIN store
             PROVE  Describes(ListHead(TailOf(value, i)), store[i])
  BY DEF ListReadsAreSound, TailOf
<1>1. /\ value \in LiveValue /\ store \in Seq(Callable) /\ ListIsDescribed(value, store)
  <2>1. IsDescribed("LispList", methods, value, store)
    BY DEF ContentsAreDescribed
  <2> QED
    BY <2>1, DescribedIsLive
<1>2. SpineIsPlain(value, TvmTuple) /\ HeadIsCovered(value, HeadOf(i), store[i])
  BY <1>1 DEF ListIsDescribed
<1>3. i \in Nat \ {0} /\ store[i] \in Callable
  BY <1>1
<1> QED
  BY <1>1, <1>2, <1>3, ListReadCovers

(* Packing into a low-level tuple and unpacking elsewhere.                 *)
LEMMA PackingKeeps ==
  ASSUME KeysAreKeys, ContentsAreDescribed
  PROVE  PackingKeepsElements
<1> SUFFICES ASSUME NEW k \in DOMAIN store, NEW slot \in {IntKey(0), FieldKey("0")}
             PROVE  Describes(Member(UnpackedTuple(PackedTuple(value)), slot), store[k])
  BY DEF PackingKeepsElements
<1>1. /\ kind \in {"Array", "Map", "LispList"} /\ value \in LiveValue /\ value[<<>>].targets = {}
      /\ kind = "Array" => store \in Seq(Callable) /\ ArrayIsDescribed(value, store)
      /\ kind = "Map" => DOMAIN store \subseteq Keys /\ MapIsDescribed(value, store, methods)
      /\ kind = "LispList" => store \in Seq(Callable) /\ ListIsDescribed(value, store)
  <2>1. IsDescribed(kind, methods, value, store)
    BY DEF ContentsAreDescribed
  <2> QED
    BY <2>1, DescribedIsLive
<1>2. /\ Dynamic \in Key /\ slot \in Key /\ \A n \in Nat : IntKey(n) \in Key
      /\ Keys \subseteq Key
  BY DEF KeysAreKeys, First
<1>3. AnyNestedCallable(value) \in LiveValue /\ Covers(View(AnyNestedCallable(value), <<>>), store[k])
  <2>1. CASE kind = "Array"
    <3>1. EntryIsCovered(value, IntKey(k - 1), store[k])
      BY <1>1, <2>1 DEF ArrayIsDescribed
    <3>2. IntKey(k - 1) \in Key
      <4>1. k - 1 \in Nat
        BY <1>1, <2>1
      <4> QED
        BY <1>2, <4>1
    <3> QED
      BY <1>1, <1>2, <3>1, <3>2, EntryNested
  <2>2. CASE kind = "Map"
    <3>1. EntryIsCovered(value, k, store[k]) /\ k \in Key
      BY <1>1, <1>2, <2>2 DEF MapIsDescribed
    <3> QED
      BY <1>1, <1>2, <3>1, EntryNested
  <2>3. CASE kind = "LispList"
    <3>1. SpineIsPlain(value, TvmTuple) /\ HeadIsCovered(value, HeadOf(k), store[k])
      BY <1>1, <2>3 DEF ListIsDescribed
    <3>2. k \in Nat \ {0}
      BY <1>1, <2>3
    <3> QED
      BY <1>1, <3>1, <3>2, HeadNested
  <2> QED
    BY <1>1, <2>1, <2>2, <2>3
<1> QED
  BY <1>1, <1>2, <1>3, PackingCovers

-----------------------------------------------------------------------------
(* Whatever get, first and last of an array return at run time is among    *)
(* the targets of a call the analysis reports complete                     *)
(* (collection_call_value).                                                *)
THEOREM ArrayReadsSound ==
  ASSUME KeysAreKeys, StartsAreSound
  PROVE  Spec => []ArrayReadsAreSound
<1>1. ContentsAreDescribed => ArrayReadsAreSound
  BY ArraysAreRead
<1> QED
  BY <1>1, CollectionsAreDescribed, PTL

(* While apply_collection_mutations tracks the length of an array, the     *)
(* real length is one of the tracked ones.                                 *)
THEOREM LengthTracked ==
  ASSUME KeysAreKeys, StartsAreSound
  PROVE  Spec => []LengthIsTracked
<1>1. ContentsAreDescribed => LengthIsTracked
  BY LengthsAreTracked
<1> QED
  BY <1>1, CollectionsAreDescribed, PTL

(* Whatever mustGet, a lookup followed by loadValue and an ordered         *)
(* traversal of a map return is among the targets of a call reported       *)
(* complete.                                                               *)
THEOREM MapReadsSound ==
  ASSUME KeysAreKeys, StartsAreSound
  PROVE  Spec => []MapReadsAreSound
<1>1. ContentsAreDescribed => MapReadsAreSound
  BY MapsAreRead
<1> QED
  BY <1>1, CollectionsAreDescribed, PTL

(* The head of every tail of a lisp list is among the targets of a call    *)
(* reported complete.                                                      *)
THEOREM ListReadsSound ==
  ASSUME KeysAreKeys, StartsAreSound
  PROVE  Spec => []ListReadsAreSound
<1>1. ContentsAreDescribed => ListReadsAreSound
  BY ListsAreRead
<1> QED
  BY <1>1, CollectionsAreDescribed, PTL

(* toTuple and fromTuple lose the layout of a collection, but every        *)
(* element stays among the targets of a call through any slot that is      *)
(* reported complete.                                                      *)
THEOREM PackingKeepsEveryElement ==
  ASSUME KeysAreKeys, StartsAreSound
  PROVE  Spec => []PackingKeepsElements
<1>1. ContentsAreDescribed => PackingKeepsElements
  BY PackingKeeps
<1> QED
  BY <1>1, CollectionsAreDescribed, PTL

-----------------------------------------------------------------------------
(* Collections the description holds of from the start: whatever comes     *)
(* from outside the program, and the empty map the program creates.        *)
THEOREM ExternalIsDescribed ==
  ASSUME KeysAreKeys, NEW used
  PROVE  /\ \A s \in Seq(Callable) : IsDescribed("Array", used, Unknown, s)
         /\ \A s \in Seq(Callable) : IsDescribed("LispList", used, Unknown, s)
         /\ \A map : DOMAIN map \subseteq Keys /\ used \cap Adds = {} =>
              IsDescribed("Map", used, Unknown, map)
<1>1. /\ Unknown \in LiveValue /\ DOMAIN Unknown = {<<>>} /\ Unknown[<<>>] = UnknownLabel
  BY RootLabels DEF Unknown, Leaf, LiveValue
<1>2. /\ UnknownLabel.targets = {} /\ UnknownLabel.lengths = {} /\ ~UnknownLabel.complete
      /\ ~UnknownLabel.membersComplete /\ ~UnknownLabel.bottom
  BY DEF UnknownLabel, PlainLabel
<1>3. \A k : \A c : EntryIsCovered(Unknown, k, c)
  <2> SUFFICES ASSUME NEW k, NEW c
               PROVE  Covers(LabelOr(Unknown, <<k>>), c)
    BY DEF EntryIsCovered
  <2>1. LabelOr(Unknown, <<k>>) = UnknownLabel
    BY <1>1, <1>2 DEF LabelOr
  <2> QED
    BY <1>2, <2>1 DEF Covers
<1>4. \A s \in Seq(Callable) : IsDescribed("Array", used, Unknown, s)
  <2> SUFFICES ASSUME NEW s \in Seq(Callable)
               PROVE  IsDescribed("Array", used, Unknown, s)
    OBVIOUS
  <2>1. ArrayIsDescribed(Unknown, s)
    BY <1>1, <1>2, <1>3, FS_EmptySet DEF ArrayIsDescribed
  <2> QED
    BY <1>1, <1>2, <2>1, DescribedIsLive
<1>5. \A s \in Seq(Callable) : IsDescribed("LispList", used, Unknown, s)
  <2> SUFFICES ASSUME NEW s \in Seq(Callable)
               PROVE  IsDescribed("LispList", used, Unknown, s)
    OBVIOUS
  <2>1. SpineIsPlain(Unknown, TvmTuple)
    <3>1. Append(<<>>, Dynamic) = <<Dynamic>> /\ <<Dynamic>> # <<>>
      OBVIOUS
    <3> QED
      BY <1>1, <1>2, <3>1 DEF SpineIsPlain
  <2>2. ASSUME NEW i \in DOMAIN s
        PROVE  HeadIsCovered(Unknown, HeadOf(i), s[i])
    <3> DEFINE p == HeadOf(i)
    <3>1. i \in Nat \ {0}
      OBVIOUS
    <3>2. p \in Path /\ Len(p) = 2 * i
      BY <3>1, HeadOfFacts
    <3>3. 2 * i # 0
      BY <3>1
    <3> HIDE DEF p
    <3>4. p # <<>>
      BY <3>2, <3>3
    <3>5. HeadIsCovered(Unknown, p, s[i])
      BY <1>1, <1>2, <3>4 DEF HeadIsCovered
    <3> QED
      BY <3>5 DEF p
  <2>3. ListIsDescribed(Unknown, s)
    BY <2>1, <2>2 DEF ListIsDescribed
  <2> QED
    BY <1>1, <1>2, <2>3, DescribedIsLive
<1>6. ASSUME NEW map, DOMAIN map \subseteq Keys, used \cap Adds = {}
      PROVE  IsDescribed("Map", used, Unknown, map)
  <2>1. MapIsDescribed(Unknown, map, used)
    BY <1>3, <1>6 DEF MapIsDescribed
  <2> QED
    BY <1>1, <1>2, <1>6, <2>1, DescribedIsLive
<1> QED
  BY <1>4, <1>5, <1>6

LEMMA EmptyMapIsDescribed ==
  ASSUME NEW used, NEW map, DOMAIN map = {}
  PROVE  IsDescribed("Map", used, EmptyAggregate, map)
<1>1. /\ EmptyAggregate \in LiveValue /\ EmptyAggregate[<<>>] = AggregateLabel
  BY RootLabels DEF EmptyAggregate, Leaf
<1>2. AggregateLabel.targets = {} /\ AggregateLabel.membersComplete
  BY DEF AggregateLabel, PlainLabel
<1>3. MapIsDescribed(EmptyAggregate, map, used)
  BY <1>1, <1>2 DEF MapIsDescribed
<1> QED
  BY <1>1, <1>2, <1>3, DescribedIsLive

=============================================================================
