--------------------------- MODULE SnapshotProofs ---------------------------
(* What holds of a snapshot for every file, of any size: the table of types   *)
(* unfolds to the graph it was made of, the better answer about a name is     *)
(* kept in every order of the bodies, offsets survive the conversion to       *)
(* positions, the innermost node of a span is found, every id that is named   *)
(* has an entry, and the ways to ask for a name agree.                        *)
EXTENDS Snapshot, Naturals, Sequences, FiniteSetTheorems, SequenceTheorems,
        WellFoundedInduction, TLAPS

(* There is a least natural number in a set that has any.                     *)
LEMMA SmallestExists ==
  ASSUME NEW S \in SUBSET Nat, S # {}
  PROVE  \E n \in S : \A m \in S : n <= m
PROOF
  <1>1. PICK n \in S : \A m \in S : ~ (<<m, n>> \in OpToRel(<, Nat))
    BY WFMin, NatLessThanWellFounded
  <1>2. \A m \in S : ~ (m < n)
    BY <1>1 DEF OpToRel
  <1>3. QED BY <1>2

LEMMA ListsAre ==
  ASSUME NEW S, NEW s \in Seq(S)
  PROVE  IsList(s) /\ ToSet(s) \subseteq S
BY DEF IsList, ToSet

LEMMA FromTo ==
  ASSUME NEW s, NEW n \in Nat, DOMAIN s = 1..n, s = [i \in 1..n |-> s[i]]
  PROVE  IsList(s) /\ Len(s) = n
PROOF
  <1>1. s \in [1..n -> ToSet(s)]
    BY DEF ToSet
  <1>2. QED BY <1>1 DEF IsList
-----------------------------------------------------------------------------
(* Joining lists of members of a set gives such a list.                       *)
Joins(g, seqs, m) ==
  /\ DOMAIN g = 1..m
  /\ g = [i \in 1..m |-> IF i = 1 THEN seqs[i] ELSE g[i - 1] \o seqs[i]]

CanJoin(seqs, m) == \E g : Joins(g, seqs, m)

LEMMA JoinExists ==
  ASSUME NEW S, NEW seqs \in Seq(Seq(S)), NEW n \in 1..Len(seqs)
  PROVE  CanJoin(seqs, n)
PROOF
  <1> DEFINE Bad == {m \in 1..Len(seqs) : ~ CanJoin(seqs, m)}
  <1>1. ASSUME Bad # {} PROVE FALSE
    <2>1. PICK m \in Bad : \A k \in Bad : m <= k
      <3>1. Bad \in SUBSET Nat
        OBVIOUS
      <3> HIDE DEF Bad
      <3>2. QED BY <1>1, <3>1, SmallestExists
    <2>2. m \in 1..Len(seqs) /\ m \in Nat /\ ~ CanJoin(seqs, m)
      OBVIOUS
    <2>3. CASE m = 1
      <3>1. Joins([i \in 1..1 |-> seqs[1]], seqs, 1)
        BY DEF Joins
      <3>2. QED BY <2>2, <2>3, <3>1 DEF CanJoin
    <2>4. CASE m # 1
      <3>1. m - 1 \in 1..Len(seqs) /\ ~ (m <= m - 1)
        BY <2>2, <2>4
      <3>2. m - 1 \notin Bad
        <4> HIDE DEF Bad
        <4>1. QED BY <2>1, <3>1
      <3>3. PICK g : Joins(g, seqs, m - 1)
        BY <3>1, <3>2 DEF CanJoin
      <3> DEFINE h == [i \in 1..m |-> IF i = m THEN g[m - 1] \o seqs[m] ELSE g[i]]
      <3>4. ASSUME NEW i \in 1..m PROVE h[i] = IF i = 1 THEN seqs[i] ELSE h[i - 1] \o seqs[i]
        <4>1. CASE i = m
          <5>1. m - 1 \in 1..m /\ m - 1 # m /\ m \in 1..m
            BY <2>2, <2>4
          <5>2. h[m] = g[m - 1] \o seqs[m] /\ h[m - 1] = g[m - 1]
            BY <5>1
          <5>3. QED BY <2>4, <4>1, <5>2
        <4>2. CASE i # m
          <5>1. i \in 1..(m - 1) /\ (i # 1 => i - 1 \in 1..(m - 1) /\ i - 1 # m)
            BY <2>2, <4>2
          <5>2. g[i] = IF i = 1 THEN seqs[i] ELSE g[i - 1] \o seqs[i]
            BY <3>3, <5>1 DEF Joins
          <5>3. QED BY <2>2, <4>2, <5>1, <5>2
        <4>3. QED BY <4>1, <4>2
      <3>5. h = [i \in 1..m |-> IF i = 1 THEN seqs[i] ELSE h[i - 1] \o seqs[i]]
        <4>1. DOMAIN h = 1..m
          OBVIOUS
        <4>2. QED BY <3>4, <4>1
      <3>6. Joins(h, seqs, m)
        <4>1. DOMAIN h = 1..m
          OBVIOUS
        <4> HIDE DEF h
        <4>2. QED BY <3>5, <4>1 DEF Joins
      <3>7. QED BY <2>2, <3>6 DEF CanJoin
    <2>5. QED BY <2>3, <2>4
  <1>2. n \notin Bad
    <2> HIDE DEF Bad
    <2>1. QED BY <1>1
  <1>3. QED BY <1>2

LEMMA JoinTyped ==
  ASSUME NEW S, NEW seqs \in Seq(Seq(S)), NEW g, Joins(g, seqs, Len(seqs))
  PROVE  \A n \in 1..Len(seqs) : g[n] \in Seq(S)
PROOF
  <1> DEFINE Bad == {m \in 1..Len(seqs) : g[m] \notin Seq(S)}
  <1>1. ASSUME Bad # {} PROVE FALSE
    <2>1. PICK m \in Bad : \A k \in Bad : m <= k
      <3>1. Bad \in SUBSET Nat
        OBVIOUS
      <3> HIDE DEF Bad
      <3>2. QED BY <1>1, <3>1, SmallestExists
    <2>2. m \in 1..Len(seqs) /\ g[m] \notin Seq(S) /\ seqs[m] \in Seq(S)
      OBVIOUS
    <2>3. g[m] = IF m = 1 THEN seqs[m] ELSE g[m - 1] \o seqs[m]
      BY <2>2 DEF Joins
    <2>4. m # 1
      BY <2>2, <2>3
    <2>5. m - 1 \in 1..Len(seqs) /\ ~ (m <= m - 1)
      BY <2>2, <2>4
    <2>6. m - 1 \notin Bad
      <3> HIDE DEF Bad
      <3>1. QED BY <2>1, <2>5
    <2>7. g[m - 1] \in Seq(S)
      BY <2>5, <2>6
    <2>8. g[m - 1] \o seqs[m] \in Seq(S)
      BY <2>2, <2>7, ConcatProperties
    <2>9. QED BY <2>2, <2>3, <2>4, <2>8
  <1>2. QED BY <1>1

LEMMA JoinedIsList ==
  ASSUME NEW S, NEW seqs \in Seq(Seq(S))
  PROVE  FlattenSeq(seqs) \in Seq(S)
PROOF
  <1>1. CASE Len(seqs) = 0
    <2>1. FlattenSeq(seqs) = seqs /\ seqs = <<>>
      BY <1>1, EmptySeq DEF FlattenSeq
    <2>2. QED BY <2>1
  <1>2. CASE Len(seqs) # 0
    <2> DEFINE f == CHOOSE g : g = [i \in 1..Len(seqs) |-> IF i = 1 THEN seqs[i] ELSE g[i - 1] \o seqs[i]]
    <2>1. FlattenSeq(seqs) = f[Len(seqs)]
      BY <1>2 DEF FlattenSeq
    <2>2. Len(seqs) \in 1..Len(seqs)
      BY <1>2
    <2>3. PICK g : Joins(g, seqs, Len(seqs))
      BY <2>2, JoinExists DEF CanJoin
    <2>4. f = [i \in 1..Len(seqs) |-> IF i = 1 THEN seqs[i] ELSE f[i - 1] \o seqs[i]]
      BY <2>3 DEF Joins
    <2>5. Joins(f, seqs, Len(seqs))
      <3>1. DOMAIN f = 1..Len(seqs)
        BY <2>4
      <3> HIDE DEF f
      <3>2. QED BY <2>4, <3>1 DEF Joins
    <2> HIDE DEF f
    <2>6. QED BY <2>1, <2>2, <2>5, JoinTyped
  <1>3. QED BY <1>1, <1>2
-----------------------------------------------------------------------------
(* The hypothesis on types: every input knows the types it mentions.          *)
TypesAreInterned == \A file : IsInput(file) => KnowsItsTypes(file)

LEMMA GlobalsAreDeclared ==
  ASSUME TypesAreInterned, IsInput(input)
  PROVE  AllGlobals \in Seq(Declared(input))
PROOF
  <1> DEFINE D == Declared(input)
             lists == [i \in DOMAIN input.globals |-> WithMembers(input.globals[i])]
  <1>1. IsList(input.globals) /\ \A d \in ToSet(input.globals) : IsList(d.members)
    BY DEF TypesAreInterned, KnowsItsTypes
  <1>2. ASSUME NEW i \in DOMAIN input.globals PROVE WithMembers(input.globals[i]) \in Seq(D)
    <2>1. PICK d : d = input.globals[i]
      OBVIOUS
    <2>2. d \in ToSet(input.globals)
      BY <2>1 DEF ToSet
    <2>3. ToSet(d.members) \subseteq D /\ d \in D
      BY <2>2 DEF Declared
    <2>4. d.members \in Seq(ToSet(d.members))
      BY <1>1, <2>2 DEF IsList
    <2> HIDE DEF D
    <2>5. d.members \in Seq(D)
      BY <2>3, <2>4
    <2>6. <<d>> \in Seq(D)
      BY <2>3
    <2>7. <<d>> \o d.members \in Seq(D)
      BY <2>5, <2>6, ConcatProperties
    <2>8. QED BY <2>1, <2>7 DEF WithMembers
  <1> HIDE DEF D
  <1>3. lists \in Seq(Seq(D))
    <2>1. Len(input.globals) \in Nat /\ DOMAIN input.globals = 1..Len(input.globals)
      BY <1>1 DEF IsList
    <2>2. lists \in [1..Len(input.globals) -> Seq(D)]
      BY <1>2, <2>1
    <2> HIDE DEF lists
    <2>3. QED BY <2>1, <2>2
  <1>4. FlattenSeq(lists) \in Seq(D)
    <2>1. PICK s : s = lists
      OBVIOUS
    <2>2. FlattenSeq(s) \in Seq(D)
      BY <1>3, <2>1, JoinedIsList
    <2>3. QED BY <2>1, <2>2
  <1>5. QED BY <1>4 DEF AllGlobals, AllOf, D

(* Every type that is wanted is one of the interner.                          *)
WantedOf(file) == [node : {nodeIds[span] : span \in DOMAIN nodeIds}, type : Interned(file)]

LEMMA WantedIsOf ==
  ASSUME TypesAreInterned, IsInput(input)
  PROVE  Wanted \in Seq(WantedOf(input))
PROOF
  <1> DEFINE T == Interned(input)
             spans == {d.body : d \in Declared(input)} \union {d.name : d \in Declared(input)}
                      \union {e.span : e \in ToSet(input.expressions)}
             W == WantedOf(input)
             at(span, type) ==
               IF type = None \/ Syntax!ExactNode(span) = None THEN <<>>
               ELSE <<[node |-> Syntax!ExactNode(span), type |-> type]>>
             declared == [i \in DOMAIN AllGlobals |->
               at(AllGlobals[i].body, AllGlobals[i].type) \o at(AllGlobals[i].name, AllGlobals[i].type)]
             expressed == [i \in DOMAIN input.expressions |->
               at(input.expressions[i].span, input.expressions[i].type)]
  <1>1. ASSUME NEW span \in spans, NEW type \in T \union {None} PROVE at(span, type) \in Seq(W)
    <2> DEFINE r == [node |-> Syntax!ExactNode(span), type |-> type]
    <2>1. CASE type = None \/ Syntax!ExactNode(span) = None
      BY <2>1
    <2>2. CASE ~ (type = None \/ Syntax!ExactNode(span) = None)
      <3>1. r \in W
        <4>1. span \in DOMAIN nodeIds /\ Syntax!ExactNode(span) = nodeIds[span]
          BY <2>2 DEF Syntax!ExactNode
        <4>2. QED BY <2>2, <4>1 DEF WantedOf
      <3>2. at(span, type) = <<r>>
        BY <2>2
      <3> HIDE DEF r, W, at
      <3>3. <<r>> \in Seq(W)
        BY <3>1
      <3>4. QED BY <3>2, <3>3
    <2>3. QED BY <2>1, <2>2
  <1>2. declared \in Seq(Seq(W))
    <2>1. AllGlobals \in Seq(Declared(input))
      BY GlobalsAreDeclared
    <2>2. ASSUME NEW i \in DOMAIN AllGlobals
          PROVE at(AllGlobals[i].body, AllGlobals[i].type) \o at(AllGlobals[i].name, AllGlobals[i].type)
                  \in Seq(W)
      <3>1. AllGlobals[i] \in Declared(input)
        BY <2>1
      <3>2. AllGlobals[i].type \in T \union {None}
        BY <3>1 DEF TypesAreInterned, KnowsItsTypes
      <3>3. AllGlobals[i].body \in spans /\ AllGlobals[i].name \in spans
        BY <3>1
      <3> HIDE DEF at, spans, T, W
      <3>4. /\ at(AllGlobals[i].body, AllGlobals[i].type) \in Seq(W)
            /\ at(AllGlobals[i].name, AllGlobals[i].type) \in Seq(W)
        BY <1>1, <3>2, <3>3
      <3>5. QED BY <3>4, ConcatProperties
    <2>3. Len(AllGlobals) \in Nat /\ DOMAIN AllGlobals = 1..Len(AllGlobals)
      BY <2>1
    <2> HIDE DEF at, W
    <2>4. declared \in [1..Len(AllGlobals) -> Seq(W)]
      BY <2>2, <2>3
    <2> HIDE DEF declared
    <2>5. QED BY <2>3, <2>4
  <1>3. expressed \in Seq(Seq(W))
    <2>1. input.expressions \in Seq(ToSet(input.expressions))
      BY DEF TypesAreInterned, KnowsItsTypes, IsList
    <2>2. ASSUME NEW i \in DOMAIN input.expressions
          PROVE at(input.expressions[i].span, input.expressions[i].type) \in Seq(W)
      <3>1. input.expressions[i] \in ToSet(input.expressions)
        BY DEF ToSet
      <3>2. input.expressions[i].type \in T /\ input.expressions[i].span \in spans
        BY <3>1 DEF TypesAreInterned, KnowsItsTypes
      <3> HIDE DEF at, spans, T, W
      <3>3. QED BY <1>1, <3>2
    <2>3. Len(input.expressions) \in Nat /\ DOMAIN input.expressions = 1..Len(input.expressions)
      BY <2>1
    <2> HIDE DEF at, W
    <2>4. expressed \in [1..Len(input.expressions) -> Seq(W)]
      BY <2>2, <2>3
    <2> HIDE DEF expressed
    <2>5. QED BY <2>3, <2>4
  <1>4. Wanted = FlattenSeq(declared) \o FlattenSeq(expressed)
    BY DEF Wanted
  <1> HIDE DEF declared, expressed, W
  <1>5. FlattenSeq(declared) \in Seq(W) /\ FlattenSeq(expressed) \in Seq(W)
    <2>1. PICK s, r : s = declared /\ r = expressed
      OBVIOUS
    <2>2. FlattenSeq(s) \in Seq(W) /\ FlattenSeq(r) \in Seq(W)
      BY <1>2, <1>3, <2>1, JoinedIsList
    <2>3. QED BY <2>1, <2>2
  <1>6. QED BY <1>4, <1>5, ConcatProperties DEF W

LEMMA WantedIsInterned ==
  ASSUME TypesAreInterned, IsInput(input)
  PROVE  [i \in DOMAIN Wanted |-> Wanted[i].type] \in Seq(Interned(input))
PROOF
  <1>1. Wanted \in Seq(WantedOf(input))
    BY WantedIsOf
  <1>2. Len(Wanted) \in Nat /\ DOMAIN Wanted = 1..Len(Wanted)
    BY <1>1
  <1>3. \A i \in DOMAIN Wanted : Wanted[i].type \in Interned(input)
    <2>1. \A i \in DOMAIN Wanted : Wanted[i] \in WantedOf(input)
      BY <1>1
    <2>2. QED BY <2>1 DEF WantedOf
  <1>4. [i \in DOMAIN Wanted |-> Wanted[i].type] \in [1..Len(Wanted) -> Interned(input)]
    BY <1>2, <1>3
  <1>5. QED BY <1>2, <1>4
-----------------------------------------------------------------------------
(* The conversion of types, said of the ids that were given out, the entries  *)
(* and the stack of the recursion. A frame knows the ids of the operands that *)
(* are done, and waits for the type of the frame above it.                    *)
OperandsOf(file, t) == file.interner[t].parts \o file.interner[t].result

FrameStands(file, ids, f) ==
  /\ f.type \in DOMAIN ids /\ f.id = ids[f.type]
  /\ f.done \in Seq(Nat) /\ Len(f.done) <= Len(OperandsOf(file, f.type))
  /\ \A k \in DOMAIN f.done :
       /\ OperandsOf(file, f.type)[k] \in DOMAIN ids
       /\ f.done[k] = ids[OperandsOf(file, f.type)[k]]

WaitsFor(file, f, t) ==
  /\ Len(f.done) < Len(OperandsOf(file, f.type))
  /\ OperandsOf(file, f.type)[Len(f.done) + 1] = t

(* An entry says of a type what the interner says of it.                      *)
Unfolds(file, ids, e, t) ==
  /\ e.id = ids[t] /\ e.kind = file.interner[t].kind
  /\ e.elements \in Seq(Nat) /\ e.result \in Seq(Nat)
  /\ Len(e.elements) = Len(file.interner[t].parts)
  /\ Len(e.elements \o e.result) = Len(OperandsOf(file, t))
  /\ \A k \in DOMAIN (e.elements \o e.result) :
       /\ OperandsOf(file, t)[k] \in DOMAIN ids
       /\ (e.elements \o e.result)[k] = ids[OperandsOf(file, t)[k]]

Frames(file) == [type : Interned(file), id : Nat, done : Seq(Nat)]

FramesStand(file, ids, stack) ==
  /\ stack \in Seq(Frames(file))
  /\ \A i \in DOMAIN stack : FrameStands(file, ids, stack[i])
  /\ \A i, j \in DOMAIN stack : stack[i].type = stack[j].type => i = j
  /\ \A i \in DOMAIN stack : i # Len(stack) => WaitsFor(file, stack[i], stack[i + 1].type)

IdsStand(file, ids) ==
  /\ ids \in [DOMAIN ids -> Nat]
  /\ DOMAIN ids \subseteq Interned(file) /\ IsFiniteSet(DOMAIN ids)

IsOn(stack, t) == \E i \in DOMAIN stack : stack[i].type = t
HasEntry(file, ids, entries, t) == \E i \in DOMAIN entries : Unfolds(file, ids, entries[i], t)

Stands(file, ids, entries, stack) ==
  /\ IdsStand(file, ids) /\ IsList(entries) /\ FramesStand(file, ids, stack)
  /\ \A t \in DOMAIN ids : IsOn(stack, t) \/ HasEntry(file, ids, entries, t)
  /\ Len(entries) + Len(stack) = Cardinality(DOMAIN ids)

Remembered(ids, t) == [u \in DOMAIN ids \union {t} |-> IF u = t THEN Cardinality(DOMAIN ids) ELSE ids[u]]

InternerIsClosed(file) ==
  \A t \in Interned(file) : OperandsOf(file, t) \in Seq(Interned(file))

LEMMA InternersAreClosed ==
  ASSUME TypesAreInterned, NEW file, IsInput(file)
  PROVE  /\ InternerIsClosed(file)
         /\ \A t \in Interned(file) : /\ file.interner[t].parts \in Seq(Interned(file))
                                      /\ file.interner[t].result \in Seq(Interned(file))
PROOF
  <1>1. ASSUME NEW t \in Interned(file) PROVE OperandsOf(file, t) \in Seq(Interned(file))
    <2>1. /\ file.interner[t].parts \in Seq(Interned(file))
          /\ file.interner[t].result \in Seq(Interned(file))
      BY DEF TypesAreInterned, KnowsItsTypes
    <2>2. QED BY <2>1, ConcatProperties DEF OperandsOf
  <1>2. QED BY <1>1 DEF InternerIsClosed, TypesAreInterned, KnowsItsTypes

LEMMA AppendFacts ==
  ASSUME NEW s, IsList(s), NEW e
  PROVE  /\ IsList(Append(s, e)) /\ Len(Append(s, e)) = Len(s) + 1
         /\ Len(s) \in Nat /\ DOMAIN s = 1..Len(s) /\ DOMAIN Append(s, e) = 1..(Len(s) + 1)
         /\ \A i \in 1..Len(s) : Append(s, e)[i] = s[i]
         /\ Append(s, e)[Len(s) + 1] = e
PROOF
  <1> DEFINE S == ToSet(s) \union {e}
  <1>1. s \in Seq(ToSet(s)) /\ e \in S
    BY DEF IsList
  <1>2. ToSet(s) \subseteq S
    OBVIOUS
  <1> HIDE DEF S
  <1>3. s \in Seq(S)
    BY <1>1, <1>2
  <1>4. Append(s, e) \in Seq(S)
    BY <1>1, <1>3
  <1>5. IsList(Append(s, e))
    <2>1. PICK a : a = Append(s, e)
      OBVIOUS
    <2>2. a \in Seq(S)
      BY <1>4, <2>1
    <2>3. IsList(a)
      BY <2>2, ListsAre
    <2>4. QED BY <2>1, <2>3
  <1>6. QED BY <1>1, <1>3, <1>5

(* Remembering one more type changes nothing for those that are known.        *)
LEMMA MoreIds ==
  ASSUME NEW file, NEW ids, IdsStand(file, ids), NEW t \in Interned(file), t \notin DOMAIN ids
  PROVE  /\ IdsStand(file, Remembered(ids, t)) /\ DOMAIN Remembered(ids, t) = DOMAIN ids \union {t}
         /\ \A u \in DOMAIN ids : Remembered(ids, t)[u] = ids[u]
         /\ Remembered(ids, t)[t] = Cardinality(DOMAIN ids) /\ Remembered(ids, t)[t] \in Nat
         /\ Cardinality(DOMAIN Remembered(ids, t)) = Cardinality(DOMAIN ids) + 1
         /\ \A f : FrameStands(file, ids, f) => FrameStands(file, Remembered(ids, t), f)
         /\ \A e : \A u \in DOMAIN ids : Unfolds(file, ids, e, u) => Unfolds(file, Remembered(ids, t), e, u)
PROOF
  <1> DEFINE more == Remembered(ids, t)
  <1>1. DOMAIN more = DOMAIN ids \union {t} /\ \A u \in DOMAIN ids : more[u] = ids[u]
    BY DEF Remembered
  <1>2. /\ IsFiniteSet(DOMAIN ids \union {t})
        /\ Cardinality(DOMAIN ids \union {t}) = Cardinality(DOMAIN ids) + 1
        /\ Cardinality(DOMAIN ids) \in Nat
    BY FS_AddElement, FS_CardinalityType DEF IdsStand
  <1>3. more[t] = Cardinality(DOMAIN ids)
    BY DEF Remembered
  <1>4. IdsStand(file, more)
    <2>1. more \in [DOMAIN ids \union {t} -> Nat]
      BY <1>2 DEF Remembered, IdsStand
    <2> HIDE DEF more
    <2>2. QED BY <1>1, <1>2, <2>1 DEF IdsStand
  <1> HIDE DEF more
  <1>5. ASSUME NEW f, FrameStands(file, ids, f) PROVE FrameStands(file, more, f)
    BY <1>1, <1>5 DEF FrameStands
  <1>6. ASSUME NEW e, NEW u \in DOMAIN ids, Unfolds(file, ids, e, u) PROVE Unfolds(file, more, e, u)
    BY <1>1, <1>6 DEF Unfolds
  <1>7. QED BY <1>1, <1>2, <1>3, <1>4, <1>5, <1>6 DEF more

(* Descending into a type that was not met: a frame more, that is waited for. *)
NewFrame(ids, t) == [type |-> t, id |-> Cardinality(DOMAIN ids), done |-> <<>>]

LEMMA DescendStands ==
  ASSUME NEW file, InternerIsClosed(file), NEW ids, NEW entries, NEW stack,
         Stands(file, ids, entries, stack),
         NEW t \in Interned(file), t \notin DOMAIN ids,
         stack # <<>> => WaitsFor(file, stack[Len(stack)], t)
  PROVE  Stands(file, Remembered(ids, t), entries, Append(stack, NewFrame(ids, t)))
PROOF
  <1> DEFINE more == Remembered(ids, t)
             f == NewFrame(ids, t)
             higher == Append(stack, f)
             n == Len(stack)
  <1>1. IdsStand(file, ids) /\ FramesStand(file, ids, stack)
    BY DEF Stands
  <1>2. /\ IdsStand(file, more) /\ DOMAIN more = DOMAIN ids \union {t}
        /\ \A u \in DOMAIN ids : more[u] = ids[u]
        /\ more[t] = Cardinality(DOMAIN ids) /\ more[t] \in Nat
        /\ Cardinality(DOMAIN more) = Cardinality(DOMAIN ids) + 1
    <2>1. IdsStand(file, more) /\ DOMAIN more = DOMAIN ids \union {t}
      BY <1>1, MoreIds
    <2>2. \A u \in DOMAIN ids : more[u] = ids[u]
      BY DEF Remembered
    <2>3. more[t] = Cardinality(DOMAIN ids) /\ more[t] \in Nat
      BY <1>1, MoreIds
    <2>4. Cardinality(DOMAIN more) = Cardinality(DOMAIN ids) + 1
      BY <1>1, MoreIds
    <2>5. QED BY <2>1, <2>2, <2>3, <2>4
  <1>3. \A g : FrameStands(file, ids, g) => FrameStands(file, more, g)
    BY <1>1, MoreIds
  <1>4. \A e : \A u \in DOMAIN ids : Unfolds(file, ids, e, u) => Unfolds(file, more, e, u)
    BY <1>1, MoreIds
  <1>5. f \in Frames(file) /\ f.type = t /\ f.id = more[t] /\ f.done = <<>>
    BY <1>2 DEF Frames, NewFrame
  <1> HIDE DEF more, f
  <1>6. stack \in Seq(Frames(file)) /\ n \in Nat /\ DOMAIN stack = 1..n
    BY <1>1 DEF FramesStand
  <1>7. /\ higher \in Seq(Frames(file)) /\ Len(higher) = n + 1 /\ DOMAIN higher = 1..(n + 1)
        /\ \A i \in 1..n : higher[i] = stack[i]
        /\ higher[n + 1] = f
    BY <1>5, <1>6
  <1> HIDE DEF higher, n
  <1>8. FrameStands(file, more, f)
    <2>1. OperandsOf(file, t) \in Seq(Interned(file))
      BY DEF InternerIsClosed
    <2>2. Len(f.done) = 0 /\ f.done \in Seq(Nat) /\ DOMAIN f.done = {}
      BY <1>5
    <2>3. Len(f.done) <= Len(OperandsOf(file, f.type))
      BY <1>5, <2>1, <2>2
    <2>4. QED BY <1>2, <1>5, <2>2, <2>3 DEF FrameStands
  <1>9. \A i \in 1..n : stack[i].type \in DOMAIN ids
    BY <1>1, <1>6 DEF FramesStand, FrameStands
  <1>10. FramesStand(file, more, higher)
    <2>1. ASSUME NEW i \in DOMAIN higher PROVE FrameStands(file, more, higher[i])
      <3>1. CASE i = n + 1
        BY <1>7, <1>8, <3>1
      <3>2. CASE i # n + 1
        <4>1. i \in DOMAIN stack /\ higher[i] = stack[i]
          BY <1>6, <1>7, <3>2
        <4>2. FrameStands(file, ids, stack[i])
          BY <1>1, <4>1 DEF FramesStand
        <4>3. QED BY <1>3, <4>1, <4>2
      <3>3. QED BY <3>1, <3>2
    <2>2. ASSUME NEW i \in DOMAIN higher, NEW j \in DOMAIN higher, higher[i].type = higher[j].type
          PROVE  i = j
      <3>1. i \in 1..n /\ j \in 1..n => i = j
        BY <1>1, <1>6, <1>7, <2>2 DEF FramesStand
      <3>2. i = n + 1 /\ j # n + 1 => FALSE
        <4>1. ASSUME i = n + 1, j # n + 1 PROVE FALSE
          <5>1. j \in 1..n /\ higher[j] = stack[j] /\ higher[i].type = t
            BY <1>5, <1>6, <1>7, <4>1
          <5>2. QED BY <1>9, <2>2, <5>1
        <4>2. QED BY <4>1
      <3>3. j = n + 1 /\ i # n + 1 => FALSE
        <4>1. ASSUME j = n + 1, i # n + 1 PROVE FALSE
          <5>1. i \in 1..n /\ higher[i] = stack[i] /\ higher[j].type = t
            BY <1>5, <1>6, <1>7, <4>1
          <5>2. QED BY <1>9, <2>2, <5>1
        <4>2. QED BY <4>1
      <3>4. QED BY <1>6, <1>7, <3>1, <3>2, <3>3
    <2>3. ASSUME NEW i \in DOMAIN higher, i # Len(higher)
          PROVE  WaitsFor(file, higher[i], higher[i + 1].type)
      <3>1. i \in 1..n /\ higher[i] = stack[i]
        BY <1>6, <1>7, <2>3
      <3>2. CASE i = n
        <4>1. stack # <<>> /\ higher[i + 1].type = t
          BY <1>5, <1>6, <1>7, <3>1, <3>2
        <4>2. QED BY <3>1, <3>2, <4>1 DEF n
      <3>3. CASE i # n
        <4>1. i + 1 \in 1..n /\ higher[i + 1] = stack[i + 1]
          BY <1>6, <1>7, <3>1, <3>3
        <4>2. WaitsFor(file, stack[i], stack[i + 1].type)
          BY <1>1, <1>6, <3>1, <3>3 DEF FramesStand, n
        <4>3. QED BY <3>1, <4>1, <4>2
      <3>4. QED BY <3>2, <3>3
    <2>4. QED BY <1>7, <2>1, <2>2, <2>3 DEF FramesStand
  <1>11. ASSUME NEW u \in DOMAIN more PROVE IsOn(higher, u) \/ HasEntry(file, more, entries, u)
    <2>1. CASE u = t
      <3>1. n + 1 \in DOMAIN higher /\ higher[n + 1].type = u
        BY <1>5, <1>6, <1>7, <2>1
      <3>2. QED BY <3>1 DEF IsOn
    <2>2. CASE u # t
      <3>1. u \in DOMAIN ids
        BY <1>2, <2>2
      <3>2. IsOn(stack, u) \/ HasEntry(file, ids, entries, u)
        BY <3>1 DEF Stands
      <3>3. CASE IsOn(stack, u)
        <4>1. PICK i \in DOMAIN stack : stack[i].type = u
          BY <3>3 DEF IsOn
        <4>2. i \in DOMAIN higher /\ higher[i] = stack[i]
          BY <1>6, <1>7, <4>1
        <4>3. QED BY <4>1, <4>2 DEF IsOn
      <3>4. CASE HasEntry(file, ids, entries, u)
        <4>1. PICK i \in DOMAIN entries : Unfolds(file, ids, entries[i], u)
          BY <3>4 DEF HasEntry
        <4>2. Unfolds(file, more, entries[i], u)
          BY <1>4, <3>1, <4>1
        <4>3. QED BY <4>2 DEF HasEntry
      <3>5. QED BY <3>2, <3>3, <3>4
    <2>3. QED BY <2>1, <2>2
  <1>12. Len(entries) + Len(higher) = Cardinality(DOMAIN more)
    <2>1. Len(entries) + n = Cardinality(DOMAIN ids) /\ IsList(entries)
      BY DEF Stands, n
    <2>2. Len(entries) \in Nat
      BY <2>1 DEF IsList
    <2>3. QED BY <1>2, <1>6, <1>7, <2>1, <2>2
  <1>13. Stands(file, more, entries, higher)
    <2>1. IsList(entries)
      BY DEF Stands
    <2>2. QED BY <1>2, <1>10, <1>11, <1>12, <2>1 DEF Stands
  <1>14. QED BY <1>13 DEF more, higher, f

(* The id of an operand that was met is one more that is done.                *)
Answer(stack, id) == [stack EXCEPT ![Len(stack)].done = Append(@, id)]

LEMMA AnswerStands ==
  ASSUME NEW file, InternerIsClosed(file), NEW ids, NEW entries, NEW stack,
         Stands(file, ids, entries, stack), stack # <<>>,
         NEW t \in DOMAIN ids, WaitsFor(file, stack[Len(stack)], t)
  PROVE  Stands(file, ids, entries, Answer(stack, ids[t]))
PROOF
  <1> DEFINE n == Len(stack)
             f == stack[n]
             g == [f EXCEPT !.done = Append(@, ids[t])]
             later == Answer(stack, ids[t])
  <1>1. IdsStand(file, ids) /\ FramesStand(file, ids, stack)
    BY DEF Stands
  <1>2. stack \in Seq(Frames(file)) /\ n \in Nat /\ DOMAIN stack = 1..n /\ n # 0
    BY <1>1, EmptySeq DEF FramesStand
  <1>3. n \in DOMAIN stack /\ f \in Frames(file) /\ FrameStands(file, ids, f) /\ ids[t] \in Nat
    BY <1>1, <1>2 DEF FramesStand, IdsStand
  <1>4. g \in Frames(file) /\ g.type = f.type /\ g.id = f.id /\ g.done = Append(f.done, ids[t])
    <2>1. PICK d : d = f.done
      OBVIOUS
    <2>2. d \in Seq(Nat)
      BY <1>3, <2>1 DEF Frames
    <2>3. Append(d, ids[t]) \in Seq(Nat)
      BY <1>3, <2>2
    <2>4. PICK e : e = Append(d, ids[t])
      OBVIOUS
    <2>5. g = [f EXCEPT !.done = e]
      BY <2>1, <2>4
    <2> HIDE DEF f, g
    <2>6. QED BY <1>3, <2>1, <2>3, <2>4, <2>5 DEF Frames
  <1>5. f.type \in Interned(file) /\ f.done \in Seq(Nat)
    BY <1>3 DEF Frames
  <1>6. later = [stack EXCEPT ![n] = g]
    BY <1>2, <1>3 DEF Answer
  <1>7. /\ later \in Seq(Frames(file)) /\ Len(later) = n /\ DOMAIN later = 1..n /\ later[n] = g
        /\ \A i \in 1..n : i # n => later[i] = stack[i]
    <2> HIDE DEF g, later, n
    <2>1. later \in [1..n -> Frames(file)]
      BY <1>2, <1>3, <1>4, <1>6
    <2>2. later \in Seq(Frames(file)) /\ Len(later) = n /\ DOMAIN later = 1..n
      BY <1>2, <2>1
    <2>3. QED BY <1>2, <1>3, <1>6, <2>2
  <1>8. FrameStands(file, ids, g)
    <2> DEFINE ops == OperandsOf(file, f.type)
               m == Len(f.done)
    <2>1. ops \in Seq(Interned(file))
      BY <1>5 DEF InternerIsClosed
    <2>2. m \in Nat /\ m < Len(ops) /\ ops[m + 1] = t /\ Len(ops) \in Nat /\ DOMAIN f.done = 1..m
      BY <1>5, <2>1 DEF WaitsFor
    <2>3. /\ g.done \in Seq(Nat) /\ Len(g.done) = m + 1 /\ DOMAIN g.done = 1..(m + 1)
          /\ \A k \in 1..m : g.done[k] = f.done[k]
          /\ g.done[m + 1] = ids[t]
      <3>1. PICK d : d = f.done
        OBVIOUS
      <3>2. d \in Seq(Nat)
        BY <1>5, <3>1
      <3>3. /\ Append(d, ids[t]) \in Seq(Nat) /\ Len(Append(d, ids[t])) = Len(d) + 1
            /\ DOMAIN Append(d, ids[t]) = 1..(Len(d) + 1)
            /\ \A k \in 1..Len(d) : Append(d, ids[t])[k] = d[k]
            /\ Append(d, ids[t])[Len(d) + 1] = ids[t]
        BY <1>3, <3>2
      <3>4. QED BY <1>4, <3>1, <3>3
    <2>4. \A k \in 1..m : ops[k] \in DOMAIN ids /\ f.done[k] = ids[ops[k]]
      BY <1>3, <2>2 DEF FrameStands
    <2> HIDE DEF ops, m, g
    <2>5. ASSUME NEW k \in 1..(m + 1) PROVE ops[k] \in DOMAIN ids /\ g.done[k] = ids[ops[k]]
      <3>1. CASE k = m + 1
        BY <2>2, <2>3, <3>1
      <3>2. CASE k # m + 1
        <4>1. k \in 1..m
          BY <2>2, <3>2
        <4>2. g.done[k] = f.done[k]
          BY <2>3, <4>1
        <4>3. QED BY <2>4, <4>1, <4>2
      <3>3. QED BY <3>1, <3>2
    <2>6. f.type \in DOMAIN ids /\ f.id = ids[f.type]
      BY <1>3 DEF FrameStands
    <2>7. Len(g.done) <= Len(ops)
      BY <2>2, <2>3
    <2>8. QED BY <1>4, <2>3, <2>5, <2>6, <2>7 DEF FrameStands, ops
  <1> HIDE DEF g, later, n, f
  <1>9. \A i \in 1..n : later[i].type = stack[i].type
    BY <1>4, <1>7 DEF f
  <1>10. FramesStand(file, ids, later)
    <2>1. ASSUME NEW i \in DOMAIN later PROVE FrameStands(file, ids, later[i])
      BY <1>1, <1>2, <1>7, <1>8 DEF FramesStand
    <2>2. ASSUME NEW i \in DOMAIN later, NEW j \in DOMAIN later, later[i].type = later[j].type
          PROVE  i = j
      BY <1>1, <1>2, <1>7, <1>9, <2>2 DEF FramesStand
    <2>3. ASSUME NEW i \in DOMAIN later, i # Len(later)
          PROVE  WaitsFor(file, later[i], later[i + 1].type)
      <3>1. i \in 1..n /\ i # n /\ i + 1 \in 1..n /\ later[i] = stack[i]
        BY <1>2, <1>7, <2>3
      <3>2. WaitsFor(file, stack[i], stack[i + 1].type)
        BY <1>1, <1>2, <3>1 DEF FramesStand, n
      <3>3. QED BY <1>9, <3>1, <3>2
    <2>4. QED BY <1>7, <2>1, <2>2, <2>3 DEF FramesStand
  <1>11. ASSUME NEW u \in DOMAIN ids PROVE IsOn(later, u) \/ HasEntry(file, ids, entries, u)
    <2>1. IsOn(stack, u) => IsOn(later, u)
      BY <1>2, <1>7, <1>9 DEF IsOn
    <2>2. QED BY <2>1 DEF Stands
  <1>12. Len(entries) + Len(later) = Cardinality(DOMAIN ids)
    BY <1>7 DEF Stands, n
  <1>13. Stands(file, ids, entries, later)
    BY <1>10, <1>11, <1>12 DEF Stands
  <1>14. QED BY <1>13 DEF later

(* A type whose operands are all done leaves the stack for the entries, and   *)
(* answers the frame below.                                                   *)
EntryOf(file, f) ==
  [id |-> f.id, kind |-> file.interner[f.type].kind,
   elements |-> SubSeq(f.done, 1, Len(file.interner[f.type].parts)),
   result |-> SubSeq(f.done, Len(file.interner[f.type].parts) + 1, Len(f.done))]

LEMMA DoneUnfolds ==
  ASSUME NEW file, InternerIsClosed(file), NEW ids, NEW f \in Frames(file), FrameStands(file, ids, f),
         ~ Len(f.done) < Len(OperandsOf(file, f.type)),
         file.interner[f.type].parts \in Seq(Interned(file)),
         file.interner[f.type].result \in Seq(Interned(file))
  PROVE  Unfolds(file, ids, EntryOf(file, f), f.type)
PROOF
  <1> DEFINE e == EntryOf(file, f)
             ops == OperandsOf(file, f.type)
  <1>1. PICK d, p, r : d = f.done /\ p = file.interner[f.type].parts /\ r = file.interner[f.type].result
    OBVIOUS
  <1>2. d \in Seq(Nat) /\ p \in Seq(Interned(file)) /\ r \in Seq(Interned(file)) /\ ops = p \o r
    BY <1>1 DEF Frames, OperandsOf
  <1>3. Len(p) \in Nat /\ Len(r) \in Nat /\ Len(ops) = Len(p) + Len(r) /\ ops \in Seq(Interned(file))
    BY <1>2, ConcatProperties
  <1>4. Len(d) = Len(ops) /\ Len(d) \in Nat /\ DOMAIN d = 1..Len(d)
    <2>1. Len(d) <= Len(ops) /\ ~ Len(d) < Len(ops)
      BY <1>1 DEF FrameStands
    <2>2. QED BY <1>2, <1>3, <2>1
  <1>5. e.elements = SubSeq(d, 1, Len(p)) /\ e.result = SubSeq(d, Len(p) + 1, Len(d))
    BY <1>1 DEF EntryOf
  <1> HIDE DEF e
  <1>6. /\ e.elements \in Seq(Nat) /\ Len(e.elements) = Len(p)
        /\ \A k \in 1..Len(p) : e.elements[k] = d[k]
    <2>1. \A k \in 1..Len(p) : d[k] \in Nat
      BY <1>2, <1>3, <1>4
    <2>2. PICK a : a = SubSeq(d, 1, Len(p))
      OBVIOUS
    <2>3. a \in Seq(Nat) /\ Len(a) = Len(p) /\ \A k \in 1..Len(p) : a[k] = d[k]
      <3>1. PICK m : m = Len(p)
        OBVIOUS
      <3>2. m \in Int /\ 1 \in Int /\ m >= 0 /\ \A k \in 1..m : d[k] \in Nat
        BY <1>3, <2>1, <3>1
      <3>3. /\ SubSeq(d, 1, m) \in Seq(Nat)
            /\ Len(SubSeq(d, 1, m)) = IF 1 <= m THEN m - 1 + 1 ELSE 0
            /\ \A k \in 1..(m - 1 + 1) : SubSeq(d, 1, m)[k] = d[1 + k - 1]
        BY <3>2, SubSeqProperties
      <3>4. m - 1 + 1 = m /\ \A k \in 1..m : 1 + k - 1 = k
        BY <3>2
      <3>5. QED BY <2>2, <3>1, <3>2, <3>3, <3>4
    <2>4. QED BY <1>5, <2>2, <2>3
  <1>7. /\ e.result \in Seq(Nat) /\ Len(e.result) = Len(r)
        /\ \A k \in 1..Len(r) : e.result[k] = d[Len(p) + k]
    <2>1. \A k \in (Len(p) + 1)..Len(d) : d[k] \in Nat
      BY <1>2, <1>3, <1>4
    <2>2. PICK b : b = SubSeq(d, Len(p) + 1, Len(d))
      OBVIOUS
    <2>3. b \in Seq(Nat) /\ Len(b) = Len(r) /\ \A k \in 1..Len(r) : b[k] = d[Len(p) + k]
      <3>1. PICK m, n : m = Len(p) + 1 /\ n = Len(d)
        OBVIOUS
      <3>2. m \in Int /\ n \in Int /\ n - m + 1 = Len(r) /\ (m <= n <=> Len(r) # 0)
        BY <1>3, <1>4, <3>1
      <3>3. /\ SubSeq(d, m, n) \in Seq(Nat)
            /\ Len(SubSeq(d, m, n)) = IF m <= n THEN n - m + 1 ELSE 0
            /\ \A k \in 1..(n - m + 1) : SubSeq(d, m, n)[k] = d[m + k - 1]
        BY <2>1, <3>1, <3>2, SubSeqProperties
      <3>4. \A k \in 1..Len(r) : m + k - 1 = Len(p) + k
        BY <1>3, <3>1
      <3>5. b \in Seq(Nat) /\ Len(b) = Len(r)
        BY <2>2, <3>1, <3>2, <3>3
      <3>6. ASSUME NEW k \in 1..Len(r) PROVE b[k] = d[Len(p) + k]
        BY <2>2, <3>1, <3>2, <3>3, <3>4
      <3>7. QED BY <3>5, <3>6
    <2>4. QED BY <1>5, <2>2, <2>3
  <1>8. e.elements \o e.result = d
    <2>1. PICK a, b : a = e.elements /\ b = e.result
      OBVIOUS
    <2>2. a \in Seq(Nat) /\ b \in Seq(Nat) /\ Len(a) = Len(p) /\ Len(b) = Len(r)
      BY <1>6, <1>7, <2>1
    <2>3. /\ a \o b \in Seq(Nat) /\ Len(a \o b) = Len(d)
          /\ \A k \in 1..(Len(a) + Len(b)) : (a \o b)[k] = IF k <= Len(a) THEN a[k] ELSE b[k - Len(a)]
      BY <1>3, <1>4, <2>2, ConcatProperties
    <2>4. ASSUME NEW k \in 1..Len(d) PROVE (a \o b)[k] = d[k]
      <3>1. CASE k <= Len(p)
        <4>1. k \in 1..Len(p) /\ k \in 1..(Len(a) + Len(b)) /\ k <= Len(a)
          BY <1>3, <1>4, <2>2, <3>1
        <4>2. a[k] = d[k]
          BY <1>6, <2>1, <4>1
        <4>3. QED BY <2>3, <4>1, <4>2
      <3>2. CASE ~ k <= Len(p)
        <4>1. k - Len(p) \in 1..Len(r) /\ Len(p) + (k - Len(p)) = k /\ k \in 1..(Len(a) + Len(b))
          BY <1>3, <1>4, <2>2, <3>2
        <4>2. b[k - Len(p)] = d[k]
          BY <1>7, <2>1, <4>1
        <4>3. QED BY <2>2, <2>3, <3>2, <4>1, <4>2
      <3>3. QED BY <3>1, <3>2
    <2>5. a \o b = d
      BY <1>2, <2>3, <2>4, SeqEqual
    <2>6. QED BY <2>1, <2>5
  <1>9. \A k \in DOMAIN d : ops[k] \in DOMAIN ids /\ d[k] = ids[ops[k]]
    BY <1>1 DEF FrameStands
  <1>10. e.id = ids[f.type] /\ e.kind = file.interner[f.type].kind
    BY DEF e, EntryOf, FrameStands
  <1>11. Unfolds(file, ids, e, f.type)
    BY <1>1, <1>4, <1>6, <1>7, <1>8, <1>9, <1>10 DEF Unfolds
  <1>12. QED BY <1>11 DEF e

LEMMA DropStands ==
  ASSUME NEW file, InternerIsClosed(file), NEW ids, NEW entries, NEW stack,
         Stands(file, ids, entries, stack), stack # <<>>,
         NEW e, Unfolds(file, ids, e, stack[Len(stack)].type)
  PROVE  Stands(file, ids, Append(entries, e), Front(stack))
PROOF
  <1> DEFINE n == Len(stack)
             lower == Front(stack)
             longer == Append(entries, e)
  <1>1. IdsStand(file, ids) /\ FramesStand(file, ids, stack) /\ IsList(entries)
    BY DEF Stands
  <1>2. stack \in Seq(Frames(file)) /\ n \in Nat /\ DOMAIN stack = 1..n /\ n # 0
    BY <1>1, EmptySeq DEF FramesStand
  <1>3. /\ IsList(longer) /\ Len(longer) = Len(entries) + 1 /\ Len(entries) \in Nat
        /\ DOMAIN longer = 1..(Len(entries) + 1) /\ DOMAIN entries = 1..Len(entries)
        /\ \A i \in 1..Len(entries) : longer[i] = entries[i]
        /\ longer[Len(entries) + 1] = e
    BY <1>1, AppendFacts
  <1>4. /\ lower \in Seq(Frames(file)) /\ Len(lower) = n - 1 /\ DOMAIN lower = 1..(n - 1)
        /\ \A i \in 1..(n - 1) : lower[i] = stack[i]
    <2>1. Front(stack) = SubSeq(stack, 1, n - 1)
      BY DEF Front
    <2>2. SubSeq(stack, 1, n - 1) = [i \in 1..(n - 1) |-> stack[i]]
      BY <1>2
    <2>3. [i \in 1..(n - 1) |-> stack[i]] \in [1..(n - 1) -> Frames(file)]
      BY <1>2
    <2>4. QED BY <1>2, <2>1, <2>2, <2>3
  <1> HIDE DEF lower, longer, n
  <1>5. FramesStand(file, ids, lower)
    <2>1. ASSUME NEW i \in DOMAIN lower PROVE FrameStands(file, ids, lower[i])
      BY <1>1, <1>2, <1>4 DEF FramesStand
    <2>2. ASSUME NEW i \in DOMAIN lower, NEW j \in DOMAIN lower, lower[i].type = lower[j].type
          PROVE  i = j
      BY <1>1, <1>2, <1>4, <2>2 DEF FramesStand
    <2>3. ASSUME NEW i \in DOMAIN lower, i # Len(lower)
          PROVE  WaitsFor(file, lower[i], lower[i + 1].type)
      <3>1. i \in 1..n /\ i # n /\ i + 1 \in 1..(n - 1) /\ lower[i] = stack[i] /\ lower[i + 1] = stack[i + 1]
        BY <1>2, <1>4, <2>3
      <3>2. WaitsFor(file, stack[i], stack[i + 1].type)
        BY <1>1, <1>2, <3>1 DEF FramesStand, n
      <3>3. QED BY <3>1, <3>2
    <2>4. QED BY <1>4, <2>1, <2>2, <2>3 DEF FramesStand
  <1>6. ASSUME NEW u \in DOMAIN ids PROVE IsOn(lower, u) \/ HasEntry(file, ids, longer, u)
    <2>1. CASE IsOn(stack, u)
      <3>1. PICK i \in DOMAIN stack : stack[i].type = u
        BY <2>1 DEF IsOn
      <3>2. CASE i = n
        <4>1. Unfolds(file, ids, longer[Len(entries) + 1], u)
          BY <1>3, <3>1, <3>2 DEF n
        <4>2. Len(entries) + 1 \in DOMAIN longer
          BY <1>3
        <4>3. QED BY <4>1, <4>2 DEF HasEntry
      <3>3. CASE i # n
        <4>1. i \in DOMAIN lower /\ lower[i].type = u
          BY <1>2, <1>4, <3>1, <3>3
        <4>2. QED BY <4>1 DEF IsOn
      <3>4. QED BY <3>2, <3>3
    <2>2. CASE HasEntry(file, ids, entries, u)
      <3>1. PICK i \in DOMAIN entries : Unfolds(file, ids, entries[i], u)
        BY <2>2 DEF HasEntry
      <3>2. i \in DOMAIN longer /\ longer[i] = entries[i]
        BY <1>3
      <3>3. QED BY <3>1, <3>2 DEF HasEntry
    <2>3. QED BY <2>1, <2>2 DEF Stands
  <1>7. Len(longer) + Len(lower) = Cardinality(DOMAIN ids)
    <2>1. Len(entries) + n = Cardinality(DOMAIN ids)
      BY DEF Stands, n
    <2>2. QED BY <1>2, <1>3, <1>4, <2>1
  <1>8. Stands(file, ids, longer, lower)
    BY <1>1, <1>3, <1>5, <1>6, <1>7 DEF Stands
  <1>9. QED BY <1>8 DEF longer, lower

LEMMA PushStands ==
  ASSUME NEW file, InternerIsClosed(file), NEW ids, NEW entries, NEW stack,
         Stands(file, ids, entries, stack), stack # <<>>,
         NEW e, Unfolds(file, ids, e, stack[Len(stack)].type)
  PROVE  Stands(file, ids, Append(entries, e),
                IF Len(stack) = 1 THEN <<>> ELSE Answer(Front(stack), stack[Len(stack)].id))
PROOF
  <1> DEFINE n == Len(stack)
             lower == Front(stack)
             longer == Append(entries, e)
             t == stack[n].type
  <1>1. stack \in Seq(Frames(file)) /\ n \in Nat /\ DOMAIN stack = 1..n /\ n # 0
    BY EmptySeq DEF Stands, FramesStand
  <1>2. Stands(file, ids, longer, lower)
    BY DropStands
  <1>3. /\ lower \in Seq(Frames(file)) /\ Len(lower) = n - 1
        /\ \A i \in 1..(n - 1) : lower[i] = stack[i]
    <2>1. Front(stack) = SubSeq(stack, 1, n - 1)
      BY DEF Front
    <2>2. SubSeq(stack, 1, n - 1) = [i \in 1..(n - 1) |-> stack[i]]
      BY <1>1
    <2>3. [i \in 1..(n - 1) |-> stack[i]] \in [1..(n - 1) -> Frames(file)]
      BY <1>1
    <2>4. QED BY <1>1, <2>1, <2>2, <2>3
  <1>4. n \in DOMAIN stack /\ t \in DOMAIN ids /\ stack[n].id = ids[t]
    BY <1>1 DEF Stands, FramesStand, FrameStands
  <1>5. CASE n = 1
    <2>1. Len(lower) = 0
      BY <1>3, <1>5
    <2>2. lower = <<>>
      BY <1>3, <2>1, EmptySeq
    <2>3. QED BY <1>2, <1>5, <2>2
  <1>6. CASE n # 1
    <2>1. n - 1 \in 1..(n - 1) /\ n - 1 \in DOMAIN stack /\ n - 1 # n /\ (n - 1) + 1 = n
      <3>1. PICK m : m = n
        OBVIOUS
      <3>2. m \in Nat /\ m # 0 /\ m # 1 /\ DOMAIN stack = 1..m
        BY <1>1, <1>6, <3>1
      <3>3. m - 1 \in 1..(m - 1) /\ m - 1 \in 1..m /\ m - 1 # m /\ (m - 1) + 1 = m
        BY <3>2
      <3>4. QED BY <3>1, <3>2, <3>3
    <2>2. WaitsFor(file, stack[n - 1], t)
      BY <2>1 DEF Stands, FramesStand
    <2> HIDE DEF lower, longer, t
    <2>3. WaitsFor(file, lower[Len(lower)], t)
      <3>1. lower[Len(lower)] = stack[n - 1]
        BY <1>3, <2>1
      <3>2. QED BY <2>2, <3>1
    <2>4. lower # <<>>
      <3>1. Len(lower) # 0
        BY <1>1, <1>3, <1>6
      <3>2. QED BY <3>1
    <2>5. PICK l, m, u : l = lower /\ m = longer /\ u = t
      OBVIOUS
    <2>6. Stands(file, ids, m, l) /\ l # <<>> /\ u \in DOMAIN ids /\ WaitsFor(file, l[Len(l)], u)
      BY <1>2, <1>4, <2>3, <2>4, <2>5
    <2>7. Stands(file, ids, m, Answer(l, ids[u]))
      BY <2>6, AnswerStands
    <2>8. QED BY <1>4, <1>6, <2>5, <2>7 DEF lower, longer
  <1>7. QED BY <1>5, <1>6
-----------------------------------------------------------------------------
(* What always holds of the table while it is made.                           *)
TableStands ==
  /\ IsInput(input)
  /\ requests \in Seq(Interned(input))
  /\ Stands(input, typeIds, types, converting)

LEMMA TableOperands ==
  /\ \A t : Table!Operands(t) = OperandsOf(input, t)
  /\ \A S : Table!Cardinality(S) = Cardinality(S)
  /\ \A s : Table!Last(s) = s[Len(s)] /\ Table!Front(s) = Front(s)
  /\ \A s, id : Table!Answered(s, id) = Answer(s, id)
BY DEF Table!Operands, OperandsOf, Table!Cardinality, Cardinality, Table!Last, Table!Front, Front,
       Table!Answered, Answer

LEMMA DescendKeeps ==
  ASSUME TypesAreInterned, TableStands, NEW t \in Interned(input), t \notin DOMAIN typeIds,
         NEW below, Stands(input, typeIds, types, below),
         below # <<>> => WaitsFor(input, below[Len(below)], t),
         Table!Descend(t, below)
  PROVE  Stands(input, typeIds', types, converting')
PROOF
  <1>1. typeIds' = Remembered(typeIds, t) /\ converting' = Append(below, NewFrame(typeIds, t))
    BY TableOperands DEF Table!Descend, Table!Remember, Table!NewId, Remembered, NewFrame
  <1>2. InternerIsClosed(input)
    BY InternersAreClosed DEF TableStands
  <1>3. PICK file, ids, entries : file = input /\ ids = typeIds /\ entries = types
    OBVIOUS
  <1>4. Stands(file, Remembered(ids, t), entries, Append(below, NewFrame(ids, t)))
    BY <1>2, <1>3, DescendStands
  <1>5. QED BY <1>1, <1>3, <1>4

LEMMA ConvertKeeps ==
  ASSUME TypesAreInterned, TableStands, input' = input, Table!Convert
  PROVE  TableStands'
PROOF
  <1> DEFINE n == Len(converting)
             top == converting[n]
  <1>1. InternerIsClosed(input)
    BY InternersAreClosed DEF TableStands
  <1>2. /\ Stands(input, typeIds, types, converting)
        /\ requests \in Seq(Interned(input)) /\ IsInput(input)
    BY DEF TableStands
  <1>3. /\ converting \in Seq(Frames(input)) /\ n \in Nat /\ DOMAIN converting = 1..n
        /\ \A i \in DOMAIN converting : FrameStands(input, typeIds, converting[i])
    BY <1>2 DEF Stands, FramesStand
  <1>4. ASSUME converting # <<>>
        PROVE  /\ n \in DOMAIN converting /\ top \in Frames(input) /\ FrameStands(input, typeIds, top)
               /\ Table!Converting = top
    <2>1. n # 0
      BY <1>3, <1>4, EmptySeq
    <2>2. n \in DOMAIN converting
      BY <1>3, <2>1
    <2>3. QED BY <1>3, <2>2, TableOperands DEF Table!Converting
  <1>5. ASSUME converting # <<>>, Table!OperandsLeft
        PROVE  WaitsFor(input, top, Table!Operand) /\ Table!Operand \in Interned(input)
    <2>1. top.type \in Interned(input) /\ top.done \in Seq(Nat) /\ Table!Converting = top
      BY <1>4, <1>5 DEF Frames
    <2>2. OperandsOf(input, top.type) \in Seq(Interned(input))
      BY <1>1, <2>1 DEF InternerIsClosed
    <2> HIDE DEF top
    <2>3. /\ Len(top.done) < Len(OperandsOf(input, top.type))
          /\ Table!Operand = OperandsOf(input, top.type)[Len(top.done) + 1]
      BY <1>5, <2>1, TableOperands DEF Table!OperandsLeft, Table!Operand
    <2>4. Len(top.done) + 1 \in 1..Len(OperandsOf(input, top.type))
      BY <2>1, <2>2, <2>3
    <2>5. QED BY <2>2, <2>3, <2>4 DEF WaitsFor
  <1>6. CASE Table!Request
    <2>1. /\ requests # <<>> /\ requests' = Tail(requests) /\ types' = types /\ converting = <<>>
      BY <1>6 DEF Table!Request
    <2>2. Head(requests) \in Interned(input) /\ requests' \in Seq(Interned(input))
      BY <1>2, <2>1, HeadTailProperties
    <2>3. CASE Head(requests) \in DOMAIN typeIds
      <3>1. typeIds' = typeIds /\ converting' = converting
        BY <1>6, <2>3 DEF Table!Request
      <3>2. QED BY <1>2, <2>1, <2>2, <3>1 DEF TableStands
    <2>4. CASE Head(requests) \notin DOMAIN typeIds
      <3>1. Table!Descend(Head(requests), <<>>)
        BY <1>6, <2>4 DEF Table!Request
      <3>2. Stands(input, typeIds', types, converting')
        <4>1. PICK t : t = Head(requests)
          OBVIOUS
        <4>2. Stands(input, typeIds, types, <<>>)
          BY <1>2, <2>1
        <4>3. QED BY <2>2, <2>4, <3>1, <4>1, <4>2, DescendKeeps
      <3>3. QED BY <1>2, <2>1, <2>2, <3>2 DEF TableStands
    <2>5. QED BY <2>3, <2>4
  <1>7. CASE Table!ConvertKnown
    <2>1. /\ converting # <<>> /\ Table!OperandsLeft /\ Table!Operand \in DOMAIN typeIds
          /\ converting' = Answer(converting, typeIds[Table!Operand])
          /\ requests' = requests /\ typeIds' = typeIds /\ types' = types
      BY <1>7, TableOperands DEF Table!ConvertKnown
    <2>2. WaitsFor(input, converting[Len(converting)], Table!Operand)
      BY <1>5, <2>1
    <2>3. PICK file, ids, entries, stack, t :
            /\ file = input /\ ids = typeIds /\ entries = types /\ stack = converting
            /\ t = Table!Operand
      OBVIOUS
    <2>4. Stands(file, ids, entries, Answer(stack, ids[t]))
      <3>1. /\ InternerIsClosed(file) /\ Stands(file, ids, entries, stack) /\ stack # <<>>
            /\ t \in DOMAIN ids /\ WaitsFor(file, stack[Len(stack)], t)
        BY <1>1, <1>2, <2>1, <2>2, <2>3
      <3>2. QED BY <3>1, AnswerStands
    <2>5. QED BY <1>2, <2>1, <2>3, <2>4 DEF TableStands
  <1>8. CASE Table!ConvertNew
    <2>1. /\ converting # <<>> /\ Table!OperandsLeft /\ Table!Operand \notin DOMAIN typeIds
          /\ Table!Descend(Table!Operand, converting)
          /\ requests' = requests /\ types' = types
      BY <1>8 DEF Table!ConvertNew
    <2>2. WaitsFor(input, converting[Len(converting)], Table!Operand) /\ Table!Operand \in Interned(input)
      BY <1>5, <2>1
    <2>3. Stands(input, typeIds', types, converting')
      <3>1. PICK t, below : t = Table!Operand /\ below = converting
        OBVIOUS
      <3>2. QED BY <1>2, <2>1, <2>2, <3>1, DescendKeeps
    <2>4. QED BY <1>2, <2>1, <2>3 DEF TableStands
  <1>9. CASE Table!PushType
    <2>1. /\ converting # <<>> /\ ~ Table!OperandsLeft
          /\ requests' = requests /\ typeIds' = typeIds
      BY <1>9 DEF Table!PushType
    <2>2. top \in Frames(input) /\ FrameStands(input, typeIds, top) /\ Table!Converting = top
      BY <1>4, <2>1
    <2> HIDE DEF top
    <2>3. types' = Append(types, EntryOf(input, top))
      BY <1>9, <2>2 DEF Table!PushType, EntryOf
    <2>4. converting' = IF n = 1 THEN <<>> ELSE Answer(Front(converting), top.id)
      BY <1>9, <2>2, TableOperands DEF Table!PushType
    <2>5. ~ Len(top.done) < Len(OperandsOf(input, top.type))
      BY <2>1, <2>2, TableOperands DEF Table!OperandsLeft
    <2>6. /\ input.interner[top.type].parts \in Seq(Interned(input))
          /\ input.interner[top.type].result \in Seq(Interned(input))
      <3>1. top.type \in Interned(input)
        BY <2>2 DEF Frames
      <3>2. QED BY <1>2, <3>1, InternersAreClosed
    <2>7. PICK file, ids, entries, stack, f, e :
            /\ file = input /\ ids = typeIds /\ entries = types /\ stack = converting
            /\ f = top /\ e = EntryOf(input, top)
      OBVIOUS
    <2>8. Unfolds(file, ids, e, f.type)
      BY <1>1, <2>2, <2>5, <2>6, <2>7, DoneUnfolds
    <2>9. Stands(file, ids, Append(entries, e), IF Len(stack) = 1 THEN <<>>
                                                ELSE Answer(Front(stack), stack[Len(stack)].id))
      <3>1. /\ InternerIsClosed(file) /\ Stands(file, ids, entries, stack) /\ stack # <<>>
            /\ Unfolds(file, ids, e, stack[Len(stack)].type)
        BY <1>1, <1>2, <2>1, <2>7, <2>8 DEF top
      <3>2. QED BY <3>1, PushStands
    <2>10. Stands(input, typeIds', types', converting')
      BY <2>1, <2>3, <2>4, <2>7, <2>9 DEF top
    <2>11. QED BY <1>2, <2>1, <2>10 DEF TableStands
  <1>10. QED BY <1>6, <1>7, <1>8, <1>9 DEF Table!Convert

LEMMA TableKeepsStanding ==
  ASSUME TypesAreInterned, TableStands, [Next]_vars
  PROVE  TableStands'
PROOF
  <1>1. CASE ReportUses
    <2>1. input' = input /\ typeIds' = typeIds /\ types' = types /\ converting' = converting
      BY <1>1 DEF ReportUses, walk, naming, merging, table
    <2>2. requests' \in Seq(Interned(input))
      BY <1>1, WantedIsInterned DEF ReportUses, TableStands
    <2>3. QED BY <2>1, <2>2 DEF TableStands
  <1>2. CASE ConvertTypes
    <2>1. input' = input /\ Table!Convert
      BY <1>2 DEF ConvertTypes
    <2>2. QED BY <2>1, ConvertKeeps
  <1>3. CASE CollectNode \/ CollectSymbols \/ CollectLambdas \/ CollectGraphs \/ ReadUses \/ Finish \/ UNCHANGED vars
    <2>1. /\ input' = input /\ requests' = requests /\ typeIds' = typeIds
          /\ types' = types /\ converting' = converting
      BY <1>3 DEF CollectNode, CollectSymbols, CollectLambdas, CollectGraphs, ReadUses, Finish,
                  vars, walk, naming, merging, reported, table
    <2>2. QED BY <2>1 DEF TableStands
  <1>4. QED BY <1>1, <1>2, <1>3 DEF Next

LEMMA TableStandsAtFirst ==
  ASSUME Init
  PROVE  TableStands
PROOF
  <1> DEFINE none == [t \in {} |-> 0]
  <1>1. /\ IsInput(input) /\ requests = <<>> /\ types = <<>> /\ converting = <<>>
        /\ typeIds = none
    BY DEF Init, Table!StartTable
  <1>2. DOMAIN none = {} /\ IdsStand(input, none)
    BY FS_EmptySet DEF IdsStand
  <1>3. IsList(<<>>) /\ Len(<<>>) = 0
    BY DEF IsList
  <1>4. FramesStand(input, none, <<>>)
    BY DEF FramesStand
  <1>5. Cardinality(DOMAIN none) = 0
    BY <1>2, FS_EmptySet
  <1> HIDE DEF none
  <1>6. Stands(input, none, <<>>, <<>>)
    BY <1>2, <1>3, <1>4, <1>5 DEF Stands
  <1>7. QED BY <1>1, <1>6 DEF TableStands

LEMMA StandingTableUnfolds ==
  ASSUME TableStands
  PROVE  TypesUnfold
PROOF
  <1>1. Stands(input, typeIds, types, converting)
    BY DEF TableStands
  <1>2. \A i, j \in DOMAIN converting : converting[i].type = converting[j].type => i = j
    BY <1>1 DEF Stands, FramesStand
  <1>3. ASSUME Table!Converted
        PROVE  /\ Len(types) = Table!Cardinality(DOMAIN typeIds)
               /\ \A t \in DOMAIN typeIds : HasEntry(input, typeIds, types, t)
    <2>1. converting = <<>> /\ Len(converting) = 0 /\ DOMAIN converting = {}
      BY <1>3 DEF Table!Converted
    <2>2. Len(types) \in Nat
      BY <1>1 DEF Stands, IsList
    <2>3. Len(types) = Cardinality(DOMAIN typeIds)
      BY <1>1, <2>1, <2>2 DEF Stands
    <2>4. QED BY <1>1, <2>1, <2>3, TableOperands DEF Stands, IsOn
  <1>4. ASSUME NEW t, HasEntry(input, typeIds, types, t)
        PROVE  \E i \in DOMAIN types :
                 /\ types[i].id = typeIds[t]
                 /\ types[i].kind = input.interner[t].kind
                 /\ LET named == types[i].elements \o types[i].result IN
                    /\ Len(types[i].elements) = Len(input.interner[t].parts)
                    /\ Len(named) = Len(Table!Operands(t))
                    /\ \A k \in DOMAIN named :
                         /\ Table!Operands(t)[k] \in DOMAIN typeIds
                         /\ named[k] = typeIds[Table!Operands(t)[k]]
    <2>1. PICK i \in DOMAIN types : Unfolds(input, typeIds, types[i], t)
      BY <1>4 DEF HasEntry
    <2>2. QED BY <2>1, TableOperands DEF Unfolds
  <1>5. QED BY <1>2, <1>3, <1>4 DEF TypesUnfold, Table!TypesUnfold

(* The table of types unfolds to the graph of types it was made of, however   *)
(* many types there are and however they contain each other: no type is ever  *)
(* converted twice, and in the end each has one entry that names its operands *)
(* (TypeBuilder.convert).                                                     *)
THEOREM TypesUnfoldAlways ==
  ASSUME TypesAreInterned
  PROVE  Spec => []TypesUnfold
PROOF
  <1>1. Init => TableStands
    BY TableStandsAtFirst
  <1>2. TableStands /\ [Next]_vars => TableStands'
    BY TableKeepsStanding
  <1>3. TableStands => TypesUnfold
    BY StandingTableUnfolds
  <1>4. QED BY <1>1, <1>2, <1>3, PTL DEF Spec
-----------------------------------------------------------------------------
(* The hypothesis on uses.                                                    *)
UsesAreLists == \A file : IsInput(file) => ListsItsUses(file)

(* Of the first n uses that are read: the last one of a name, and the first   *)
(* one that refers to something.                                              *)
IsLast(read, n, key, i) ==
  /\ i \in 1..n /\ Uses!Key(read[i]) = key
  /\ \A j \in 1..n : Uses!Key(read[j]) = key => j <= i

IsFirstFound(read, n, key, i) ==
  /\ i \in 1..n /\ Uses!Key(read[i]) = key /\ read[i].target # Unresolved
  /\ \A j \in 1..n : Uses!Key(read[j]) = key /\ read[j].target # Unresolved => i <= j

(* How many uses were read: of the resolver, and of each body.                *)
ResolverSays(file, own, key, answer) ==
  \E i \in 1..own : IsLast(file.resolver, own, key, i) /\ answer = file.resolver[i].target

ResolverIsSilent(file, own, key) ==
  \A i \in 1..own : IsLast(file.resolver, own, key, i) => file.resolver[i].target = Unresolved

ABodyFinds(file, read, key, answer) ==
  \E b \in file.bodies : \E i \in 1..read[b] :
    IsFirstFound(b, read[b], key, i) /\ answer = b[i].target

NobodyFinds(file, read, key) ==
  \A b \in file.bodies : \A i \in 1..read[b] : Uses!Key(b[i]) = key => b[i].target = Unresolved

(* The best answer of those that were read.                                   *)
Settled(file, own, read, key, answer) ==
  \/ answer # Unresolved /\ ResolverSays(file, own, key, answer)
  \/ /\ ResolverIsSilent(file, own, key)
     /\ \/ answer # Unresolved /\ ABodyFinds(file, read, key, answer)
        \/ answer = Unresolved /\ NobodyFinds(file, read, key)

IsSeen(file, own, read, key) ==
  \/ \E i \in 1..own : Uses!Key(file.resolver[i]) = key
  \/ \E b \in file.bodies : \E i \in 1..read[b] : Uses!Key(b[i]) = key

AnswersStand(file, own, read, answers) ==
  /\ \A key : key \in DOMAIN answers <=> IsSeen(file, own, read, key)
  /\ \A key \in DOMAIN answers : Settled(file, own, read, key, answers[key])

Counts(file, own, read) ==
  /\ own \in 0..Len(file.resolver) /\ read \in [file.bodies -> Nat]
  /\ \A b \in file.bodies : read[b] <= Len(b)

(* One more use of the resolver is read, while no body was.                   *)
Extended(answers, key, answer) ==
  [k \in DOMAIN answers \union {key} |-> IF k = key THEN answer ELSE answers[k]]

LEMMA ResolverStep ==
  ASSUME NEW file, NEW own \in Nat, NEW read \in [file.bodies -> Nat], NEW answers,
         AnswersStand(file, own, read, answers), \A b \in file.bodies : read[b] = 0,
         NEW u, u = file.resolver[own + 1]
  PROVE  AnswersStand(file, own + 1, read, Extended(answers, Uses!Key(u), u.target))
PROOF
  <1> DEFINE later == Extended(answers, Uses!Key(u), u.target)
  <1>1. own + 1 \in 1..(own + 1) /\ \A i : i \in 1..(own + 1) <=> i \in 1..own \/ i = own + 1
    OBVIOUS
  <1>2. \A key : key \in DOMAIN later <=> IsSeen(file, own + 1, read, key)
    <2>1. \A key : key \in DOMAIN later <=> key \in DOMAIN answers \/ key = Uses!Key(u)
      BY DEF Extended
    <2> HIDE DEF later
    <2>2. ASSUME NEW key
          PROVE  IsSeen(file, own + 1, read, key) <=> IsSeen(file, own, read, key) \/ key = Uses!Key(u)
      BY <1>1 DEF IsSeen
    <2>3. QED BY <2>1, <2>2 DEF AnswersStand
  <1>3. ASSUME NEW key \in DOMAIN later PROVE Settled(file, own + 1, read, key, later[key])
    <2>1. CASE key = Uses!Key(u)
      <3>1. later[key] = u.target
        BY <2>1 DEF Extended
      <3>2. IsLast(file.resolver, own + 1, key, own + 1)
        BY <1>1, <2>1 DEF IsLast
      <3>3. CASE u.target # Unresolved
        <4>1. ResolverSays(file, own + 1, key, u.target)
          BY <1>1, <3>2 DEF ResolverSays
        <4>2. QED BY <3>1, <3>3, <4>1 DEF Settled
      <3>4. CASE u.target = Unresolved
        <4>1. \A i \in 1..(own + 1) : IsLast(file.resolver, own + 1, key, i) => i = own + 1
          BY <3>2 DEF IsLast
        <4>2. ResolverIsSilent(file, own + 1, key)
          BY <3>4, <4>1 DEF ResolverIsSilent
        <4>3. NobodyFinds(file, read, key)
          BY DEF NobodyFinds
        <4>4. QED BY <3>1, <3>4, <4>2, <4>3 DEF Settled
      <3>5. QED BY <3>3, <3>4
    <2>2. CASE key # Uses!Key(u)
      <3>1. key \in DOMAIN answers /\ later[key] = answers[key]
        BY <2>2 DEF Extended
      <3>2. \A i : IsLast(file.resolver, own + 1, key, i) <=> IsLast(file.resolver, own, key, i)
        BY <1>1, <2>2 DEF IsLast
      <3>3. \A i : IsLast(file.resolver, own, key, i) => i \in 1..own
        BY DEF IsLast
      <3>4. /\ \A a : ResolverSays(file, own + 1, key, a) <=> ResolverSays(file, own, key, a)
            /\ ResolverIsSilent(file, own + 1, key) <=> ResolverIsSilent(file, own, key)
        BY <1>1, <3>2, <3>3 DEF ResolverSays, ResolverIsSilent
      <3>5. Settled(file, own, read, key, answers[key])
        BY <3>1 DEF AnswersStand
      <3>6. QED BY <3>1, <3>4, <3>5 DEF Settled
    <2>3. QED BY <2>1, <2>2
  <1>4. QED BY <1>2, <1>3 DEF AnswersStand

(* One more use of a body is read.                                            *)
LEMMA BodyStep ==
  ASSUME NEW file, NEW own \in Nat, NEW read \in [file.bodies -> Nat], NEW answers,
         AnswersStand(file, own, read, answers),
         NEW b \in file.bodies, NEW u, u = b[read[b] + 1], NEW later,
         \/ /\ Uses!Key(u) \notin DOMAIN answers \/ (answers[Uses!Key(u)] = Unresolved /\ u.target # Unresolved)
            /\ later = Extended(answers, Uses!Key(u), u.target)
         \/ /\ ~ (Uses!Key(u) \notin DOMAIN answers
                  \/ (answers[Uses!Key(u)] = Unresolved /\ u.target # Unresolved))
            /\ later = answers
  PROVE  AnswersStand(file, own, [read EXCEPT ![b] = @ + 1], later)
PROOF
  <1> DEFINE n == read[b]
             more == [read EXCEPT ![b] = @ + 1]
             k == Uses!Key(u)
  <1>1. n \in Nat /\ more[b] = n + 1 /\ n + 1 \in 1..more[b] /\ more \in [file.bodies -> Nat]
    OBVIOUS
  <1>2. \A i : i \in 1..more[b] <=> i \in 1..n \/ i = n + 1
    BY <1>1
  <1>3. \A c \in file.bodies : c # b => more[c] = read[c]
    OBVIOUS
  <1> HIDE DEF more, n, k
  <1>4. b[n + 1] = u /\ Uses!Key(u) = k /\ n = read[b]
    BY DEF n, k
  <1>5. \A key : key \in DOMAIN later <=> key \in DOMAIN answers \/ key = k
    BY <1>4 DEF Extended
  <1>6. ASSUME NEW key
        PROVE  IsSeen(file, own, more, key) <=> IsSeen(file, own, read, key) \/ key = k
    <2> DEFINE In(r) == \E c \in file.bodies : \E i \in 1..r[c] : Uses!Key(c[i]) = key
    <2>1. In(more) => In(read) \/ key = k
      <3>1. ASSUME NEW c \in file.bodies, NEW i \in 1..more[c], Uses!Key(c[i]) = key
            PROVE  In(read) \/ key = k
        <4>1. CASE c # b
          BY <1>3, <3>1, <4>1
        <4>2. CASE c = b /\ i \in 1..n
          BY <1>4, <3>1, <4>2
        <4>3. CASE c = b /\ i = n + 1
          BY <1>4, <3>1, <4>3
        <4>4. QED BY <1>2, <4>1, <4>2, <4>3
      <3>2. QED BY <3>1
    <2>2. In(read) => In(more)
      <3>1. ASSUME NEW c \in file.bodies, NEW i \in 1..read[c], Uses!Key(c[i]) = key
            PROVE  In(more)
        <4>1. i \in 1..more[c]
          BY <1>2, <1>3, <1>4
        <4>2. QED BY <3>1, <4>1
      <3>2. QED BY <3>1
    <2>3. key = k => In(more)
      BY <1>1, <1>4
    <2> HIDE DEF In
    <2>4. In(more) <=> In(read) \/ key = k
      BY <2>1, <2>2, <2>3
    <2>5. QED BY <2>4 DEF IsSeen, In
  <1>7. \A key : key \in DOMAIN later <=> IsSeen(file, own, more, key)
    BY <1>5, <1>6 DEF AnswersStand
  <1>8. ASSUME NEW key, NEW a, ABodyFinds(file, read, key, a)
        PROVE  ABodyFinds(file, more, key, a)
    <2>1. PICK c \in file.bodies :
            \E i \in 1..read[c] : IsFirstFound(c, read[c], key, i) /\ a = c[i].target
      BY <1>8 DEF ABodyFinds
    <2>2. PICK i \in 1..read[c] : IsFirstFound(c, read[c], key, i) /\ a = c[i].target
      BY <2>1
    <2>3. i \in 1..more[c]
      BY <1>2, <1>3, <1>4
    <2>4. CASE c # b
      BY <1>3, <2>2, <2>4 DEF ABodyFinds
    <2>5. CASE c = b
      <3>1. IsFirstFound(b, n, key, i) /\ i <= n + 1
        BY <1>1, <1>4, <2>2, <2>5
      <3>2. IsFirstFound(b, more[b], key, i)
        BY <1>2, <3>1 DEF IsFirstFound
      <3>3. QED BY <2>2, <2>3, <2>5, <3>2 DEF ABodyFinds
    <2>6. QED BY <2>4, <2>5
  <1>9. ASSUME NEW key, key # k \/ u.target = Unresolved, NobodyFinds(file, read, key)
        PROVE  NobodyFinds(file, more, key)
    <2>1. ASSUME NEW c \in file.bodies, NEW i \in 1..more[c], Uses!Key(c[i]) = key
          PROVE  c[i].target = Unresolved
      <3>1. CASE c # b \/ i \in 1..n
        <4>1. i \in 1..read[c]
          BY <1>3, <1>4, <3>1
        <4>2. QED BY <1>9, <2>1, <4>1 DEF NobodyFinds
      <3>2. CASE c = b /\ i = n + 1
        BY <1>4, <1>9, <2>1, <3>2
      <3>3. QED BY <1>2, <3>1, <3>2
    <2>2. QED BY <2>1 DEF NobodyFinds
  <1>10. ASSUME u.target # Unresolved, NobodyFinds(file, read, k)
         PROVE  ABodyFinds(file, more, k, u.target)
    <2>1. \A j \in 1..n : Uses!Key(b[j]) = k => b[j].target = Unresolved
      BY <1>4, <1>10 DEF NobodyFinds
    <2>2. IsFirstFound(b, more[b], k, n + 1)
      BY <1>1, <1>2, <1>4, <1>10, <2>1 DEF IsFirstFound
    <2>3. QED BY <1>1, <1>4, <2>2 DEF ABodyFinds
  <1>11. ASSUME NEW key \in DOMAIN answers, key # k \/ answers[key] # Unresolved \/ u.target = Unresolved
         PROVE  Settled(file, own, more, key, answers[key])
    <2>1. Settled(file, own, read, key, answers[key])
      BY DEF AnswersStand
    <2>2. answers[key] = Unresolved => key # k \/ u.target = Unresolved
      BY <1>11
    <2>3. QED BY <1>8, <1>9, <2>1, <2>2 DEF Settled
  <1>12. ASSUME k \notin DOMAIN answers \/ (answers[k] = Unresolved /\ u.target # Unresolved)
         PROVE  Settled(file, own, more, k, u.target)
    <2>1. ResolverIsSilent(file, own, k) /\ NobodyFinds(file, read, k)
      <3>1. CASE k \notin DOMAIN answers
        <4>1. ~ IsSeen(file, own, read, k)
          BY <3>1 DEF AnswersStand
        <4>2. QED BY <4>1 DEF IsSeen, ResolverIsSilent, NobodyFinds, IsLast
      <3>2. CASE k \in DOMAIN answers /\ answers[k] = Unresolved
        <4>1. Settled(file, own, read, k, answers[k])
          BY <3>2 DEF AnswersStand
        <4>2. QED BY <3>2, <4>1 DEF Settled
      <3>3. QED BY <1>12, <3>1, <3>2
    <2>2. CASE u.target = Unresolved
      BY <1>9, <2>1, <2>2 DEF Settled
    <2>3. CASE u.target # Unresolved
      BY <1>10, <2>1, <2>3 DEF Settled
    <2>4. QED BY <2>2, <2>3
  <1>13. ASSUME NEW key \in DOMAIN later PROVE Settled(file, own, more, key, later[key])
    <2>1. CASE key # k
      <3>1. key \in DOMAIN answers /\ later[key] = answers[key]
        BY <1>4, <1>5, <2>1 DEF Extended
      <3>2. QED BY <1>11, <2>1, <3>1
    <2>2. CASE key = k /\ (k \notin DOMAIN answers \/ (answers[k] = Unresolved /\ u.target # Unresolved))
      <3>1. later[key] = u.target
        BY <1>4, <2>2 DEF Extended
      <3>2. QED BY <1>12, <2>2, <3>1
    <2>3. CASE key = k /\ ~ (k \notin DOMAIN answers \/ (answers[k] = Unresolved /\ u.target # Unresolved))
      <3>1. key \in DOMAIN answers /\ later[key] = answers[key]
        BY <1>4, <2>3
      <3>2. QED BY <1>11, <2>3, <3>1
    <2>4. QED BY <2>1, <2>2, <2>3
  <1>14. QED BY <1>7, <1>13 DEF AnswersStand, more

(* What is left of a list of which n members were read.                       *)
RestOf(s, n) == SubSeq(s, n + 1, Len(s))

LEMMA RestFacts ==
  ASSUME NEW s, IsList(s), NEW n \in 0..Len(s)
  PROVE  /\ RestOf(s, n) = <<>> => n = Len(s)
         /\ RestOf(s, n) # <<>> =>
              n + 1 \in 0..Len(s) /\ Head(RestOf(s, n)) = s[n + 1] /\ Tail(RestOf(s, n)) = RestOf(s, n + 1)
         /\ RestOf(s, 0) = s
PROOF
  <1>1. PICK S, m : S = ToSet(s) /\ m = Len(s)
    OBVIOUS
  <1>2. s \in Seq(S) /\ m \in Nat /\ DOMAIN s = 1..m /\ n \in 0..m
    BY <1>1 DEF IsList
  <1>3. \A k \in 0..m : RestOf(s, k) \in Seq(S) /\ Len(RestOf(s, k)) = m - k
                        /\ \A i \in 1..(m - k) : RestOf(s, k)[i] = s[k + i]
    <2>1. ASSUME NEW k \in 0..m
          PROVE  RestOf(s, k) \in Seq(S) /\ Len(RestOf(s, k)) = m - k
                 /\ \A i \in 1..(m - k) : RestOf(s, k)[i] = s[k + i]
      <3>1. PICK l : l = k + 1
        OBVIOUS
      <3>2. l \in Int /\ m \in Int /\ m - l + 1 = m - k /\ (l <= m <=> k # m) /\ \A i \in l..m : s[i] \in S
        BY <1>2, <3>1
      <3>3. /\ SubSeq(s, l, m) \in Seq(S)
            /\ Len(SubSeq(s, l, m)) = IF l <= m THEN m - l + 1 ELSE 0
            /\ \A i \in 1..(m - l + 1) : SubSeq(s, l, m)[i] = s[l + i - 1]
        BY <3>2, SubSeqProperties
      <3>4. RestOf(s, k) = SubSeq(s, l, m)
        BY <1>1, <3>1 DEF RestOf
      <3>5. \A i \in 1..(m - k) : l + i - 1 = k + i
        BY <1>2, <3>1
      <3>6. Len(SubSeq(s, l, m)) = m - k
        BY <1>2, <3>1, <3>2, <3>3
      <3>7. QED BY <3>2, <3>3, <3>4, <3>5, <3>6
    <2>2. QED BY <2>1
  <1>4. RestOf(s, n) = <<>> => n = m
    BY <1>2, <1>3, EmptySeq
  <1>5. ASSUME RestOf(s, n) # <<>>
        PROVE  n + 1 \in 0..m /\ Head(RestOf(s, n)) = s[n + 1] /\ Tail(RestOf(s, n)) = RestOf(s, n + 1)
    <2>1. PICK r, t : r = RestOf(s, n) /\ t = RestOf(s, n + 1)
      OBVIOUS
    <2>2. r \in Seq(S) /\ Len(r) = m - n /\ \A i \in 1..(m - n) : r[i] = s[n + i]
      BY <1>2, <1>3, <2>1
    <2>3. n # m
      <3>1. Len(r) # 0
        BY <1>5, <2>1, <2>2, EmptySeq
      <3>2. QED BY <1>2, <2>2, <3>1
    <2>4. n + 1 \in 0..m /\ 1 \in 1..(m - n)
      BY <1>2, <2>3
    <2>5. t \in Seq(S) /\ Len(t) = m - (n + 1) /\ \A i \in 1..(m - (n + 1)) : t[i] = s[(n + 1) + i]
      BY <1>3, <2>1, <2>4
    <2>6. Head(r) = r[1] /\ Tail(r) \in Seq(S) /\ Len(Tail(r)) = Len(r) - 1
          /\ \A i \in 1..Len(Tail(r)) : Tail(r)[i] = r[i + 1]
      BY <1>5, <2>1, <2>2, HeadTailProperties
    <2>7. ASSUME NEW i \in 1..Len(t) PROVE Tail(r)[i] = t[i]
      <3>1. i \in 1..(m - (n + 1)) /\ i + 1 \in 1..(m - n) /\ (n + 1) + i = n + (i + 1) /\ i \in 1..Len(Tail(r))
        BY <1>2, <2>2, <2>4, <2>5, <2>6
      <3>2. QED BY <2>2, <2>5, <2>6, <3>1
    <2>8. Tail(r) = t
      <3>1. Len(Tail(r)) = Len(t)
        BY <1>2, <2>2, <2>4, <2>5, <2>6
      <3>2. QED BY <2>5, <2>6, <2>7, <3>1, SeqEqual
    <2>9. QED BY <2>1, <2>2, <2>4, <2>6, <2>8
  <1>6. RestOf(s, 0) = s
    <2>1. PICK r : r = RestOf(s, 0)
      OBVIOUS
    <2>2. 0 \in 0..m /\ m - 0 = m /\ \A i \in 1..m : 0 + i = i
      BY <1>2
    <2>3. r \in Seq(S) /\ Len(r) = m /\ \A i \in 1..m : r[i] = s[0 + i]
      BY <1>3, <2>1, <2>2
    <2>4. r = s
      BY <1>1, <1>2, <2>2, <2>3, SeqEqual
    <2>5. QED BY <2>1, <2>4
  <1>7. QED BY <1>1, <1>4, <1>5, <1>6
-----------------------------------------------------------------------------
(* What always holds while the uses are read: so many were read of the        *)
(* resolver and of each body, what is left is what follows, and the answers   *)
(* are the best of those that were read.                                      *)
IsBeingRead(b, read) ==
  /\ reading = RestOf(b, read[b])
  /\ \A c \in input.bodies \ unread : c # b => read[c] = Len(c)

Reads(own, read) ==
  /\ Counts(input, own, read) /\ AnswersStand(input, own, read, uses)
  /\ unread \subseteq input.bodies /\ \A b \in unread : read[b] = 0
  /\ ~ inferring => reading = RestOf(input.resolver, own) /\ unread = input.bodies
  /\ inferring => own = Len(input.resolver) /\ \E b \in input.bodies \ unread : IsBeingRead(b, read)

UsesStand == IsInput(input) /\ inferring \in BOOLEAN /\ \E own, read : Reads(own, read)

LEMMA UsesStandAtFirst ==
  ASSUME UsesAreLists, Init
  PROVE  UsesStand
PROOF
  <1> DEFINE read == [b \in input.bodies |-> 0]
             none == [k \in {} |-> Unresolved]
  <1>1. /\ IsInput(input) /\ reading = input.resolver /\ inferring = FALSE /\ unread = input.bodies
        /\ uses = none
    BY DEF Init, Uses!StartReading
  <1>2. IsList(input.resolver) /\ \A b \in input.bodies : IsList(b)
    BY <1>1 DEF UsesAreLists, ListsItsUses
  <1>3. Len(input.resolver) \in Nat /\ \A b \in input.bodies : Len(b) \in Nat
    BY <1>2 DEF IsList
  <1>4. Counts(input, 0, read)
    BY <1>3 DEF Counts
  <1>5. AnswersStand(input, 0, read, none)
    <2>1. \A key : ~ IsSeen(input, 0, read, key)
      BY DEF IsSeen
    <2>2. DOMAIN none = {}
      OBVIOUS
    <2> HIDE DEF none, read
    <2>3. QED BY <2>1, <2>2 DEF AnswersStand
  <1>6. reading = RestOf(input.resolver, 0)
    <2>1. PICK s : s = input.resolver
      OBVIOUS
    <2>2. RestOf(s, 0) = s
      <3>1. 0 \in 0..Len(s) /\ IsList(s)
        BY <1>2, <1>3, <2>1
      <3>2. QED BY <3>1, RestFacts
    <2>3. QED BY <1>1, <2>1, <2>2
  <1>7. \A b \in unread : read[b] = 0
    BY <1>1
  <1> HIDE DEF none, read
  <1>8. Reads(0, read)
    BY <1>1, <1>4, <1>5, <1>6, <1>7 DEF Reads
  <1>9. QED BY <1>1, <1>8 DEF UsesStand

LEMMA UsesKeepStanding ==
  ASSUME UsesAreLists, UsesStand, input' = input, Uses!Read
  PROVE  UsesStand'
PROOF
  <1>1. PICK own, read : Reads(own, read)
    BY DEF UsesStand
  <1>2. IsInput(input) /\ IsList(input.resolver) /\ (\A b \in input.bodies : IsList(b)) /\ inferring \in BOOLEAN
    BY DEF UsesStand, UsesAreLists, ListsItsUses
  <1>3. /\ Counts(input, own, read) /\ AnswersStand(input, own, read, uses)
        /\ unread \subseteq input.bodies /\ \A b \in unread : read[b] = 0
        /\ ~ inferring => reading = RestOf(input.resolver, own) /\ unread = input.bodies
        /\ inferring => own = Len(input.resolver) /\ \E b \in input.bodies \ unread : IsBeingRead(b, read)
    BY <1>1 DEF Reads
  <1>4. Len(input.resolver) \in Nat /\ \A b \in input.bodies : Len(b) \in Nat
    BY <1>2 DEF IsList
  <1>5. own \in 0..Len(input.resolver) /\ own \in Nat /\ read \in [input.bodies -> Nat]
        /\ \A b \in input.bodies : read[b] \in 0..Len(b)
    BY <1>3, <1>4 DEF Counts
  <1>6. ASSUME Uses!ReadUse
        PROVE  /\ reading # <<>> /\ reading' = Tail(reading) /\ inferring' = inferring /\ unread' = unread
               /\ uses' = IF Uses!Replaces(Head(reading))
                            THEN Extended(uses, Uses!Key(Head(reading)), Head(reading).target) ELSE uses
    BY <1>6 DEF Uses!ReadUse, Extended
  <1>7. CASE Uses!ReadUse /\ ~ inferring
    <2>1. PICK s, u, answers : s = input.resolver /\ u = Head(reading) /\ answers = uses
      OBVIOUS
    <2>2. reading = RestOf(s, own) /\ unread = input.bodies
      BY <1>3, <1>7, <2>1
    <2>3. own + 1 \in 0..Len(s) /\ u = s[own + 1] /\ Tail(reading) = RestOf(s, own + 1)
      <3>1. IsList(s) /\ own \in 0..Len(s) /\ RestOf(s, own) # <<>>
        BY <1>2, <1>5, <1>6, <1>7, <2>1, <2>2
      <3>2. QED BY <2>1, <2>2, <3>1, RestFacts
    <2>4. AnswersStand(input, own + 1, read, Extended(answers, Uses!Key(u), u.target))
      <3>1. PICK file : file = input
        OBVIOUS
      <3>2. /\ AnswersStand(file, own, read, answers) /\ \A b \in file.bodies : read[b] = 0
            /\ read \in [file.bodies -> Nat] /\ u = file.resolver[own + 1]
        BY <1>3, <1>5, <2>1, <2>2, <2>3, <3>1
      <3>3. QED BY <1>5, <3>1, <3>2, ResolverStep
    <2>5. Uses!Replaces(Head(reading))
      BY <1>7 DEF Uses!Replaces
    <2>6. uses' = Extended(answers, Uses!Key(u), u.target)
      BY <1>6, <1>7, <2>1, <2>5
    <2>7. Counts(input, own + 1, read)
      BY <1>3, <2>1, <2>3 DEF Counts
    <2>8. Reads(own + 1, read)'
      <3>1. reading' = RestOf(s, own + 1) /\ inferring' = inferring /\ unread' = unread
        BY <1>6, <1>7, <2>3
      <3>2. QED BY <1>3, <1>7, <2>1, <2>4, <2>6, <2>7, <3>1 DEF Reads
    <2>9. QED BY <1>2, <1>6, <1>7, <2>8 DEF UsesStand
  <1>8. CASE Uses!ReadUse /\ inferring
    <2>1. PICK b \in input.bodies \ unread : IsBeingRead(b, read)
      BY <1>3, <1>8
    <2>2. PICK u, answers, n : u = Head(reading) /\ answers = uses /\ n = read[b]
      OBVIOUS
    <2>3. reading = RestOf(b, n) /\ \A c \in input.bodies \ unread : c # b => read[c] = Len(c)
      BY <2>1, <2>2 DEF IsBeingRead
    <2>4. n \in 0..Len(b) /\ IsList(b) /\ n \in Nat /\ Len(b) \in Nat
      BY <1>2, <1>4, <1>5, <2>2
    <2>5. n + 1 \in 0..Len(b) /\ u = b[n + 1] /\ Tail(reading) = RestOf(b, n + 1)
      <3>1. RestOf(b, n) # <<>>
        BY <1>6, <1>8, <2>3
      <3>2. QED BY <2>2, <2>3, <2>4, <3>1, RestFacts
    <2> DEFINE more == [read EXCEPT ![b] = @ + 1]
    <2>6. Uses!Replaces(u) <=> Uses!Key(u) \notin DOMAIN answers
                               \/ (answers[Uses!Key(u)] = Unresolved /\ u.target # Unresolved)
      BY <1>8, <2>2 DEF Uses!Replaces
    <2>7. AnswersStand(input, own, more, uses')
      <3>1. PICK file, later : file = input /\ later = uses'
        OBVIOUS
      <3>2. \/ /\ Uses!Key(u) \notin DOMAIN answers \/ (answers[Uses!Key(u)] = Unresolved /\ u.target # Unresolved)
               /\ later = Extended(answers, Uses!Key(u), u.target)
            \/ /\ ~ (Uses!Key(u) \notin DOMAIN answers
                     \/ (answers[Uses!Key(u)] = Unresolved /\ u.target # Unresolved))
               /\ later = answers
        <4>1. uses' = IF Uses!Replaces(u) THEN Extended(answers, Uses!Key(u), u.target) ELSE answers
          BY <1>6, <1>8, <2>2
        <4>2. QED BY <2>6, <3>1, <4>1
      <3>3. /\ AnswersStand(file, own, read, answers) /\ read \in [file.bodies -> Nat]
            /\ b \in file.bodies /\ u = b[read[b] + 1]
        BY <1>3, <1>5, <2>2, <2>5, <3>1
      <3>4. AnswersStand(file, own, [read EXCEPT ![b] = @ + 1], later)
        BY <1>5, <3>2, <3>3, BodyStep
      <3>5. QED BY <3>1, <3>4
    <2>8. more[b] = n + 1 /\ (\A c \in input.bodies : c # b => more[c] = read[c]) /\ more \in [input.bodies -> Nat]
      BY <1>5, <2>2
    <2> HIDE DEF more
    <2>9. Counts(input, own, more)
      <3>1. \A c \in input.bodies : more[c] <= Len(c)
        BY <1>3, <2>4, <2>5, <2>8 DEF Counts
      <3>2. QED BY <1>5, <2>8, <3>1 DEF Counts
    <2>10. reading' = RestOf(b, more[b]) /\ inferring' = inferring /\ unread' = unread
      BY <1>6, <1>8, <2>5, <2>8
    <2>11. \A c \in unread : more[c] = 0
      BY <1>3, <2>1, <2>8
    <2>12. IsBeingRead(b, more)'
      BY <2>3, <2>8, <2>10 DEF IsBeingRead
    <2>13. Reads(own, more)'
      BY <1>3, <1>8, <2>1, <2>7, <2>9, <2>10, <2>11, <2>12 DEF Reads
    <2>14. QED BY <1>2, <1>6, <1>8, <2>13 DEF UsesStand
  <1>9. CASE Uses!OpenBody
    <2>1. reading = <<>> /\ inferring' = TRUE /\ uses' = uses
      BY <1>9 DEF Uses!OpenBody
    <2>2. PICK b \in unread : reading' = b /\ unread' = unread \ {b}
      BY <1>9 DEF Uses!OpenBody
    <2>3. b \in input.bodies /\ read[b] = 0 /\ IsList(b)
      BY <1>2, <1>3
    <2>4. reading' = RestOf(b, read[b])
      <3>1. 0 \in 0..Len(b)
        BY <1>4, <2>3
      <3>2. QED BY <2>2, <2>3, <3>1, RestFacts
    <2>5. own = Len(input.resolver) /\ \A c \in input.bodies \ unread : read[c] = Len(c)
      <3>1. CASE ~ inferring
        <4>1. PICK s : s = input.resolver
          OBVIOUS
        <4>2. RestOf(s, own) = <<>> /\ IsList(s) /\ own \in 0..Len(s) /\ unread = input.bodies
          BY <1>2, <1>3, <1>5, <2>1, <3>1, <4>1
        <4>3. own = Len(s)
          BY <4>2, RestFacts
        <4>4. QED BY <4>1, <4>2, <4>3
      <3>2. CASE inferring
        <4>1. PICK c \in input.bodies \ unread : IsBeingRead(c, read)
          BY <1>3, <3>2
        <4>2. PICK n : n = read[c]
          OBVIOUS
        <4>3. RestOf(c, n) = <<>> /\ n \in 0..Len(c) /\ IsList(c)
          BY <1>2, <1>5, <2>1, <4>1, <4>2 DEF IsBeingRead
        <4>4. n = Len(c)
          BY <4>3, RestFacts
        <4>5. QED BY <1>3, <3>2, <4>1, <4>2, <4>4 DEF IsBeingRead
      <3>3. QED BY <1>2, <3>1, <3>2
    <2>6. IsBeingRead(b, read)'
      BY <2>2, <2>4, <2>5 DEF IsBeingRead
    <2>7. Reads(own, read)'
      BY <1>3, <2>1, <2>2, <2>3, <2>5, <2>6 DEF Reads
    <2>8. QED BY <1>2, <2>1, <2>7 DEF UsesStand
  <1>10. QED BY <1>2, <1>7, <1>8, <1>9 DEF Uses!Read

LEMMA LargestExists ==
  ASSUME NEW n \in Nat, NEW S \in SUBSET (0..n), S # {}
  PROVE  \E m \in S : \A k \in S : k <= m
PROOF
  <1> DEFINE D == {n - k : k \in S}
  <1>1. D \in SUBSET Nat /\ D # {}
    <2>1. \A k \in S : n - k \in Nat
      OBVIOUS
    <2>2. PICK k \in S : TRUE
      OBVIOUS
    <2>3. n - k \in D
      OBVIOUS
    <2>4. QED BY <2>1, <2>3
  <1> HIDE DEF D
  <1>2. PICK d \in D : \A c \in D : d <= c
    BY <1>1, SmallestExists
  <1>3. PICK m \in S : d = n - m
    BY DEF D
  <1>4. ASSUME NEW k \in S PROVE k <= m
    <2>1. d <= n - k /\ n \in Nat /\ k \in Nat /\ m \in Nat
      BY <1>2 DEF D
    <2>2. QED BY <1>3, <2>1
  <1>5. QED BY <1>4

LEMMA LastAndFirst ==
  ASSUME NEW s, IsList(s), NEW key
  PROVE  /\ Uses!UsesOf(s, key) # {} =>
              IsLast(s, Len(s), key, Uses!Max(Uses!UsesOf(s, key)))
         /\ \A i \in 1..Len(s) : IsLast(s, Len(s), key, i) =>
              Uses!UsesOf(s, key) # {} /\ Uses!Max(Uses!UsesOf(s, key)) = i
         /\ Uses!Found(s, key) # {} =>
              IsFirstFound(s, Len(s), key, Uses!Min(Uses!Found(s, key)))
         /\ \A i \in 1..Len(s) : IsFirstFound(s, Len(s), key, i) =>
              Uses!Found(s, key) # {} /\ Uses!Min(Uses!Found(s, key)) = i
PROOF
  <1> DEFINE own == Uses!UsesOf(s, key)
             found == Uses!Found(s, key)
             n == Len(s)
  <1>1. n \in Nat /\ DOMAIN s = 1..n
    BY DEF IsList
  <1>2. /\ \A i : i \in own <=> i \in 1..n /\ Uses!Key(s[i]) = key
        /\ \A i : i \in found <=> i \in own /\ s[i].target # Unresolved
    BY <1>1 DEF Uses!UsesOf, Uses!Found
  <1>3. /\ \A S : Uses!Max(S) = CHOOSE x \in S : \A y \in S : x >= y
        /\ \A S : Uses!Min(S) = CHOOSE x \in S : \A y \in S : x <= y
    BY DEF Uses!Max, Uses!Min
  <1> HIDE DEF own, found, n
  <1>4. own \in SUBSET (1..n) /\ found \in SUBSET (1..n)
    BY <1>2
  <1>5. ASSUME own # {} PROVE IsLast(s, n, key, Uses!Max(own))
    <2>1. \E m \in own : \A k \in own : m >= k
      <3>1. PICK m \in own : \A k \in own : k <= m
        <4>1. own \in SUBSET (0..n)
          BY <1>1, <1>4
        <4>2. QED BY <1>1, <1>5, <4>1, LargestExists
      <3>2. \A k \in own : m >= k
        BY <1>4, <3>1
      <3>3. QED BY <3>2
    <2>2. Uses!Max(own) \in own /\ \A k \in own : Uses!Max(own) >= k
      BY <1>3, <2>1
    <2>3. \A k \in own : k <= Uses!Max(own)
      BY <1>4, <2>2
    <2>4. QED BY <1>2, <2>2, <2>3 DEF IsLast
  <1>6. ASSUME NEW i \in 1..n, IsLast(s, n, key, i) PROVE own # {} /\ Uses!Max(own) = i
    <2>1. i \in own /\ \A k \in own : k <= i
      BY <1>2, <1>6 DEF IsLast
    <2>2. IsLast(s, n, key, Uses!Max(own))
      BY <1>5, <2>1
    <2>3. Uses!Max(own) \in own /\ i <= Uses!Max(own)
      BY <1>2, <1>6, <2>2 DEF IsLast
    <2>4. Uses!Max(own) \in 1..n /\ Uses!Max(own) <= i
      BY <1>4, <2>1, <2>3
    <2>5. QED BY <1>1, <2>1, <2>3, <2>4
  <1>7. ASSUME found # {} PROVE IsFirstFound(s, n, key, Uses!Min(found))
    <2>1. \E m \in found : \A k \in found : m <= k
      <3>1. found \in SUBSET Nat
        BY <1>1, <1>4
      <3>2. QED BY <1>7, <3>1, SmallestExists
    <2>2. Uses!Min(found) \in found /\ \A k \in found : Uses!Min(found) <= k
      BY <1>3, <2>1
    <2>3. QED BY <1>2, <2>2 DEF IsFirstFound
  <1>8. ASSUME NEW i \in 1..n, IsFirstFound(s, n, key, i) PROVE found # {} /\ Uses!Min(found) = i
    <2>1. i \in found /\ \A k \in found : i <= k
      BY <1>2, <1>8 DEF IsFirstFound
    <2>2. IsFirstFound(s, n, key, Uses!Min(found))
      BY <1>7, <2>1
    <2>3. Uses!Min(found) \in found /\ Uses!Min(found) <= i
      BY <1>2, <1>8, <2>1, <2>2 DEF IsFirstFound
    <2>4. Uses!Min(found) \in 1..n /\ i <= Uses!Min(found)
      BY <1>4, <2>1, <2>3
    <2>5. QED BY <1>1, <2>1, <2>3, <2>4
  <1>9. QED BY <1>5, <1>6, <1>7, <1>8 DEF own, found, n

(* When everything was read, what is settled is what is best.                 *)
LEMMA SettledIsBest ==
  ASSUME NEW file, IsList(file.resolver), \A b \in file.bodies : IsList(b),
         NEW own, own = Len(file.resolver), NEW read, \A b \in file.bodies : read[b] = Len(b),
         NEW key, NEW answer, Settled(file, own, read, key, answer)
  PROVE  answer \in Uses!BestAnswer(file.resolver, file.bodies, key)
PROOF
  <1> DEFINE mine == Uses!UsesOf(file.resolver, key)
             target == file.resolver[Uses!Max(mine)].target
             answers == {b[Uses!Min(Uses!Found(b, key))].target :
                           b \in {b \in file.bodies : Uses!Found(b, key) # {}}}
  <1>1. Uses!BestAnswer(file.resolver, file.bodies, key) =
          IF mine # {} /\ target # Unresolved THEN {target}
          ELSE IF answers = {} THEN {Unresolved} ELSE answers
    BY DEF Uses!BestAnswer
  <1>2. PICK s : s = file.resolver
    OBVIOUS
  <1>3. IsList(s) /\ own = Len(s)
    BY <1>2
  <1>4. CASE answer # Unresolved /\ ResolverSays(file, own, key, answer)
    <2>1. PICK i \in 1..own : IsLast(s, own, key, i) /\ answer = s[i].target
      BY <1>2, <1>4 DEF ResolverSays
    <2>2. Uses!UsesOf(s, key) # {} /\ Uses!Max(Uses!UsesOf(s, key)) = i
      BY <1>3, <2>1, LastAndFirst
    <2>3. mine # {} /\ target = answer
      BY <1>2, <2>1, <2>2
    <2>4. QED BY <1>1, <1>4, <2>3
  <1>5. CASE ResolverIsSilent(file, own, key)
    <2>1. ~ (mine # {} /\ target # Unresolved)
      <3>1. ASSUME mine # {} PROVE target = Unresolved
        <4>1. IsLast(s, own, key, Uses!Max(mine))
          BY <1>2, <1>3, <3>1, LastAndFirst
        <4>2. Uses!Max(mine) \in 1..own
          BY <4>1 DEF IsLast
        <4>3. QED BY <1>2, <1>5, <4>1, <4>2 DEF ResolverIsSilent
      <3>2. QED BY <3>1
    <2>2. CASE answer # Unresolved /\ ABodyFinds(file, read, key, answer)
      <3>1. PICK b \in file.bodies :
              \E i \in 1..read[b] : IsFirstFound(b, read[b], key, i) /\ answer = b[i].target
        BY <2>2 DEF ABodyFinds
      <3>2. PICK i \in 1..Len(b) : IsFirstFound(b, Len(b), key, i) /\ answer = b[i].target
        BY <3>1
      <3>3. Uses!Found(b, key) # {} /\ Uses!Min(Uses!Found(b, key)) = i
        BY <3>2, LastAndFirst
      <3>4. answer \in answers
        BY <3>2, <3>3
      <3> HIDE DEF answers, target, mine
      <3>5. QED BY <1>1, <2>1, <3>4
    <2>3. CASE answer = Unresolved /\ NobodyFinds(file, read, key)
      <3>1. ASSUME NEW b \in file.bodies PROVE Uses!Found(b, key) = {}
        <4>1. DOMAIN b = 1..read[b]
          BY DEF IsList
        <4>2. QED BY <2>3, <4>1 DEF NobodyFinds, Uses!Found, Uses!UsesOf
      <3>2. answers = {}
        BY <3>1
      <3> HIDE DEF answers, target, mine
      <3>3. QED BY <1>1, <2>1, <2>3, <3>2
    <2>4. QED BY <1>5, <2>2, <2>3, <1>4 DEF Settled
  <1>6. QED BY <1>4, <1>5 DEF Settled

LEMMA StandingUsesAreBest ==
  ASSUME UsesAreLists, UsesStand
  PROVE  BestAnswersAreKept
PROOF
  <1>1. PICK own, read : Reads(own, read)
    BY DEF UsesStand
  <1>2. IsInput(input) /\ IsList(input.resolver) /\ (\A b \in input.bodies : IsList(b)) /\ inferring \in BOOLEAN
    BY DEF UsesStand, UsesAreLists, ListsItsUses
  <1>3. Len(input.resolver) \in Nat /\ \A b \in input.bodies : Len(b) \in Nat
    BY <1>2 DEF IsList
  <1>4. own \in 0..Len(input.resolver) /\ \A b \in input.bodies : read[b] \in 0..Len(b)
    BY <1>1, <1>3 DEF Reads, Counts
  <1>5. ASSUME Uses!AllRead
        PROVE  own = Len(input.resolver) /\ \A b \in input.bodies : read[b] = Len(b)
    <2>1. reading = <<>> /\ unread = {}
      BY <1>5 DEF Uses!AllRead
    <2>2. CASE ~ inferring
      <3>1. PICK s : s = input.resolver
        OBVIOUS
      <3>2. RestOf(s, own) = <<>> /\ IsList(s) /\ own \in 0..Len(s) /\ input.bodies = {}
        BY <1>1, <1>2, <1>4, <2>1, <2>2, <3>1 DEF Reads
      <3>3. own = Len(s)
        BY <3>2, RestFacts
      <3>4. QED BY <3>1, <3>2, <3>3
    <2>3. CASE inferring
      <3>1. own = Len(input.resolver)
        BY <1>1, <2>3 DEF Reads
      <3>2. PICK b \in input.bodies : IsBeingRead(b, read)
        BY <1>1, <2>3 DEF Reads
      <3>3. PICK n : n = read[b]
        OBVIOUS
      <3>4. RestOf(b, n) = <<>> /\ IsList(b) /\ n \in 0..Len(b)
        BY <1>2, <1>4, <2>1, <3>2, <3>3 DEF IsBeingRead
      <3>5. n = Len(b)
        BY <3>4, RestFacts
      <3>6. QED BY <2>1, <3>1, <3>2, <3>3, <3>5 DEF IsBeingRead
    <2>4. QED BY <1>2, <2>2, <2>3
  <1>6. ASSUME Uses!AllRead, NEW key \in DOMAIN uses
        PROVE  uses[key] \in Uses!BestAnswer(input.resolver, input.bodies, key)
    <2>1. Settled(input, own, read, key, uses[key])
      BY <1>1, <1>6 DEF Reads, AnswersStand
    <2>2. PICK file, answer : file = input /\ answer = uses[key]
      OBVIOUS
    <2>3. /\ IsList(file.resolver) /\ \A b \in file.bodies : IsList(b)
          /\ own = Len(file.resolver) /\ \A b \in file.bodies : read[b] = Len(b)
          /\ Settled(file, own, read, key, answer)
      BY <1>2, <1>5, <1>6, <2>1, <2>2
    <2>4. answer \in Uses!BestAnswer(file.resolver, file.bodies, key)
      BY <2>3, SettledIsBest
    <2>5. QED BY <2>2, <2>4
  <1>7. ASSUME Uses!AllRead
        PROVE  DOMAIN uses = UNION {{Uses!Key(s[i]) : i \in DOMAIN s} : s \in input.bodies \union {input.resolver}}
    <2> DEFINE all == UNION {{Uses!Key(s[i]) : i \in DOMAIN s} : s \in input.bodies \union {input.resolver}}
    <2>1. /\ DOMAIN input.resolver = 1..own
          /\ \A b \in input.bodies : DOMAIN b = 1..read[b]
      BY <1>2, <1>5, <1>7 DEF IsList
    <2>2. ASSUME NEW key PROVE key \in DOMAIN uses <=> key \in all
      <3>1. key \in DOMAIN uses <=> IsSeen(input, own, read, key)
        BY <1>1 DEF Reads, AnswersStand
      <3>2. key \in all <=> \E s \in input.bodies \union {input.resolver} : \E i \in DOMAIN s : Uses!Key(s[i]) = key
        OBVIOUS
      <3> HIDE DEF all
      <3>3. (\E s \in input.bodies \union {input.resolver} : \E i \in DOMAIN s : Uses!Key(s[i]) = key)
              <=> IsSeen(input, own, read, key)
        BY <2>1 DEF IsSeen
      <3>4. QED BY <3>1, <3>2, <3>3
    <2> HIDE DEF all
    <2>3. DOMAIN uses = all
      BY <2>2
    <2>4. QED BY <2>3 DEF all
  <1>8. QED BY <1>6, <1>7 DEF BestAnswersAreKept, Uses!BestAnswersAreKept

LEMMA UsesAlwaysKeepStanding ==
  ASSUME UsesAreLists, UsesStand, [Next]_vars
  PROVE  UsesStand'
PROOF
  <1>1. CASE ReadUses
    <2>1. input' = input /\ Uses!Read
      BY <1>1 DEF ReadUses
    <2>2. QED BY <2>1, UsesKeepStanding
  <1>2. CASE \/ CollectNode \/ CollectSymbols \/ CollectLambdas \/ CollectGraphs
             \/ ReportUses \/ ConvertTypes \/ Finish \/ UNCHANGED vars
    <2>1. /\ input' = input /\ reading' = reading /\ inferring' = inferring
          /\ unread' = unread /\ uses' = uses
      BY <1>2 DEF CollectNode, CollectSymbols, CollectLambdas, CollectGraphs, ReportUses, ConvertTypes,
                  Finish, vars, walk, naming, merging, reported, table
    <2>2. QED BY <2>1 DEF UsesStand, Reads, IsBeingRead
  <1>3. QED BY <1>1, <1>2 DEF Next

(* An answer about a name is never lost and never replaced by a lesser one,   *)
(* whatever the uses are and in whatever order the bodies come out of their   *)
(* hash map (should_replace, and the loops around it).                        *)
THEOREM BestAnswersAreKeptAlways ==
  ASSUME UsesAreLists
  PROVE  Spec => []BestAnswersAreKept
PROOF
  <1>1. Init => UsesStand
    BY UsesStandAtFirst
  <1>2. UsesStand /\ [Next]_vars => UsesStand'
    BY UsesAlwaysKeepStanding
  <1>3. UsesStand => BestAnswersAreKept
    BY StandingUsesAreBest
  <1>4. QED BY <1>1, <1>2, <1>3, PTL DEF Spec
-----------------------------------------------------------------------------
(* The hypothesis on sources.                                                 *)
SourcesAreTexts == \A file : IsInput(file) => IsText(file.source)

(* The sums of the first weights.                                             *)
SumsUp(g, m, w) ==
  /\ g \in [0..m -> Nat] /\ g[0] = 0
  /\ \A n \in 1..m : g[n] = g[n - 1] + w[n]

CanSumUp(m, w) == \E g : SumsUp(g, m, w)

LEMMA SumsExist ==
  ASSUME NEW N \in Nat, NEW w \in [1..N -> Nat]
  PROVE  CanSumUp(N, w)
PROOF
  <1> DEFINE Bad == {m \in 0..N : ~ CanSumUp(m, w)}
  <1>1. ASSUME Bad # {} PROVE FALSE
    <2>1. PICK m \in Bad : \A k \in Bad : m <= k
      <3>1. Bad \in SUBSET Nat
        OBVIOUS
      <3> HIDE DEF Bad
      <3>2. QED BY <1>1, <3>1, SmallestExists
    <2>2. m \in 0..N /\ ~ CanSumUp(m, w)
      OBVIOUS
    <2>3. m # 0
      <3>1. SumsUp([n \in 0..0 |-> 0], 0, w)
        BY DEF SumsUp
      <3>2. QED BY <2>2, <3>1 DEF CanSumUp
    <2>4. m \in 1..N /\ m - 1 \in 0..N /\ ~ (m <= m - 1)
      BY <2>2, <2>3
    <2>5. m - 1 \notin Bad
      <3> HIDE DEF Bad
      <3>1. QED BY <2>1, <2>4
    <2>6. PICK g : SumsUp(g, m - 1, w)
      BY <2>4, <2>5 DEF CanSumUp
    <2> DEFINE h == [n \in 0..m |-> IF n = m THEN g[m - 1] + w[m] ELSE g[n]]
    <2>7. g \in [0..(m - 1) -> Nat] /\ g[0] = 0 /\ \A n \in 1..(m - 1) : g[n] = g[n - 1] + w[n]
      BY <2>6 DEF SumsUp
    <2>8. g[m - 1] \in Nat /\ w[m] \in Nat
      BY <2>4, <2>7
    <2>9. h \in [0..m -> Nat] /\ h[0] = 0
      BY <2>4, <2>7, <2>8
    <2>10. ASSUME NEW n \in 1..m PROVE h[n] = h[n - 1] + w[n]
      <3>1. CASE n = m
        BY <2>4, <3>1
      <3>2. CASE n # m
        <4>1. n \in 1..(m - 1) /\ n - 1 \in 0..m /\ n - 1 # m /\ n \in 0..m
          BY <2>4, <3>2
        <4>2. QED BY <2>7, <3>2, <4>1
      <3>3. QED BY <3>1, <3>2
    <2> HIDE DEF h
    <2>11. SumsUp(h, m, w)
      BY <2>9, <2>10 DEF SumsUp
    <2>12. QED BY <2>2, <2>11 DEF CanSumUp
  <1>2. N \notin Bad
    <2> HIDE DEF Bad
    <2>1. QED BY <1>1
  <1>3. QED BY <1>2

LEMMA SumsAreOne ==
  ASSUME NEW m \in Nat, NEW w, NEW g, SumsUp(g, m, w),
         NEW f, f[0] = 0, \A n \in 1..m : f[n] = f[n - 1] + w[n]
  PROVE  f[m] = g[m]
PROOF
  <1> DEFINE Bad == {n \in 0..m : f[n] # g[n]}
  <1>1. ASSUME Bad # {} PROVE FALSE
    <2>1. PICK n \in Bad : \A k \in Bad : n <= k
      <3>1. Bad \in SUBSET Nat
        OBVIOUS
      <3> HIDE DEF Bad
      <3>2. QED BY <1>1, <3>1, SmallestExists
    <2>2. n \in 0..m /\ f[n] # g[n]
      OBVIOUS
    <2>3. n # 0
      BY <2>2 DEF SumsUp
    <2>4. n \in 1..m /\ n - 1 \in 0..m /\ ~ (n <= n - 1)
      BY <2>2, <2>3
    <2>5. n - 1 \notin Bad
      <3> HIDE DEF Bad
      <3>1. QED BY <2>1, <2>4
    <2>6. f[n - 1] = g[n - 1]
      BY <2>4, <2>5
    <2>7. QED BY <2>2, <2>4, <2>6 DEF SumsUp
  <1>2. m \notin Bad
    <2> HIDE DEF Bad
    <2>1. QED BY <1>1
  <1>3. QED BY <1>2

LEMMA SumsRise ==
  ASSUME NEW m \in Nat, NEW w \in [1..m -> Nat \ {0}], NEW g, SumsUp(g, m, w)
  PROVE  \A a, b \in 0..m : a < b => g[a] < g[b]
PROOF
  <1> SUFFICES ASSUME NEW a \in 0..m PROVE \A b \in 0..m : a < b => g[a] < g[b]
    OBVIOUS
  <1> DEFINE Bad == {b \in 0..m : a < b /\ ~ g[a] < g[b]}
  <1>1. ASSUME Bad # {} PROVE FALSE
    <2>1. PICK b \in Bad : \A k \in Bad : b <= k
      <3>1. Bad \in SUBSET Nat
        OBVIOUS
      <3> HIDE DEF Bad
      <3>2. QED BY <1>1, <3>1, SmallestExists
    <2>2. b \in 0..m /\ a < b /\ ~ g[a] < g[b]
      OBVIOUS
    <2>3. b \in 1..m /\ b - 1 \in 0..m /\ ~ (b <= b - 1) /\ (a = b - 1 \/ a < b - 1)
      BY <2>2
    <2>4. b - 1 \notin Bad
      <3> HIDE DEF Bad
      <3>1. QED BY <2>1, <2>3
    <2>5. g[b] = g[b - 1] + w[b] /\ w[b] \in Nat \ {0} /\ g[b - 1] \in Nat /\ g[b] \in Nat /\ g[a] \in Nat
      BY <2>3 DEF SumsUp
    <2>6. g[b - 1] < g[b]
      BY <2>5
    <2>7. a = b - 1 \/ g[a] < g[b - 1]
      BY <2>3, <2>4
    <2>8. QED BY <2>2, <2>5, <2>6, <2>7
  <1>2. QED BY <1>1

LEMMA BytesAreSummed ==
  ASSUME NEW chars, NEW m \in Nat, Len(chars) = m, NEW w, \A i \in 1..m : chars[i].bytes = w[i],
         NEW g, SumsUp(g, m, w)
  PROVE  Bytes(chars) = g[m]
PROOF
  <1> DEFINE Sum(f) == [n \in 0..m |-> IF n = 0 THEN 0 ELSE f[n - 1] + chars[n].bytes]
             s == CHOOSE f : f = Sum(f)
  <1>1. Bytes(chars) = s[m]
    BY DEF Bytes, Total
  <1>2. g = Sum(g)
    BY DEF SumsUp
  <1>3. s = Sum(s)
    BY <1>2
  <1> HIDE DEF s
  <1>4. s[0] = 0 /\ \A n \in 1..m : s[n] = s[n - 1] + w[n]
    BY <1>3
  <1>5. s[m] = g[m]
    BY <1>4, SumsAreOne
  <1>6. QED BY <1>1, <1>5

LEMMA UnitsAreSummed ==
  ASSUME NEW chars, NEW m \in Nat, Len(chars) = m, NEW w, \A i \in 1..m : chars[i].units = w[i],
         NEW g, SumsUp(g, m, w)
  PROVE  Units(chars) = g[m]
PROOF
  <1> DEFINE Sum(f) == [n \in 0..m |-> IF n = 0 THEN 0 ELSE f[n - 1] + chars[n].units]
             s == CHOOSE f : f = Sum(f)
  <1>1. Units(chars) = s[m]
    BY DEF Units, Total
  <1>2. g = Sum(g)
    BY DEF SumsUp
  <1>3. s = Sum(s)
    BY <1>2
  <1> HIDE DEF s
  <1>4. s[0] = 0 /\ \A n \in 1..m : s[n] = s[n - 1] + w[n]
    BY <1>3
  <1>5. s[m] = g[m]
    BY <1>4, SumsAreOne
  <1>6. QED BY <1>1, <1>5

(* Where each character of a text begins, in bytes and in units.              *)
Measures(source, B, U) ==
  /\ B \in [0..Len(source) -> Nat] /\ U \in [0..Len(source) -> Nat] /\ B[0] = 0
  /\ \A a, b \in 0..Len(source) : a < b => B[a] < B[b] /\ U[a] < U[b]
  /\ \A a, b \in 0..Len(source) : a <= b =>
       /\ Bytes(SubSeq(source, a + 1, b)) = B[b] - B[a]
       /\ Units(SubSeq(source, a + 1, b)) = U[b] - U[a]

CanBeMeasured(source) == \E B, U : Measures(source, B, U)

LEMMA PartSums ==
  ASSUME NEW m \in Nat, NEW w \in [1..m -> Nat], NEW g, SumsUp(g, m, w), NEW a \in 0..m, NEW b \in a..m,
         \A x, y \in 0..m : x < y => g[x] < g[y]
  PROVE  SumsUp([n \in 0..(b - a) |-> g[a + n] - g[a]], b - a, [n \in 1..(b - a) |-> w[a + n]])
PROOF
  <1> DEFINE h == [n \in 0..(b - a) |-> g[a + n] - g[a]]
             v == [n \in 1..(b - a) |-> w[a + n]]
  <1>1. g \in [0..m -> Nat] /\ \A n \in 1..m : g[n] = g[n - 1] + w[n]
    BY DEF SumsUp
  <1>2. ASSUME NEW n \in 0..(b - a) PROVE g[a + n] - g[a] \in Nat
    <2>1. a + n \in 0..m /\ (n = 0 \/ a < a + n)
      OBVIOUS
    <2>2. g[a + n] \in Nat /\ g[a] \in Nat /\ (n = 0 \/ g[a] < g[a + n])
      BY <1>1, <2>1
    <2>3. n = 0 => a + n = a
      OBVIOUS
    <2>4. PICK p, q : p = g[a + n] /\ q = g[a]
      OBVIOUS
    <2>5. p \in Nat /\ q \in Nat /\ (p = q \/ q < p)
      BY <2>2, <2>3, <2>4
    <2>6. p - q \in Nat
      BY <2>5
    <2>7. QED BY <2>4, <2>6
  <1>3. h \in [0..(b - a) -> Nat]
    BY <1>2
  <1>4. h[0] = 0
    <2>1. 0 \in 0..(b - a) /\ a + 0 = a /\ g[a] \in Nat
      BY <1>1
    <2>2. QED BY <2>1
  <1>5. ASSUME NEW n \in 1..(b - a) PROVE h[n] = h[n - 1] + v[n]
    <2>1. a + n \in 1..m /\ (a + n) - 1 = a + (n - 1) /\ n \in 0..(b - a) /\ n - 1 \in 0..(b - a)
          /\ a + (n - 1) \in 0..m
      OBVIOUS
    <2>2. g[a + n] = g[a + (n - 1)] + w[a + n] /\ g[a + n] \in Nat /\ g[a + (n - 1)] \in Nat /\ g[a] \in Nat
      BY <1>1, <2>1
    <2>3. h[n] = g[a + n] - g[a] /\ h[n - 1] = g[a + (n - 1)] - g[a] /\ v[n] = w[a + n]
      BY <2>1
    <2> HIDE DEF h, v
    <2>4. PICK x, y, z, t : x = g[a + n] /\ y = g[a + (n - 1)] /\ z = g[a] /\ t = w[a + n]
      OBVIOUS
    <2>5. x = y + t /\ x \in Nat /\ y \in Nat /\ z \in Nat
      BY <2>2, <2>4
    <2>6. t \in Nat
      BY <2>1, <2>4
    <2>7. x - z = (y - z) + t
      BY <2>5, <2>6
    <2>8. QED BY <2>3, <2>4, <2>7
  <1> HIDE DEF h, v
  <1>6. SumsUp(h, b - a, v)
    BY <1>3, <1>4, <1>5 DEF SumsUp
  <1>7. QED BY <1>6 DEF h, v

LEMMA TextsAreMeasured ==
  ASSUME NEW source, IsText(source)
  PROVE  CanBeMeasured(source)
PROOF
  <1> DEFINE bytes(i) == source[i].bytes
             units(i) == source[i].units
  <1>1. PICK m : m = Len(source)
    OBVIOUS
  <1>2. source \in Seq(ToSet(source)) /\ m \in Nat /\ DOMAIN source = 1..m
    BY <1>1 DEF IsText, IsList
  <1>3. \A i \in 1..m : source[i] \in ToSet(source)
    BY <1>2
  <1>4. PICK w, v : w = [i \in 1..m |-> source[i].bytes] /\ v = [i \in 1..m |-> source[i].units]
    OBVIOUS
  <1>5. w \in [1..m -> Nat \ {0}] /\ v \in [1..m -> Nat \ {0}]
    BY <1>3, <1>4 DEF IsText
  <1>6. w \in [1..m -> Nat] /\ v \in [1..m -> Nat]
    BY <1>5
  <1>7. PICK B : SumsUp(B, m, w)
    BY <1>2, <1>6, SumsExist DEF CanSumUp
  <1>8. PICK U : SumsUp(U, m, v)
    BY <1>2, <1>6, SumsExist DEF CanSumUp
  <1>9. /\ \A a, b \in 0..m : a < b => B[a] < B[b]
        /\ \A a, b \in 0..m : a < b => U[a] < U[b]
    BY <1>2, <1>5, <1>7, <1>8, SumsRise
  <1>10. ASSUME NEW a \in 0..m, NEW b \in 0..m, a <= b
         PROVE  /\ Bytes(SubSeq(source, a + 1, b)) = B[b] - B[a]
                /\ Units(SubSeq(source, a + 1, b)) = U[b] - U[a]
    <2>1. PICK part, k, c : part = SubSeq(source, a + 1, b) /\ k = b - a /\ c = a + 1
      OBVIOUS
    <2>2. k \in Nat /\ b \in a..m /\ k \in 0..k /\ a + k = b /\ c \in Int /\ b - c + 1 = k /\ (c <= b <=> k # 0)
      BY <1>2, <1>10, <2>1
    <2>3. Len(part) = k /\ \A i \in 1..k : part[i] = source[a + i]
      <3>1. \A i \in c..b : source[i] \in ToSet(source)
        BY <1>2, <1>3, <2>1
      <3>2. /\ Len(SubSeq(source, c, b)) = IF c <= b THEN b - c + 1 ELSE 0
            /\ \A i \in 1..(b - c + 1) : SubSeq(source, c, b)[i] = source[c + i - 1]
        BY <2>2, <3>1, SubSeqProperties
      <3>3. \A i \in 1..k : c + i - 1 = a + i
        BY <2>1, <2>2
      <3>4. QED BY <2>1, <2>2, <3>2, <3>3
    <2>4. PICK x, y : /\ x = [n \in 1..k |-> w[a + n]] /\ y = [n \in 1..k |-> v[a + n]]
      OBVIOUS
    <2>5. PICK g, h : /\ g = [n \in 0..k |-> B[a + n] - B[a]] /\ h = [n \in 0..k |-> U[a + n] - U[a]]
      OBVIOUS
    <2>6. SumsUp(g, k, x) /\ SumsUp(h, k, y)
      <3>1. SumsUp([n \in 0..(b - a) |-> B[a + n] - B[a]], b - a, [n \in 1..(b - a) |-> w[a + n]])
        BY <1>2, <1>6, <1>7, <1>9, <2>2, PartSums
      <3>2. SumsUp([n \in 0..(b - a) |-> U[a + n] - U[a]], b - a, [n \in 1..(b - a) |-> v[a + n]])
        BY <1>2, <1>6, <1>8, <1>9, <2>2, PartSums
      <3>3. QED BY <2>1, <2>4, <2>5, <3>1, <3>2
    <2>7. \A i \in 1..k : a + i \in 1..m
      BY <1>2, <2>1, <2>2
    <2>8. \A i \in 1..k : part[i].bytes = x[i] /\ part[i].units = y[i]
      BY <1>4, <2>3, <2>4, <2>7
    <2>9. Bytes(part) = g[k]
      <3>1. Len(part) = k /\ \A i \in 1..k : part[i].bytes = x[i]
        BY <2>3, <2>8
      <3>2. k \in Nat /\ SumsUp(g, k, x)
        BY <2>2, <2>6
      <3>3. QED BY <3>1, <3>2, BytesAreSummed
    <2>10. Units(part) = h[k]
      <3>1. Len(part) = k /\ \A i \in 1..k : part[i].units = y[i]
        BY <2>3, <2>8
      <3>2. k \in Nat /\ SumsUp(h, k, y)
        BY <2>2, <2>6
      <3>3. QED BY <3>1, <3>2, UnitsAreSummed
    <2>11. g[k] = B[b] - B[a] /\ h[k] = U[b] - U[a]
      BY <2>2, <2>5
    <2>12. QED BY <2>1, <2>9, <2>10, <2>11
  <1>11. B \in [0..m -> Nat] /\ U \in [0..m -> Nat] /\ B[0] = 0
    BY <1>7, <1>8 DEF SumsUp
  <1>12. Measures(source, B, U)
    BY <1>1, <1>9, <1>10, <1>11 DEF Measures
  <1>13. QED BY <1>12 DEF CanBeMeasured

LEMMA MaxFacts ==
  ASSUME NEW n \in Nat, NEW S \in SUBSET (0..n), S # {}
  PROVE  Max(S) \in S /\ \A k \in S : k <= Max(S)
PROOF
  <1>1. PICK m \in S : \A k \in S : k <= m
    BY LargestExists
  <1>2. m \in S /\ \A k \in S : m >= k
    BY <1>1
  <1>3. Max(S) \in S /\ \A k \in S : Max(S) >= k
    BY <1>2 DEF Max
  <1>4. QED BY <1>3

(* The newlines among the first n characters of a text, and where the line    *)
(* of the next character begins.                                              *)
Newlines(source, n) == {i \in 1..n : source[i].newline}
LineStart(source, n) == Max({0} \union Newlines(source, n))

LEMMA LineFacts ==
  ASSUME NEW source, NEW n \in Nat
  PROVE  /\ LineStart(source, n) \in 0..n
         /\ \A i \in Newlines(source, n) : i <= LineStart(source, n)
         /\ LineStart(source, n) # 0 => LineStart(source, n) \in Newlines(source, n)
         /\ IsFiniteSet(Newlines(source, n)) /\ Cardinality(Newlines(source, n)) \in Nat
         /\ Newlines(source, n) = {} <=> Cardinality(Newlines(source, n)) = 0
PROOF
  <1> DEFINE S == {0} \union Newlines(source, n)
  <1>1. S \in SUBSET (0..n) /\ S # {} /\ Newlines(source, n) \in SUBSET (1..n)
    BY DEF Newlines
  <1> HIDE DEF S
  <1>2. Max(S) \in S /\ \A k \in S : k <= Max(S)
    BY <1>1, MaxFacts
  <1>3. LineStart(source, n) = Max(S)
    BY DEF LineStart, S
  <1>4. IsFiniteSet(1..n)
    BY FS_Interval
  <1>5. IsFiniteSet(Newlines(source, n))
    <2>1. PICK I, T : I = 1..n /\ T = Newlines(source, n)
      OBVIOUS
    <2>2. IsFiniteSet(I) /\ T \in SUBSET I
      BY <1>1, <1>4, <2>1
    <2>3. IsFiniteSet(T)
      BY <2>2, FS_Subset
    <2>4. QED BY <2>1, <2>3
  <1>6. LineStart(source, n) \in 0..n
    BY <1>1, <1>2, <1>3
  <1>7. \A i \in Newlines(source, n) : i <= LineStart(source, n)
    BY <1>2, <1>3 DEF S
  <1>8. LineStart(source, n) # 0 => LineStart(source, n) \in Newlines(source, n)
    BY <1>2, <1>3 DEF S
  <1>9. QED BY <1>5, <1>6, <1>7, <1>8, FS_CardinalityType, FS_EmptySet

(* More characters have more newlines, and as many only on the same line.     *)
LEMMA RowsRise ==
  ASSUME NEW source, NEW b \in Nat, NEW a \in 0..b
  PROVE  /\ Cardinality(Newlines(source, a)) <= Cardinality(Newlines(source, b))
         /\ Cardinality(Newlines(source, a)) = Cardinality(Newlines(source, b)) =>
              Newlines(source, a) = Newlines(source, b) /\ LineStart(source, a) = LineStart(source, b)
PROOF
  <1>1. PICK S, T : S = Newlines(source, b) /\ T = Newlines(source, a)
    OBVIOUS
  <1>2. IsFiniteSet(S)
    BY <1>1, LineFacts
  <1>3. T \in SUBSET S
    BY <1>1 DEF Newlines
  <1>4. Cardinality(T) <= Cardinality(S) /\ (Cardinality(S) = Cardinality(T) => S = T)
    BY <1>2, <1>3, FS_Subset
  <1>5. S = T => LineStart(source, a) = LineStart(source, b)
    BY <1>1 DEF LineStart
  <1>6. QED BY <1>1, <1>4, <1>5

LEMMA PrefixFacts ==
  ASSUME NEW source, IsText(source), NEW B, NEW U, Measures(source, B, U), NEW n \in 0..Len(source)
  PROVE  LET prefix == Before(source, n) IN
         /\ Len(prefix) = n /\ DOMAIN prefix = 1..n
         /\ {i \in DOMAIN prefix : prefix[i].newline} = Newlines(source, n)
         /\ Bytes(prefix) = B[n]
         /\ Bytes(Rest(prefix)) = B[n] - B[LineStart(source, n)]
         /\ Units(Rest(prefix)) = U[n] - U[LineStart(source, n)]
PROOF
  <1> DEFINE prefix == Before(source, n)
             start == LineStart(source, n)
  <1>1. PICK S, m : S = ToSet(source) /\ m = Len(source)
    OBVIOUS
  <1>2. source \in Seq(S) /\ m \in Nat /\ n \in 0..m /\ n \in Nat /\ DOMAIN source = 1..m
    BY <1>1 DEF IsText, IsList
  <1>3. \A i \in 1..n : source[i] \in S
    BY <1>2
  <1>4. prefix \in Seq(S) /\ Len(prefix) = n /\ \A i \in 1..n : prefix[i] = source[i]
    <2>1. /\ SubSeq(source, 1, n) \in Seq(S)
          /\ Len(SubSeq(source, 1, n)) = IF 1 <= n THEN n - 1 + 1 ELSE 0
          /\ \A i \in 1..(n - 1 + 1) : SubSeq(source, 1, n)[i] = source[1 + i - 1]
      <3>1. 1 \in Int /\ n \in Int
        BY <1>2
      <3>2. QED BY <1>3, <3>1, SubSeqProperties
    <2>2. n - 1 + 1 = n /\ \A i \in 1..n : 1 + i - 1 = i
      BY <1>2
    <2>3. (IF 1 <= n THEN n - 1 + 1 ELSE 0) = n
      BY <1>2
    <2>4. QED BY <2>1, <2>2, <2>3 DEF Before
  <1> HIDE DEF prefix
  <1>5. DOMAIN prefix = 1..n
    BY <1>4
  <1>6. {i \in DOMAIN prefix : prefix[i].newline} = Newlines(source, n)
    BY <1>4, <1>5 DEF Newlines
  <1>7. start \in 0..n /\ LastNewline(prefix) = start
    BY <1>2, <1>6, LineFacts DEF LastNewline, LineStart
  <1>8. Rest(prefix) = SubSeq(source, start + 1, n)
    <2>1. PICK c : c = start + 1
      OBVIOUS
    <2>2. c \in Int /\ c \in 1..(n + 1) /\ n \in Int /\ \A i \in c..n : i \in 1..n
      BY <1>2, <1>7, <2>1
    <2>3. PICK p, q : p = SubSeq(prefix, c, n) /\ q = SubSeq(source, c, n)
      OBVIOUS
    <2>4. \A i \in c..n : prefix[i] \in S /\ source[i] \in S
      BY <1>3, <1>4, <2>2
    <2>5. /\ p \in Seq(S) /\ Len(p) = IF c <= n THEN n - c + 1 ELSE 0
          /\ \A i \in 1..(n - c + 1) : p[i] = prefix[c + i - 1]
      BY <2>2, <2>3, <2>4, SubSeqProperties
    <2>6. /\ q \in Seq(S) /\ Len(q) = IF c <= n THEN n - c + 1 ELSE 0
          /\ \A i \in 1..(n - c + 1) : q[i] = source[c + i - 1]
      BY <2>2, <2>3, <2>4, SubSeqProperties
    <2>7. Len(p) = Len(q) /\ Len(p) = n - c + 1
      BY <2>2, <2>5, <2>6
    <2>8. ASSUME NEW i \in 1..Len(p) PROVE p[i] = q[i]
      <3>1. i \in 1..(n - c + 1) /\ c + i - 1 \in 1..n
        BY <2>2, <2>7
      <3>2. QED BY <1>4, <2>5, <2>6, <3>1
    <2>9. p = q
      BY <2>5, <2>6, <2>7, <2>8, SeqEqual
    <2>10. QED BY <1>4, <1>7, <2>1, <2>3, <2>9 DEF Rest
  <1>9. Bytes(prefix) = B[n]
    <2>1. 0 \in 0..m /\ 0 <= n /\ 0 + 1 = 1
      BY <1>2
    <2>2. Bytes(SubSeq(source, 0 + 1, n)) = B[n] - B[0] /\ B[0] = 0 /\ B[n] \in Nat
      BY <1>1, <1>2, <2>1 DEF Measures
    <2>3. prefix = SubSeq(source, 1, n)
      BY DEF prefix, Before
    <2>4. QED BY <2>1, <2>2, <2>3
  <1>10. /\ Bytes(Rest(prefix)) = B[n] - B[start]
         /\ Units(Rest(prefix)) = U[n] - U[start]
    <2>1. start \in 0..m /\ start <= n
      BY <1>2, <1>7
    <2>2. QED BY <1>1, <1>2, <1>8, <2>1 DEF Measures
  <1>11. QED BY <1>4, <1>5, <1>6, <1>9, <1>10 DEF prefix

(* The number of characters that end at or before a byte.                     *)
Reached(source, byte) == Max({n \in 0..Len(source) : Bytes(Before(source, n)) <= byte})

LEMMA ReachedFacts ==
  ASSUME NEW source, IsText(source), NEW B, NEW U, Measures(source, B, U), NEW byte \in Nat
  PROVE  LET n == Reached(source, byte) IN
         /\ n \in 0..Len(source) /\ B[n] <= byte
         /\ \A k \in 0..Len(source) : B[k] <= byte => k <= n
         /\ Position(source, byte) =
              [line |-> Cardinality(Newlines(source, n)), character |-> U[n] - U[LineStart(source, n)]]
PROOF
  <1> DEFINE S == {n \in 0..Len(source) : Bytes(Before(source, n)) <= byte}
  <1>1. Len(source) \in Nat
    BY DEF IsText, IsList
  <1>2. \A n \in 0..Len(source) : Bytes(Before(source, n)) = B[n]
    BY PrefixFacts
  <1>3. S \in SUBSET (0..Len(source)) /\ S # {}
    <2>1. 0 \in 0..Len(source) /\ B[0] = 0
      BY <1>1 DEF Measures
    <2>2. 0 \in S
      BY <1>2, <2>1
    <2>3. QED BY <2>2
  <1>4. Max(S) \in S /\ \A k \in S : k <= Max(S)
    <2> HIDE DEF S
    <2>1. QED BY <1>1, <1>3, MaxFacts
  <1>5. PICK n : n = Reached(source, byte)
    OBVIOUS
  <1>6. n = Max(S)
    BY <1>5 DEF Reached
  <1>7. n \in 0..Len(source) /\ B[n] <= byte /\ \A k \in 0..Len(source) : B[k] <= byte => k <= n
    BY <1>2, <1>4, <1>6
  <1>8. Prefix(source, byte) = Before(source, n)
    BY <1>6 DEF Prefix
  <1> HIDE DEF S
  <1>9. Position(source, byte) =
          [line |-> Cardinality(Newlines(source, n)), character |-> U[n] - U[LineStart(source, n)]]
    <2>1. PICK prefix : prefix = Before(source, n)
      OBVIOUS
    <2>2. /\ {i \in DOMAIN prefix : prefix[i].newline} = Newlines(source, n)
          /\ Units(Rest(prefix)) = U[n] - U[LineStart(source, n)]
      BY <1>7, <2>1, PrefixFacts
    <2>3. QED BY <1>8, <2>1, <2>2 DEF Position
  <1>10. QED BY <1>5, <1>7, <1>9

(* Of two places in a text the later one has the later position.              *)
LEMMA PlacesInOrder ==
  ASSUME NEW source, IsText(source), NEW B, NEW U, Measures(source, B, U),
         NEW b \in 0..Len(source), NEW a \in 0..b
  PROVE  LET rowA == Cardinality(Newlines(source, a))
             rowB == Cardinality(Newlines(source, b))
             unitsA == U[a] - U[LineStart(source, a)]
             unitsB == U[b] - U[LineStart(source, b)]
         IN  /\ rowA < rowB \/ (rowA = rowB /\ unitsA <= unitsB)
             /\ rowA = rowB /\ unitsA = unitsB => a = b
PROOF
  <1>1. Len(source) \in Nat /\ a \in Nat /\ b \in Nat /\ a \in 0..Len(source)
    BY DEF IsText, IsList
  <1>2. PICK rowA, rowB, startA, startB :
          /\ rowA = Cardinality(Newlines(source, a)) /\ rowB = Cardinality(Newlines(source, b))
          /\ startA = LineStart(source, a) /\ startB = LineStart(source, b)
    OBVIOUS
  <1>3. rowA \in Nat /\ rowB \in Nat /\ startA \in 0..a /\ startB \in 0..b
    BY <1>1, <1>2, LineFacts
  <1>4. rowA <= rowB /\ (rowA = rowB => startA = startB)
    BY <1>1, <1>2, RowsRise
  <1>5. /\ U \in [0..Len(source) -> Nat]
        /\ \A x, y \in 0..Len(source) : x < y => U[x] < U[y]
    BY DEF Measures
  <1>6. U[a] \in Nat /\ U[b] \in Nat /\ U[startA] \in Nat /\ U[startB] \in Nat
    <2>1. a \in 0..Len(source) /\ b \in 0..Len(source)
      BY <1>1
    <2>2. startA \in 0..Len(source) /\ startB \in 0..Len(source)
      BY <1>1, <1>3
    <2>3. QED BY <1>5, <2>1, <2>2
  <1>7. a = b \/ U[a] < U[b]
    BY <1>1, <1>5
  <1>8. rowA = rowB => U[a] - U[startA] <= U[b] - U[startB]
    BY <1>4, <1>6, <1>7
  <1>9. rowA = rowB /\ U[a] - U[startA] = U[b] - U[startB] => a = b
    BY <1>4, <1>6, <1>7
  <1>10. rowA < rowB \/ rowA = rowB
    BY <1>3, <1>4
  <1>11. QED BY <1>2, <1>8, <1>9, <1>10

(* The lines before a place are what the parser's row counts.                 *)
LEMMA LinesBefore ==
  ASSUME NEW source, IsText(source), NEW B, NEW U, Measures(source, B, U), NEW n \in 0..Len(source)
  PROVE  Bytes(FirstLines(source, Cardinality(Newlines(source, n)))) = B[LineStart(source, n)]
PROOF
  <1>1. PICK row, start, m : /\ row = Cardinality(Newlines(source, n)) /\ start = LineStart(source, n)
                             /\ m = Len(source)
    OBVIOUS
  <1>2. m \in Nat /\ n \in 0..m /\ n \in Nat /\ DOMAIN source = 1..m
    BY <1>1 DEF IsText, IsList
  <1>3. /\ start \in 0..n /\ \A i \in Newlines(source, n) : i <= start
        /\ start # 0 => start \in Newlines(source, n)
        /\ row \in Nat /\ (row = 0 <=> Newlines(source, n) = {})
    BY <1>1, <1>2, LineFacts
  <1>4. CASE row = 0
    <2>1. start = 0
      BY <1>3, <1>4
    <2>2. FirstLines(source, row) = <<>>
      BY <1>4 DEF FirstLines
    <2>3. Bytes(<<>>) = 0
      <3>1. 0 \in 0..m /\ 0 <= 0 /\ B[0] = 0
        BY <1>2 DEF Measures
      <3>2. Bytes(Before(source, 0)) = B[0]
        BY <1>1, <3>1, PrefixFacts
      <3>3. Before(source, 0) = <<>>
        BY SubSeqEmpty DEF Before
      <3>4. QED BY <3>1, <3>2, <3>3
    <2>4. B[0] = 0
      BY DEF Measures
    <2>5. QED BY <1>1, <2>1, <2>2, <2>3, <2>4
  <1>5. CASE row # 0
    <2> DEFINE last == {i \in DOMAIN source :
                 /\ source[i].newline
                 /\ Cardinality({j \in 1..i : source[j].newline}) = row}
    <2>1. \E i \in Newlines(source, n) : TRUE
      BY <1>3, <1>5
    <2>2. start # 0
      <3>1. PICK i \in Newlines(source, n) : i <= start
        BY <1>3, <2>1
      <3>2. i \in 1..n
        BY DEF Newlines
      <3>3. QED BY <1>2, <1>3, <3>1, <3>2
    <2>3. start \in 1..n /\ source[start].newline /\ start \in 1..m
      BY <1>2, <1>3, <2>2 DEF Newlines
    <2>4. Newlines(source, start) = Newlines(source, n)
      <3>1. ASSUME NEW i \in 1..n, source[i].newline PROVE i \in 1..start
        <4>1. i \in Newlines(source, n)
          BY <3>1 DEF Newlines
        <4>2. i <= start
          BY <1>3, <4>1
        <4>3. QED BY <1>2, <2>3, <4>2
      <3>2. \A i \in 1..start : i \in 1..n
        BY <1>2, <2>3
      <3>3. QED BY <3>1, <3>2 DEF Newlines
    <2>5. start \in last
      BY <1>1, <1>2, <2>3, <2>4 DEF Newlines
    <2>6. ASSUME NEW i \in last PROVE i = start
      <3>1. i \in 1..m /\ source[i].newline /\ Cardinality(Newlines(source, i)) = row
        BY <1>2 DEF Newlines
      <3>2. Cardinality(Newlines(source, start)) = row
        BY <1>1, <2>4
      <3>3. i \in Newlines(source, i) /\ start \in Newlines(source, start)
        BY <2>3, <3>1 DEF Newlines
      <3>4. CASE i <= start
        <4>1. start \in Nat /\ i \in 0..start
          BY <1>2, <2>3, <3>1, <3>4
        <4>2. Newlines(source, i) = Newlines(source, start)
          BY <3>1, <3>2, <4>1, RowsRise
        <4>3. start \in 1..i
          BY <3>3, <4>2 DEF Newlines
        <4>4. QED BY <3>4, <4>1, <4>3
      <3>5. CASE start <= i
        <4>1. i \in Nat /\ start \in 0..i
          BY <1>2, <2>3, <3>1, <3>5
        <4>2. Newlines(source, i) = Newlines(source, start)
          BY <3>1, <3>2, <4>1, RowsRise
        <4>3. i \in 1..start
          BY <3>3, <4>2 DEF Newlines
        <4>4. QED BY <3>5, <4>1, <4>3
      <3>6. QED BY <1>2, <2>3, <3>1, <3>4, <3>5
    <2>7. last = {start}
      BY <2>5, <2>6
    <2>8. FirstLines(source, row) = Before(source, Max(last))
      BY <1>5, <2>5 DEF FirstLines
    <2> HIDE DEF last
    <2>9. Max(last) = start
      <3>1. last \in SUBSET (0..m) /\ last # {}
        BY <1>2, <2>3, <2>7
      <3>2. Max(last) \in last
        BY <1>2, <3>1, MaxFacts
      <3>3. QED BY <2>7, <3>2
    <2>10. Bytes(Before(source, start)) = B[start]
      <3>1. start \in 0..Len(source)
        BY <1>1, <1>2, <2>3
      <3>2. QED BY <3>1, PrefixFacts
    <2>11. QED BY <1>1, <2>8, <2>9, <2>10
  <1>6. QED BY <1>4, <1>5

LEMMA TextsSurvive ==
  ASSUME NEW source, IsText(source)
  PROVE  OffsetsSurvive(source)
PROOF
  <1>1. PICK B, U : Measures(source, B, U)
    BY TextsAreMeasured DEF CanBeMeasured
  <1>2. PICK m : m = Len(source)
    OBVIOUS
  <1>3. m \in Nat /\ B \in [0..m -> Nat] /\ (\A a, b \in 0..m : a < b => B[a] < B[b])
    BY <1>1, <1>2 DEF IsText, IsList, Measures
  <1>4. \A n \in 0..m : Bytes(Before(source, n)) = B[n]
    BY <1>1, <1>2, PrefixFacts
  <1>5. Bytes(source) = B[m]
    <2>1. Before(source, m) = source
      <3>1. source \in Seq(ToSet(source)) /\ DOMAIN source = 1..m
        BY <1>2 DEF IsText, IsList
      <3>2. PICK r : r = SubSeq(source, 1, m)
        OBVIOUS
      <3>3. \A i \in 1..m : source[i] \in ToSet(source)
        BY <3>1 DEF ToSet
      <3>4. /\ r \in Seq(ToSet(source)) /\ Len(r) = IF 1 <= m THEN m - 1 + 1 ELSE 0
            /\ \A i \in 1..(m - 1 + 1) : r[i] = source[1 + i - 1]
        <4>1. 1 \in Int /\ m \in Int
          BY <1>3
        <4>2. QED BY <3>2, <3>3, <4>1, SubSeqProperties
      <3>5. Len(r) = m /\ \A i \in 1..m : r[i] = source[i]
        <4>1. m - 1 + 1 = m /\ (IF 1 <= m THEN m - 1 + 1 ELSE 0) = m /\ \A i \in 1..m : 1 + i - 1 = i
          BY <1>3
        <4>2. QED BY <3>4, <4>1
      <3>6. r = source
        BY <1>2, <3>1, <3>4, <3>5, SeqEqual
      <3>7. QED BY <3>2, <3>6 DEF Before
    <2>2. m \in 0..m
      BY <1>3
    <2>3. QED BY <1>4, <2>1, <2>2
  <1>6. ASSUME NEW a \in 0..(Bytes(source) + 1), NEW b \in 0..(Bytes(source) + 1), a <= b
        PROVE  NotAfter(Position(source, a), Position(source, b))
    <2>1. a \in Nat /\ b \in Nat
      BY <1>3, <1>5
    <2>2. PICK i, j : i = Reached(source, a) /\ j = Reached(source, b)
      OBVIOUS
    <2>3. /\ i \in 0..m /\ B[i] <= a
          /\ Position(source, a) =
               [line |-> Cardinality(Newlines(source, i)), character |-> U[i] - U[LineStart(source, i)]]
      BY <1>1, <1>2, <2>1, <2>2, ReachedFacts
    <2>4. /\ j \in 0..m /\ \A k \in 0..m : B[k] <= b => k <= j
          /\ Position(source, b) =
               [line |-> Cardinality(Newlines(source, j)), character |-> U[j] - U[LineStart(source, j)]]
      BY <1>1, <1>2, <2>1, <2>2, ReachedFacts
    <2>5. i <= j
      <3>1. B[i] \in Nat
        BY <1>3, <2>3
      <3>2. B[i] <= b
        BY <1>6, <2>1, <2>3, <3>1
      <3>3. QED BY <2>3, <2>4, <3>2
    <2>6. j \in 0..Len(source) /\ i \in 0..j
      BY <1>2, <1>3, <2>3, <2>4, <2>5
    <2>7. \/ Cardinality(Newlines(source, i)) < Cardinality(Newlines(source, j))
          \/ /\ Cardinality(Newlines(source, i)) = Cardinality(Newlines(source, j))
             /\ U[i] - U[LineStart(source, i)] <= U[j] - U[LineStart(source, j)]
      BY <1>1, <2>6, PlacesInOrder
    <2>8. QED BY <2>3, <2>4, <2>7 DEF NotAfter
  <1>7. ASSUME NEW a \in Boundaries(source), NEW b \in Boundaries(source),
               Position(source, a) = Position(source, b)
        PROVE  a = b
    <2>1. PICK i \in 0..m : a = B[i]
      BY <1>2, <1>4 DEF Boundaries
    <2>2. PICK j \in 0..m : b = B[j]
      BY <1>2, <1>4 DEF Boundaries
    <2>3. ASSUME NEW k \in 0..m
          PROVE  Position(source, B[k]) =
                   [line |-> Cardinality(Newlines(source, k)), character |-> U[k] - U[LineStart(source, k)]]
      <3>1. B[k] \in Nat
        BY <1>3
      <3>2. PICK n : n = Reached(source, B[k])
        OBVIOUS
      <3>3. /\ n \in 0..m /\ B[n] <= B[k] /\ \A l \in 0..m : B[l] <= B[k] => l <= n
            /\ Position(source, B[k]) =
                 [line |-> Cardinality(Newlines(source, n)), character |-> U[n] - U[LineStart(source, n)]]
        BY <1>1, <1>2, <3>1, <3>2, ReachedFacts
      <3>4. n = k
        <4>1. B[n] \in Nat /\ k <= n
          BY <1>3, <3>1, <3>3
        <4>2. ~ (k < n)
          BY <1>3, <3>1, <3>3, <4>1
        <4>3. QED BY <1>3, <3>3, <4>1, <4>2
      <3>5. QED BY <3>3, <3>4
    <2>4. /\ Cardinality(Newlines(source, i)) = Cardinality(Newlines(source, j))
          /\ U[i] - U[LineStart(source, i)] = U[j] - U[LineStart(source, j)]
      <3>1. PICK p, q : p = Position(source, a) /\ q = Position(source, b)
        OBVIOUS
      <3>2. /\ p.line = Cardinality(Newlines(source, i)) /\ q.line = Cardinality(Newlines(source, j))
            /\ p.character = U[i] - U[LineStart(source, i)] /\ q.character = U[j] - U[LineStart(source, j)]
        <4>1. p = [line |-> Cardinality(Newlines(source, i)), character |-> U[i] - U[LineStart(source, i)]]
          BY <2>1, <2>3, <3>1
        <4>2. q = [line |-> Cardinality(Newlines(source, j)), character |-> U[j] - U[LineStart(source, j)]]
          BY <2>2, <2>3, <3>1
        <4>3. QED BY <4>1, <4>2
      <3>3. QED BY <1>7, <3>1, <3>2
    <2>5. CASE i <= j
      <3>1. j \in 0..Len(source) /\ i \in 0..j
        BY <1>2, <1>3, <2>5
      <3>2. i = j
        BY <1>1, <2>4, <3>1, PlacesInOrder
      <3>3. QED BY <2>1, <2>2, <3>2
    <2>6. CASE j <= i
      <3>1. i \in 0..Len(source) /\ j \in 0..i
        BY <1>2, <1>3, <2>6
      <3>2. i = j
        BY <1>1, <2>4, <3>1, PlacesInOrder
      <3>3. QED BY <2>1, <2>2, <3>2
    <2>7. QED BY <1>3, <2>5, <2>6
  <1>8. ASSUME NEW n \in 0..Len(source)
        PROVE  PointToByte(source, Position(source, Bytes(Before(source, n))).line,
                           Bytes(Rest(Before(source, n)))) = Bytes(Before(source, n))
    <2>1. PICK start, row : start = LineStart(source, n) /\ row = Cardinality(Newlines(source, n))
      OBVIOUS
    <2>2. Bytes(Before(source, n)) = B[n] /\ Bytes(Rest(Before(source, n))) = B[n] - B[start]
      BY <1>1, <2>1, PrefixFacts
    <2>3. n \in 0..m /\ n \in Nat /\ B[n] \in Nat
      BY <1>2, <1>3
    <2>4. Position(source, B[n]).line = row
      <3>1. PICK k : k = Reached(source, B[n])
        OBVIOUS
      <3>2. /\ k \in 0..m /\ B[k] <= B[n] /\ \A l \in 0..m : B[l] <= B[n] => l <= k
            /\ Position(source, B[n]) =
                 [line |-> Cardinality(Newlines(source, k)), character |-> U[k] - U[LineStart(source, k)]]
        BY <1>1, <1>2, <2>3, <3>1, ReachedFacts
      <3>3. k = n
        <4>1. B[k] \in Nat /\ n <= k
          BY <1>3, <2>3, <3>2
        <4>2. ~ (n < k)
          BY <1>3, <2>3, <3>2, <4>1
        <4>3. QED BY <1>3, <2>3, <3>2, <4>1, <4>2
      <3>4. QED BY <2>1, <3>2, <3>3
    <2>5. Bytes(FirstLines(source, row)) = B[start]
      BY <1>1, <2>1, LinesBefore
    <2>6. start \in 0..n /\ B[start] \in Nat
      <3>1. start \in 0..n
        BY <2>1, <2>3, LineFacts
      <3>2. QED BY <1>3, <2>3, <3>1
    <2>7. B[n] <= B[m]
      <3>1. n = m \/ n < m
        BY <1>3, <2>3
      <3>2. m \in 0..m /\ B[m] \in Nat
        BY <1>3
      <3>3. QED BY <1>3, <2>3, <3>1, <3>2
    <2>8. PointToByte(source, row, B[n] - B[start]) = B[n]
      <3>1. B[start] + (B[n] - B[start]) = B[n]
        BY <2>3, <2>6
      <3>2. QED BY <1>5, <2>5, <2>7, <3>1 DEF PointToByte, AtMost
    <2>9. QED BY <2>2, <2>4, <2>8
  <1>9. QED BY <1>6, <1>7, <1>8 DEF OffsetsSurvive

(* Whatever text a file has, its offsets survive the way to an editor and     *)
(* back: positions keep the order of bytes, no two characters share one, and  *)
(* a point of the parser leads to its byte (utf16_position, point_to_byte).   *)
THEOREM PositionsSurviveAlways ==
  ASSUME SourcesAreTexts
  PROVE  Spec => []PositionsSurvive
PROOF
  <1>1. Init => IsInput(input)
    BY DEF Init
  <1>2. IsInput(input) /\ [Next]_vars => IsInput(input)'
    <2> SUFFICES ASSUME IsInput(input), [Next]_vars PROVE IsInput(input')
      OBVIOUS
    <2>1. input' = input
      BY DEF Next, CollectNode, CollectSymbols, CollectLambdas, CollectGraphs, ReadUses, ReportUses,
             ConvertTypes, Finish, vars
    <2>2. QED BY <2>1
  <1>3. IsInput(input) => PositionsSurvive
    BY TextsSurvive DEF SourcesAreTexts, PositionsSurvive
  <1>4. QED BY <1>1, <1>2, <1>3, PTL DEF Spec
-----------------------------------------------------------------------------
(* The hypothesis on trees, and what it gives for each node.                  *)
TreesAreParsed == \A file : IsInput(file) => IsTree(file.tree)

Nodes(t) == DOMAIN t.parent
ChildrenIn(t, n) == {c \in Nodes(t) : t.parent[c] = n}

LEMMA TreeFacts ==
  ASSUME NEW t, IsTree(t)
  PROVE  /\ Nodes(t) \subseteq Nat \ {0} /\ 1 \in Nodes(t)
         /\ \A n \in Nodes(t) : t.start[n] \in Nat /\ t.end[n] \in Nat /\ t.parent[n] \in Nat
         /\ \A n \in Nodes(t) \ {1} :
              /\ t.parent[n] \in Nodes(t) /\ t.parent[n] < n
              /\ t.start[t.parent[n]] <= t.start[n] /\ t.end[n] <= t.end[t.parent[n]]
              /\ \A m \in Nodes(t) : t.parent[n] < m /\ m < n => t.parent[m] >= t.parent[n]
              /\ \A m \in Nodes(t) : t.parent[m] = t.parent[n] /\ m < n => t.end[m] <= t.start[n]
         /\ \A n \in Nodes(t) : t.parent[n] \in Nodes(t) => n # 1
         /\ IsFiniteSet(Nodes(t)) /\ Len(t.parent) \in Nat /\ Nodes(t) \subseteq 0..Len(t.parent)
PROOF
  <1> DEFINE N == Len(t.parent)
  <1>1. /\ N \in Nat \ {0} /\ Nodes(t) = 1..N /\ t.parent \in [1..N -> Nat] /\ t.parent[1] = 0
    BY EmptySeq DEF IsTree, Nodes
  <1>2. t.start \in [1..N -> Nat] /\ t.end \in [1..N -> Nat]
    BY <1>1 DEF IsTree, Nodes
  <1>3. \A n \in Nodes(t) \ {1} :
          /\ t.parent[n] \in 1..(n - 1)
          /\ t.start[t.parent[n]] <= t.start[n] /\ t.end[n] <= t.end[t.parent[n]]
          /\ \A m \in (t.parent[n] + 1)..(n - 1) : t.parent[m] >= t.parent[n]
          /\ \A m \in 1..(n - 1) : t.parent[m] = t.parent[n] => t.end[m] <= t.start[n]
    BY DEF IsTree, Nodes
  <1> HIDE DEF N
  <1>4. Nodes(t) \subseteq Nat \ {0} /\ 1 \in Nodes(t)
    BY <1>1
  <1>5. \A n \in Nodes(t) : t.start[n] \in Nat /\ t.end[n] \in Nat /\ t.parent[n] \in Nat
    BY <1>1, <1>2
  <1>6. ASSUME NEW n \in Nodes(t) \ {1}
        PROVE  /\ t.parent[n] \in Nodes(t) /\ t.parent[n] < n
               /\ t.start[t.parent[n]] <= t.start[n] /\ t.end[n] <= t.end[t.parent[n]]
               /\ \A m \in Nodes(t) : t.parent[n] < m /\ m < n => t.parent[m] >= t.parent[n]
               /\ \A m \in Nodes(t) : t.parent[m] = t.parent[n] /\ m < n => t.end[m] <= t.start[n]
    <2>1. n \in 1..N /\ t.parent[n] \in 1..(n - 1)
      BY <1>1, <1>3
    <2>2. \A m \in Nodes(t) : t.parent[n] < m /\ m < n => m \in (t.parent[n] + 1)..(n - 1)
      BY <1>1, <2>1
    <2>3. \A m \in Nodes(t) : m < n => m \in 1..(n - 1)
      BY <1>1, <2>1
    <2>4. t.parent[n] \in Nodes(t) /\ t.parent[n] < n
      BY <1>1, <2>1
    <2>5. QED BY <1>3, <2>2, <2>3, <2>4
  <1>7. \A n \in Nodes(t) : t.parent[n] \in Nodes(t) => n # 1
    BY <1>1
  <1>8. IsFiniteSet(Nodes(t))
    BY <1>1, FS_Interval
  <1>9. Len(t.parent) \in Nat /\ Nodes(t) \subseteq 0..Len(t.parent)
    BY <1>1 DEF N
  <1>10. QED BY <1>4, <1>5, <1>6, <1>7, <1>8, <1>9

(* A node between a node and its parent lies in a sibling before the node.    *)
LEMMA InASibling ==
  ASSUME NEW t, IsTree(t), NEW y \in Nodes(t) \ {1}, NEW x \in Nodes(t), t.parent[y] < x, x < y
  PROVE  \E d \in Nodes(t) : t.parent[d] = t.parent[y] /\ d < y /\ t.end[x] <= t.end[d]
PROOF
  <1> DEFINE p == t.parent[y]
             Lies(n) == \E d \in Nodes(t) : t.parent[d] = p /\ d < y /\ t.end[n] <= t.end[d]
             Bad == {n \in Nodes(t) : p < n /\ n < y /\ ~ Lies(n)}
  <1>1. ASSUME Bad # {} PROVE FALSE
    <2>1. PICK n \in Bad : \A m \in Bad : n <= m
      <3>1. Bad \in SUBSET Nat
        BY TreeFacts
      <3> HIDE DEF Bad
      <3>2. QED BY <1>1, <3>1, SmallestExists
    <2>2. n \in Nodes(t) /\ p < n /\ n < y /\ ~ Lies(n) /\ n \in Nat /\ y \in Nat /\ p \in Nat
      BY TreeFacts
    <2>3. n # 1 /\ t.parent[n] \in Nodes(t) /\ t.parent[n] < n /\ t.parent[n] \in Nat
      <3>1. p \in Nat \ {0}
        BY TreeFacts
      <3>2. n # 1
        BY <2>2, <3>1
      <3>3. QED BY <2>2, <3>2, TreeFacts
    <2>4. t.parent[n] >= p
      BY <2>2, TreeFacts
    <2>5. /\ t.end[n] \in Nat /\ t.end[t.parent[n]] \in Nat /\ t.end[n] <= t.end[t.parent[n]]
          /\ \A d \in Nodes(t) : t.end[d] \in Nat
      BY <2>2, <2>3, TreeFacts
    <2>6. CASE t.parent[n] = p
      <3>1. t.end[n] <= t.end[n]
        BY <2>5
      <3>2. QED BY <2>2, <2>6, <3>1
    <2>7. CASE t.parent[n] # p
      <3>1. t.parent[n] \notin Bad
        BY <2>1, <2>2, <2>3
      <3>2. p < t.parent[n] /\ t.parent[n] < y
        BY <2>2, <2>3, <2>4, <2>7
      <3>3. Lies(t.parent[n])
        BY <2>3, <3>1, <3>2
      <3>4. PICK d \in Nodes(t) : t.parent[d] = p /\ d < y /\ t.end[t.parent[n]] <= t.end[d]
        BY <3>3
      <3>5. t.end[n] <= t.end[d]
        BY <2>5, <3>4
      <3>6. QED BY <2>2, <3>4, <3>5
    <2>8. QED BY <2>6, <2>7
  <1>2. x \notin Bad
    BY <1>1
  <1>3. QED BY <1>2

(* A node that begins before an earlier node has ended has its parent there,  *)
(* or below.                                                                  *)
LEMMA ParentIsNotBefore ==
  ASSUME NEW t, IsTree(t), NEW x \in Nodes(t), NEW y \in Nodes(t), x < y, t.start[y] < t.end[x]
  PROVE  y # 1 /\ t.parent[y] \in Nodes(t) /\ t.parent[y] < y /\ t.parent[y] >= x
PROOF
  <1>1. y # 1 /\ x \in Nat \ {0} /\ y \in Nat
    BY TreeFacts
  <1>2. t.parent[y] \in Nodes(t) /\ t.parent[y] < y /\ t.parent[y] \in Nat
    BY <1>1, TreeFacts
  <1>3. ASSUME t.parent[y] < x PROVE FALSE
    <2>1. PICK d \in Nodes(t) : t.parent[d] = t.parent[y] /\ d < y /\ t.end[x] <= t.end[d]
      BY <1>1, <1>3, InASibling
    <2>2. t.end[d] <= t.start[y]
      BY <1>1, <2>1, TreeFacts
    <2>3. t.end[d] \in Nat /\ t.end[x] \in Nat /\ t.start[y] \in Nat
      BY TreeFacts
    <2>4. QED BY <2>1, <2>2, <2>3
  <1>4. QED BY <1>1, <1>2, <1>3

(* So it lies in that node.                                                   *)
LEMMA OverlapsAreNested ==
  ASSUME NEW t, IsTree(t), NEW x \in Nodes(t), NEW y \in Nodes(t), x < y, t.start[y] < t.end[x]
  PROVE  t.start[x] <= t.start[y] /\ t.end[y] <= t.end[x]
PROOF
  <1> DEFINE Bad == {n \in Nodes(t) : x < n /\ t.start[n] < t.end[x]
                                      /\ ~ (t.start[x] <= t.start[n] /\ t.end[n] <= t.end[x])}
  <1>1. ASSUME Bad # {} PROVE FALSE
    <2>1. PICK n \in Bad : \A m \in Bad : n <= m
      <3>1. Bad \in SUBSET Nat
        BY TreeFacts
      <3> HIDE DEF Bad
      <3>2. QED BY <1>1, <3>1, SmallestExists
    <2>2. /\ n \in Nodes(t) /\ x < n /\ t.start[n] < t.end[x]
          /\ ~ (t.start[x] <= t.start[n] /\ t.end[n] <= t.end[x])
      OBVIOUS
    <2>3. PICK p : p = t.parent[n]
      OBVIOUS
    <2>4. n # 1 /\ p \in Nodes(t) /\ p < n /\ p >= x
      BY <2>2, <2>3, ParentIsNotBefore
    <2>5. /\ t.start[p] <= t.start[n] /\ t.end[n] <= t.end[p]
          /\ t.start[p] \in Nat /\ t.start[n] \in Nat /\ t.start[x] \in Nat
          /\ t.end[p] \in Nat /\ t.end[n] \in Nat /\ t.end[x] \in Nat
          /\ n \in Nat /\ p \in Nat /\ x \in Nat
      BY <2>2, <2>3, <2>4, TreeFacts
    <2>6. CASE p = x
      BY <2>2, <2>5, <2>6
    <2>7. CASE p # x
      <3>1. p \notin Bad
        BY <2>1, <2>4, <2>5
      <3>2. x < p /\ t.start[p] < t.end[x]
        BY <2>2, <2>4, <2>5, <2>7
      <3>3. t.start[x] <= t.start[p] /\ t.end[p] <= t.end[x]
        BY <2>4, <3>1, <3>2
      <3>4. QED BY <2>2, <2>5, <3>3
    <2>8. QED BY <2>6, <2>7
  <1>2. y \notin Bad
    BY <1>1
  <1>3. QED BY <1>2
-----------------------------------------------------------------------------
(* The nodes that are copied.                                                 *)
CopiedIn(t) ==
  UNION {S \in SUBSET Nodes(t) : \A n \in S : n = 1 \/ (t.listed[n] /\ t.parent[n] \in S)}

LEMMA CopiedFacts ==
  ASSUME NEW t, IsTree(t)
  PROVE  /\ CopiedIn(t) \subseteq Nodes(t) /\ 1 \in CopiedIn(t)
         /\ \A n \in CopiedIn(t) : n # 1 => t.listed[n] /\ t.parent[n] \in CopiedIn(t)
         /\ \A n \in Nodes(t) : t.listed[n] /\ t.parent[n] \in CopiedIn(t) => n \in CopiedIn(t)
PROOF
  <1> DEFINE Grows(S) == \A n \in S : n = 1 \/ (t.listed[n] /\ t.parent[n] \in S)
  <1>1. CopiedIn(t) = UNION {S \in SUBSET Nodes(t) : Grows(S)}
    BY DEF CopiedIn
  <1>2. CopiedIn(t) \subseteq Nodes(t)
    BY <1>1
  <1>3. 1 \in CopiedIn(t)
    <2>1. {1} \in SUBSET Nodes(t) /\ Grows({1})
      BY TreeFacts
    <2> HIDE DEF Grows
    <2>2. QED BY <1>1, <2>1
  <1>4. Grows(CopiedIn(t))
    <2>1. ASSUME NEW n \in CopiedIn(t), n # 1 PROVE t.listed[n] /\ t.parent[n] \in CopiedIn(t)
      <3>1. PICK S \in SUBSET Nodes(t) : Grows(S) /\ n \in S
        BY <1>1
      <3>2. t.listed[n] /\ t.parent[n] \in S
        BY <2>1, <3>1
      <3>3. S \subseteq CopiedIn(t)
        <4> HIDE DEF Grows
        <4>1. QED BY <1>1, <3>1
      <3>4. QED BY <3>2, <3>3
    <2>2. QED BY <2>1
  <1>5. ASSUME NEW n \in Nodes(t), t.listed[n], t.parent[n] \in CopiedIn(t)
        PROVE  n \in CopiedIn(t)
    <2>1. PICK S : S = CopiedIn(t) \union {n}
      OBVIOUS
    <2>2. S \in SUBSET Nodes(t) /\ Grows(S)
      BY <1>2, <1>4, <1>5, <2>1
    <2> HIDE DEF Grows
    <2>3. S \subseteq CopiedIn(t)
      BY <1>1, <2>2
    <2>4. QED BY <2>1, <2>3
  <1>6. QED BY <1>2, <1>3, <1>4, <1>5

(* Ids are given by the place among the siblings.                             *)
BeforeIn(S, n) == {c \in S : c < n}
SpanIn(t, n) == <<t.start[n], t.end[n]>>
IdIn(t, n) ==
  <<t.start[n], t.end[n], t.kind[n], Cardinality(BeforeIn(ChildrenIn(t, t.parent[n]), n))>>
ParentIdIn(t, n) == IF n = 1 THEN None ELSE IdIn(t, t.parent[n])
IdsIn(t) == {IdIn(t, n) : n \in Nodes(t)}

(* A list of the ids of a set of nodes, in their order.                       *)
ListsInOrder(t, list, S) ==
  /\ Len(list) = Cardinality(S)
  /\ \A c \in S : list[Cardinality(BeforeIn(S, c)) + 1] = IdIn(t, c)

LEMMA OneMoreListed ==
  ASSUME NEW t, IsTree(t), NEW S \in SUBSET Nodes(t), NEW c \in Nodes(t), \A d \in S : d < c,
         NEW list \in Seq(IdsIn(t)), ListsInOrder(t, list, S)
  PROVE  ListsInOrder(t, Append(list, IdIn(t, c)), S \union {c})
PROOF
  <1>1. IsFiniteSet(S) /\ Cardinality(S) \in Nat
    BY TreeFacts, FS_Subset, FS_CardinalityType
  <1>2. c \notin S /\ \A d \in S : d \in Nat /\ c \in Nat
    BY TreeFacts
  <1>3. Cardinality(S \union {c}) = Cardinality(S) + 1
    BY <1>1, <1>2, FS_AddElement
  <1>4. PICK more : more = Append(list, IdIn(t, c))
    OBVIOUS
  <1>5. /\ Len(list) = Cardinality(S) /\ IdIn(t, c) \in IdsIn(t)
        /\ Len(more) = Len(list) + 1 /\ more[Len(list) + 1] = IdIn(t, c)
        /\ \A i \in 1..Len(list) : more[i] = list[i]
    BY <1>4 DEF ListsInOrder, IdsIn
  <1>6. ASSUME NEW d \in S
        PROVE  more[Cardinality(BeforeIn(S \union {c}, d)) + 1] = IdIn(t, d)
    <2>1. BeforeIn(S \union {c}, d) = BeforeIn(S, d)
      BY <1>2 DEF BeforeIn
    <2>2. BeforeIn(S, d) \subseteq S \ {d}
      BY <1>2 DEF BeforeIn
    <2>3. IsFiniteSet(S \ {d}) /\ Cardinality(S \ {d}) = Cardinality(S) - 1
      BY <1>1, FS_RemoveElement
    <2>4. Cardinality(BeforeIn(S, d)) \in Nat /\ Cardinality(BeforeIn(S, d)) <= Cardinality(S) - 1
      BY <2>2, <2>3, FS_Subset, FS_CardinalityType
    <2>5. Cardinality(BeforeIn(S, d)) + 1 \in 1..Len(list)
      BY <1>1, <1>5, <2>4
    <2>6. list[Cardinality(BeforeIn(S, d)) + 1] = IdIn(t, d)
      BY DEF ListsInOrder
    <2>7. QED BY <1>5, <2>1, <2>5, <2>6
  <1>7. more[Cardinality(BeforeIn(S \union {c}, c)) + 1] = IdIn(t, c)
    <2>1. BeforeIn(S \union {c}, c) = S
      BY <1>2, TreeFacts DEF BeforeIn
    <2>2. QED BY <1>5, <2>1
  <1>8. Len(more) = Cardinality(S \union {c})
    BY <1>1, <1>3, <1>5
  <1>9. \A d \in S \union {c} : more[Cardinality(BeforeIn(S \union {c}, d)) + 1] = IdIn(t, d)
    BY <1>6, <1>7
  <1>10. QED BY <1>4, <1>8, <1>9 DEF ListsInOrder
-----------------------------------------------------------------------------
(* The recursion of the walk: the frames, and who was pushed, in their order. *)
NodeFrames(t) ==
  [node : Nodes(t), id : IdsIn(t), parent : IdsIn(t) \union {None},
   passed : SUBSET Nodes(t), children : Seq(IdsIn(t))]

LeftIn(t, f) == ChildrenIn(t, f.node) \ f.passed

NodeFrameStands(t, f) ==
  /\ f.node \in CopiedIn(t) /\ f.id = IdIn(t, f.node) /\ f.parent = ParentIdIn(t, f.node)
  /\ f.passed \subseteq ChildrenIn(t, f.node)
  /\ \A p \in f.passed, c \in LeftIn(t, f) : p < c
  /\ ListsInOrder(t, f.children, f.passed \intersect CopiedIn(t))

Entered(stack, who) == {stack[j].node : j \in DOMAIN stack} \union {who[i] : i \in DOMAIN who}

(* A child that was passed was pushed, or is the next frame; a child that is  *)
(* left comes after all that were entered.                                    *)
RecursionStands(t, stack, who) ==
  /\ stack \in Seq(NodeFrames(t)) /\ \A j \in DOMAIN stack : NodeFrameStands(t, stack[j])
  /\ \A j, k \in DOMAIN stack : j < k => stack[j].node < stack[k].node
  /\ \A j \in DOMAIN stack : \A c \in stack[j].passed \intersect CopiedIn(t) :
       (\E i \in DOMAIN who : c = who[i]) \/ (j + 1 \in DOMAIN stack /\ c = stack[j + 1].node)
  /\ \A x \in Entered(stack, who) : \A j \in DOMAIN stack : \A c \in LeftIn(t, stack[j]) : x < c
  /\ 1 \in Entered(stack, who)

(* Each copy is that of one node, and follows those of its children.          *)
CopyStands(t, copy, n) ==
  /\ copy.id = IdIn(t, n) /\ copy.parent = ParentIdIn(t, n)
  /\ copy.start = t.start[n] /\ copy.end = t.end[n]
  /\ ListsInOrder(t, copy.children, ChildrenIn(t, n) \intersect CopiedIn(t))

CopiesStand(t, stack, copies, who) ==
  /\ IsList(copies) /\ who \in Seq(CopiedIn(t)) /\ Len(copies) = Len(who)
  /\ \A i \in DOMAIN who : CopyStands(t, copies[i], who[i])
  /\ \A i, k \in DOMAIN who : who[i] = who[k] => i = k
  /\ \A i \in DOMAIN who, j \in DOMAIN stack : who[i] # stack[j].node
  /\ \A i \in DOMAIN who : \A c \in ChildrenIn(t, who[i]) \intersect CopiedIn(t) :
       \E k \in DOMAIN who : k < i /\ who[k] = c

(* A span has the id of the last node that was entered with it.               *)
SpansStand(t, entered, ids) ==
  /\ DOMAIN ids = {SpanIn(t, x) : x \in entered}
  /\ \A x \in entered : (\A y \in entered : SpanIn(t, y) = SpanIn(t, x) => y <= x)
       => ids[SpanIn(t, x)] = IdIn(t, x)

WalkIs(t, stack, ids, copies, who) ==
  /\ RecursionStands(t, stack, who)
  /\ CopiesStand(t, stack, copies, who)
  /\ SpansStand(t, Entered(stack, who), ids)
-----------------------------------------------------------------------------
LEMMA TopFacts ==
  ASSUME NEW t, NEW stack, NEW who, IsTree(t), RecursionStands(t, stack, who), stack # <<>>,
         NEW top, top = stack[Len(stack)]
  PROVE  /\ Len(stack) \in DOMAIN stack /\ DOMAIN stack = 1..Len(stack) /\ Len(stack) \in Nat
         /\ top \in NodeFrames(t) /\ NodeFrameStands(t, top)
         /\ top.node \in CopiedIn(t) /\ top.node \in Nodes(t) /\ top.node \in Nat
         /\ top.node \in Entered(stack, who)
         /\ \A x \in Entered(stack, who) : \A c \in LeftIn(t, top) : x < c
PROOF
  <1>1. stack \in Seq(NodeFrames(t)) /\ \A j \in DOMAIN stack : NodeFrameStands(t, stack[j])
    BY DEF RecursionStands
  <1>2. Len(stack) \in DOMAIN stack /\ DOMAIN stack = 1..Len(stack) /\ Len(stack) \in Nat
    BY <1>1, EmptySeq
  <1>3. top \in NodeFrames(t) /\ NodeFrameStands(t, top)
    BY <1>1, <1>2
  <1>4. top.node \in CopiedIn(t)
    BY <1>3 DEF NodeFrameStands
  <1>5. top.node \in Nodes(t) /\ top.node \in Nat
    BY <1>4, CopiedFacts, TreeFacts
  <1>6. top.node \in Entered(stack, who)
    BY <1>2 DEF Entered
  <1>7. \A x \in Entered(stack, who) : \A c \in LeftIn(t, top) : x < c
    BY <1>2 DEF RecursionStands
  <1>8. QED BY <1>2, <1>3, <1>4, <1>5, <1>6, <1>7

(* The frame on top goes on, at the same node.                                *)
LEMMA TopGoesOn ==
  ASSUME NEW S, NEW stack, NEW top, NEW more, stack \in Seq(S), stack # <<>>, top \in S,
         more = [j \in DOMAIN stack |-> IF j = Len(stack) THEN top ELSE stack[j]]
  PROVE  /\ more \in Seq(S) /\ Len(more) = Len(stack) /\ DOMAIN more = DOMAIN stack
         /\ more[Len(stack)] = top
         /\ \A j \in DOMAIN stack : j # Len(stack) => more[j] = stack[j]
PROOF
  <1>1. PICK n \in Nat : n = Len(stack)
    OBVIOUS
  <1>2. n \in 1..n /\ stack \in [1..n -> S] /\ DOMAIN stack = 1..n
    BY <1>1, EmptySeq
  <1>3. more \in [1..n -> S]
    BY <1>1, <1>2
  <1>4. more \in Seq(S) /\ Len(more) = n
    BY <1>1, <1>3
  <1>5. QED BY <1>1, <1>2, <1>4

LEMMA PassStands ==
  ASSUME NEW t, NEW stack, NEW ids, NEW copies, NEW who, IsTree(t),
         WalkIs(t, stack, ids, copies, who), stack # <<>>,
         NEW top, top = stack[Len(stack)],
         NEW c \in LeftIn(t, top), \A d \in LeftIn(t, top) : c <= d, ~ t.listed[c],
         NEW passing, passing = [top EXCEPT !.passed = @ \union {c}],
         NEW more, more = [stack EXCEPT ![Len(stack)] = passing]
  PROVE  WalkIs(t, more, ids, copies, who)
PROOF
  <1> DEFINE n == Len(stack)
  <1>0. RecursionStands(t, stack, who) /\ CopiesStand(t, stack, copies, who)
        /\ SpansStand(t, Entered(stack, who), ids)
    BY DEF WalkIs
  <1>1. /\ n \in DOMAIN stack /\ DOMAIN stack = 1..n /\ n \in Nat
        /\ top \in NodeFrames(t) /\ NodeFrameStands(t, top)
        /\ \A x \in Entered(stack, who) : \A d \in LeftIn(t, top) : x < d
    BY <1>0, TopFacts
  <1>2. c \in ChildrenIn(t, top.node) /\ c \notin top.passed /\ c \in Nodes(t)
    BY DEF LeftIn, ChildrenIn
  <1>3. c \notin CopiedIn(t)
    <2>1. c # 1
      BY <1>1, <1>2, TreeFacts DEF ChildrenIn, NodeFrames
    <2>2. QED BY <2>1, CopiedFacts
  <1>4. /\ passing \in NodeFrames(t) /\ passing.node = top.node /\ passing.id = top.id
        /\ passing.parent = top.parent /\ passing.children = top.children
        /\ passing.passed = top.passed \union {c}
    BY <1>1, <1>2 DEF NodeFrames
  <1>5. LeftIn(t, passing) = LeftIn(t, top) \ {c}
    BY <1>4 DEF LeftIn
  <1>6. passing.passed \intersect CopiedIn(t) = top.passed \intersect CopiedIn(t)
    BY <1>3, <1>4
  <1>7. NodeFrameStands(t, passing)
    <2>1. passing.passed \subseteq ChildrenIn(t, passing.node)
      BY <1>1, <1>2, <1>4 DEF NodeFrameStands
    <2>2. ASSUME NEW p \in passing.passed, NEW d \in LeftIn(t, passing) PROVE p < d
      <3>1. d \in LeftIn(t, top) /\ d # c /\ c \in Nat /\ d \in Nat
        BY <1>2, <1>5, TreeFacts DEF LeftIn, ChildrenIn
      <3>2. CASE p = c
        BY <3>1, <3>2
      <3>3. CASE p # c
        BY <1>1, <1>4, <3>1, <3>3 DEF NodeFrameStands
      <3>4. QED BY <3>2, <3>3
    <2>3. QED BY <1>1, <1>4, <1>6, <2>1, <2>2 DEF NodeFrameStands
  <1>8. stack \in Seq(NodeFrames(t))
    BY <1>0 DEF RecursionStands
  <1>9. /\ more \in Seq(NodeFrames(t)) /\ Len(more) = n /\ DOMAIN more = DOMAIN stack
        /\ more[n] = passing /\ \A j \in DOMAIN stack : j # n => more[j] = stack[j]
    <2>1. stack = [j \in 1..n |-> stack[j]]
      BY <1>1, <1>8
    <2>2. more = [j \in DOMAIN stack |-> IF j = n THEN passing ELSE stack[j]]
      BY <1>1, <2>1
    <2>3. PICK S : S = NodeFrames(t)
      OBVIOUS
    <2>4. stack \in Seq(S) /\ passing \in S
      BY <1>4, <1>8, <2>3
    <2>5. more = [j \in DOMAIN stack |-> IF j = Len(stack) THEN passing ELSE stack[j]]
      BY <2>2
    <2> HIDE DEF n
    <2>6. more \in Seq(S) /\ Len(more) = Len(stack) /\ DOMAIN more = DOMAIN stack
      BY <2>4, <2>5, TopGoesOn
    <2>7. /\ more[Len(stack)] = passing
          /\ \A j \in DOMAIN stack : j # Len(stack) => more[j] = stack[j]
      BY <1>1, <2>5 DEF n
    <2>8. QED BY <2>3, <2>6, <2>7 DEF n
  <1>10. \A j \in DOMAIN stack : more[j].node = stack[j].node
    BY <1>1, <1>4, <1>9
  <1>11. /\ \A j \in DOMAIN stack : LeftIn(t, more[j]) \subseteq LeftIn(t, stack[j])
         /\ \A j \in DOMAIN stack :
              more[j].passed \intersect CopiedIn(t) = stack[j].passed \intersect CopiedIn(t)
         /\ \A j \in DOMAIN stack : NodeFrameStands(t, more[j])
    BY <1>0, <1>1, <1>5, <1>6, <1>7, <1>9 DEF RecursionStands
  <1>12. Entered(more, who) = Entered(stack, who)
    BY <1>9, <1>10 DEF Entered
  <1>13. RecursionStands(t, more, who)
    <2>1. \A j, k \in DOMAIN more : j < k => more[j].node < more[k].node
      BY <1>0, <1>9, <1>10 DEF RecursionStands
    <2>2. ASSUME NEW j \in DOMAIN more, NEW d \in more[j].passed \intersect CopiedIn(t)
          PROVE  (\E i \in DOMAIN who : d = who[i]) \/ (j + 1 \in DOMAIN more /\ d = more[j + 1].node)
      <3>1. d \in stack[j].passed \intersect CopiedIn(t)
        BY <1>9, <1>11
      <3>2. (\E i \in DOMAIN who : d = who[i]) \/ (j + 1 \in DOMAIN stack /\ d = stack[j + 1].node)
        BY <1>0, <1>9, <3>1 DEF RecursionStands
      <3>3. QED BY <1>9, <1>10, <3>2
    <2>3. \A x \in Entered(more, who) : \A j \in DOMAIN more : \A d \in LeftIn(t, more[j]) : x < d
      BY <1>0, <1>9, <1>11, <1>12 DEF RecursionStands
    <2>4. 1 \in Entered(more, who)
      BY <1>0, <1>12 DEF RecursionStands
    <2>5. QED BY <1>9, <1>11, <2>1, <2>2, <2>3, <2>4 DEF RecursionStands
  <1>14. CopiesStand(t, more, copies, who)
    BY <1>0, <1>9, <1>10 DEF CopiesStand
  <1>15. QED BY <1>0, <1>12, <1>13, <1>14 DEF WalkIs

(* A child that is passed and entered, and the id its span is given.          *)
Enters(t, stack, c, more) ==
  LET top == stack[Len(stack)] IN
  /\ c \in LeftIn(t, top) /\ (\A d \in LeftIn(t, top) : c <= d) /\ t.listed[c]
  /\ more = [j \in DOMAIN more |-> more[j]] /\ DOMAIN more = 1..(Len(stack) + 1)
  /\ more[Len(stack)] = [top EXCEPT !.passed = @ \union {c}, !.children = Append(@, IdIn(t, c))]
  /\ more[Len(stack) + 1] =
       [node |-> c, id |-> IdIn(t, c), parent |-> top.id, passed |-> {}, children |-> <<>>]
  /\ \A j \in DOMAIN stack : j # Len(stack) => more[j] = stack[j]

Gives(t, ids, c, given) ==
  given = [s \in DOMAIN ids \union {SpanIn(t, c)} |-> IF s = SpanIn(t, c) THEN IdIn(t, c) ELSE ids[s]]

LEMMA EnterStands ==
  ASSUME NEW t, NEW stack, NEW ids, NEW copies, NEW who, IsTree(t),
         WalkIs(t, stack, ids, copies, who), stack # <<>>,
         NEW c, NEW more, NEW given, Enters(t, stack, c, more), Gives(t, ids, c, given)
  PROVE  WalkIs(t, more, given, copies, who)
PROOF
  <1> PICK top, passing, entering :
        /\ top = stack[Len(stack)]
        /\ passing = [top EXCEPT !.passed = @ \union {c}, !.children = Append(@, IdIn(t, c))]
        /\ entering = [node |-> c, id |-> IdIn(t, c), parent |-> top.id, passed |-> {}, children |-> <<>>]
    OBVIOUS
  <1> c \in LeftIn(t, top) /\ (\A d \in LeftIn(t, top) : c <= d) /\ t.listed[c]
    BY DEF Enters
  <1> /\ more = [j \in DOMAIN more |-> more[j]] /\ DOMAIN more = 1..(Len(stack) + 1)
      /\ more[Len(stack)] = passing /\ more[Len(stack) + 1] = entering
      /\ \A j \in DOMAIN stack : j # Len(stack) => more[j] = stack[j]
    BY DEF Enters
  <1> given = [s \in DOMAIN ids \union {SpanIn(t, c)} |-> IF s = SpanIn(t, c) THEN IdIn(t, c) ELSE ids[s]]
    BY DEF Gives
  <1> DEFINE n == Len(stack)
  <1>0. RecursionStands(t, stack, who) /\ CopiesStand(t, stack, copies, who)
        /\ SpansStand(t, Entered(stack, who), ids)
    BY DEF WalkIs
  <1>1. /\ n \in DOMAIN stack /\ DOMAIN stack = 1..n /\ n \in Nat
        /\ top \in NodeFrames(t) /\ NodeFrameStands(t, top)
        /\ top.node \in CopiedIn(t) /\ top.node \in Nodes(t) /\ top.node \in Nat
        /\ top.node \in Entered(stack, who)
        /\ \A x \in Entered(stack, who) : \A d \in LeftIn(t, top) : x < d
    BY <1>0, TopFacts
  <1>2. /\ c \in ChildrenIn(t, top.node) /\ c \notin top.passed /\ c \in Nodes(t)
        /\ t.parent[c] = top.node /\ c \in Nat /\ c # 1
    BY <1>1, TreeFacts DEF LeftIn, ChildrenIn
  <1>3. c \in CopiedIn(t)
    BY <1>1, <1>2, CopiedFacts
  <1>4. IdIn(t, c) \in IdsIn(t)
    BY <1>2 DEF IdsIn
  <1>5. /\ passing.node = top.node /\ passing.id = top.id /\ passing.parent = top.parent
        /\ passing.children = Append(top.children, IdIn(t, c))
        /\ passing.passed = top.passed \union {c}
        /\ passing \in NodeFrames(t)
    <2>1. top \in NodeFrames(t) /\ top.passed \in SUBSET Nodes(t) /\ top.children \in Seq(IdsIn(t))
      BY <1>1 DEF NodeFrames
    <2>2. top.passed \union {c} \in SUBSET Nodes(t)
      BY <1>2, <2>1
    <2>3. Append(top.children, IdIn(t, c)) \in Seq(IdsIn(t))
      BY <1>4, <2>1
    <2>4. top = [node |-> top.node, id |-> top.id, parent |-> top.parent,
                 passed |-> top.passed, children |-> top.children]
      BY <2>1 DEF NodeFrames
    <2>5. /\ passing.node = top.node /\ passing.id = top.id /\ passing.parent = top.parent
          /\ passing.children = Append(top.children, IdIn(t, c))
          /\ passing.passed = top.passed \union {c}
      BY <2>4
    <2>6. passing = [node |-> passing.node, id |-> passing.id, parent |-> passing.parent,
                     passed |-> passing.passed, children |-> passing.children]
      BY <2>4
    <2>7. /\ passing.node \in Nodes(t) /\ passing.id \in IdsIn(t)
          /\ passing.parent \in IdsIn(t) \union {None}
      BY <2>1, <2>5 DEF NodeFrames
    <2>8. passing.passed \in SUBSET Nodes(t) /\ passing.children \in Seq(IdsIn(t))
      BY <2>2, <2>3, <2>5
    <2>9. passing \in NodeFrames(t)
      BY <2>6, <2>7, <2>8 DEF NodeFrames
    <2>10. QED BY <2>5, <2>9
  <1>6. LeftIn(t, passing) = LeftIn(t, top) \ {c}
    BY <1>5 DEF LeftIn
  <1>7. NodeFrameStands(t, passing)
    <2>1. passing.passed \subseteq ChildrenIn(t, passing.node)
      BY <1>1, <1>2, <1>5 DEF NodeFrameStands
    <2>2. ASSUME NEW p \in passing.passed, NEW d \in LeftIn(t, passing) PROVE p < d
      <3>1. d \in LeftIn(t, top) /\ d # c /\ c \in Nat /\ d \in Nat
        BY <1>2, <1>6, TreeFacts DEF LeftIn, ChildrenIn
      <3>2. CASE p = c
        BY <3>1, <3>2
      <3>3. CASE p # c
        BY <1>1, <1>5, <3>1, <3>3 DEF NodeFrameStands
      <3>4. QED BY <3>2, <3>3
    <2>3. ListsInOrder(t, passing.children, passing.passed \intersect CopiedIn(t))
      <3>1. PICK S : S = top.passed \intersect CopiedIn(t)
        OBVIOUS
      <3>2. PICK list : list = top.children
        OBVIOUS
      <3>3. S \in SUBSET Nodes(t) /\ list \in Seq(IdsIn(t)) /\ ListsInOrder(t, list, S)
        BY <1>1, <3>1, <3>2 DEF NodeFrames, NodeFrameStands
      <3>4. \A d \in S : d < c
        BY <1>1, <3>1 DEF NodeFrameStands
      <3>5. ListsInOrder(t, Append(list, IdIn(t, c)), S \union {c})
        BY <1>2, <3>3, <3>4, OneMoreListed
      <3>6. passing.passed \intersect CopiedIn(t) = S \union {c}
        BY <1>3, <1>5, <3>1
      <3>7. QED BY <1>5, <3>2, <3>5, <3>6
    <2>4. QED BY <1>1, <1>5, <2>1, <2>2, <2>3 DEF NodeFrameStands
  <1>8. /\ entering.node = c /\ entering.id = IdIn(t, c) /\ entering.parent = top.id
        /\ entering.passed = {} /\ entering.children = <<>> /\ entering \in NodeFrames(t)
    <2>1. top.id \in IdsIn(t)
      BY <1>1 DEF NodeFrames
    <2>2. QED BY <1>2, <1>4, <2>1 DEF NodeFrames
  <1>9. NodeFrameStands(t, entering)
    <2>1. entering.parent = ParentIdIn(t, c)
      BY <1>1, <1>2, <1>8 DEF NodeFrameStands, ParentIdIn
    <2>2. ListsInOrder(t, <<>>, {})
      BY FS_EmptySet DEF ListsInOrder
    <2>3. entering.passed \intersect CopiedIn(t) = {}
      BY <1>8
    <2>4. QED BY <1>3, <1>8, <2>1, <2>2, <2>3 DEF NodeFrameStands
  <1>10. stack \in Seq(NodeFrames(t))
    BY <1>0 DEF RecursionStands
  <1>11. /\ more \in Seq(NodeFrames(t)) /\ DOMAIN more = 1..(n + 1)
         /\ more[n] = passing /\ more[n + 1] = entering
         /\ \A j \in DOMAIN stack : j # n => more[j] = stack[j]
    <2>1. \A j \in 1..(n + 1) : j = n \/ j = n + 1 \/ j \in 1..n
      BY <1>1
    <2>2. \A j \in 1..n : stack[j] \in NodeFrames(t)
      BY <1>1, <1>10
    <2>3. \A j \in DOMAIN more : more[j] \in NodeFrames(t)
      BY <1>1, <1>5, <1>8, <2>1, <2>2
    <2>4. more \in [1..(n + 1) -> NodeFrames(t)]
      BY <2>3
    <2>5. QED BY <1>1, <2>4
  <1>12. DOMAIN more = DOMAIN stack \union {n + 1} /\ n + 1 \notin DOMAIN stack
    BY <1>1, <1>11
  <1>13. \A j \in DOMAIN stack : more[j].node = stack[j].node
    BY <1>1, <1>5, <1>11
  <1>14. /\ \A j \in DOMAIN stack : LeftIn(t, more[j]) \subseteq LeftIn(t, stack[j])
         /\ \A j \in DOMAIN more : NodeFrameStands(t, more[j])
    BY <1>0, <1>1, <1>6, <1>7, <1>9, <1>11, <1>12 DEF RecursionStands
  <1>15. Entered(more, who) = Entered(stack, who) \union {c}
    <2>1. {more[j].node : j \in DOMAIN more} = {stack[j].node : j \in DOMAIN stack} \union {c}
      BY <1>8, <1>11, <1>12, <1>13
    <2>2. QED BY <2>1 DEF Entered
  <1>16. /\ \A x \in Entered(stack, who) : x < c
         /\ \A j \in DOMAIN stack : stack[j].node \in Entered(stack, who)
         /\ \A i \in DOMAIN who : who[i] \in Entered(stack, who)
    BY <1>1 DEF Entered
  <1>17. \A x \in Entered(stack, who) : x \in Nat
    <2>1. \A k \in DOMAIN stack : stack[k].node \in Nat
      BY <1>0, CopiedFacts, TreeFacts DEF RecursionStands, NodeFrameStands
    <2>2. \A i \in DOMAIN who : who[i] \in CopiedIn(t)
      BY <1>0 DEF CopiesStand
    <2>3. \A i \in DOMAIN who : who[i] \in Nat
      BY <2>2, CopiedFacts, TreeFacts
    <2>4. QED BY <2>1, <2>3 DEF Entered
  <1>18. RecursionStands(t, more, who)
    <2>1. ASSUME NEW j \in DOMAIN more, NEW k \in DOMAIN more, j < k
          PROVE  more[j].node < more[k].node
      <3>1. j \in DOMAIN stack
        BY <1>1, <1>11, <2>1
      <3>2. CASE k = n + 1
        BY <1>8, <1>11, <1>13, <1>16, <3>1, <3>2
      <3>3. CASE k # n + 1
        BY <1>0, <1>12, <1>13, <2>1, <3>1, <3>3 DEF RecursionStands
      <3>4. QED BY <3>2, <3>3
    <2>2. ASSUME NEW j \in DOMAIN more, NEW d \in more[j].passed \intersect CopiedIn(t)
          PROVE  (\E i \in DOMAIN who : d = who[i]) \/ (j + 1 \in DOMAIN more /\ d = more[j + 1].node)
      <3>1. CASE j = n + 1
        BY <1>8, <1>11, <3>1
      <3>2. CASE j = n
        <4>1. d = c \/ d \in stack[n].passed \intersect CopiedIn(t)
          BY <1>5, <1>11, <3>2
        <4>2. d # c => \E i \in DOMAIN who : d = who[i]
          BY <1>0, <1>1, <1>12, <4>1 DEF RecursionStands
        <4>3. d = c => j + 1 \in DOMAIN more /\ d = more[j + 1].node
          BY <1>8, <1>11, <1>12, <3>2
        <4>4. QED BY <4>2, <4>3
      <3>3. CASE j # n + 1 /\ j # n
        <4>1. j \in DOMAIN stack /\ d \in stack[j].passed \intersect CopiedIn(t)
          BY <1>11, <1>12, <3>3
        <4>2. (\E i \in DOMAIN who : d = who[i]) \/ (j + 1 \in DOMAIN stack /\ d = stack[j + 1].node)
          BY <1>0, <4>1 DEF RecursionStands
        <4>3. QED BY <1>12, <1>13, <4>2
      <3>4. QED BY <3>1, <3>2, <3>3
    <2>3. ASSUME NEW x \in Entered(more, who), NEW j \in DOMAIN more, NEW d \in LeftIn(t, more[j])
          PROVE  x < d
      <3>0. d \in Nodes(t) /\ t.parent[d] = more[j].node /\ d \in Nat
        BY TreeFacts DEF LeftIn, ChildrenIn
      <3>1. c < d
        <4>1. CASE j = n + 1
          <5>1. t.parent[d] = c /\ d # 1
            BY <1>2, <1>8, <1>11, <3>0, <4>1, TreeFacts
          <5>2. QED BY <3>0, <5>1, TreeFacts
        <4>2. CASE j = n
          BY <1>2, <1>6, <1>11, <3>0, <4>2
        <4>3. CASE j # n + 1 /\ j # n
          <5>1. j \in DOMAIN stack /\ j < n
            BY <1>1, <1>12, <4>3
          <5>2. stack[j].node < top.node /\ t.parent[d] = stack[j].node
            BY <1>0, <1>1, <1>13, <3>0, <5>1 DEF RecursionStands
          <5>3. top.node < d
            BY <1>0, <1>1, <1>14, <5>1 DEF RecursionStands
          <5>4. t.parent[d] \in Nat
            BY <3>0, TreeFacts
          <5>5. ASSUME d < c PROVE FALSE
            <6>1. t.parent[d] >= t.parent[c]
              BY <1>2, <3>0, <5>3, <5>5, TreeFacts
            <6>2. QED BY <1>1, <1>2, <5>2, <5>4, <6>1
          <5>6. d # c
            BY <1>1, <1>2, <5>2, <5>4
          <5>7. QED BY <1>2, <3>0, <5>5, <5>6
        <4>4. QED BY <4>1, <4>2, <4>3
      <3>2. x = c \/ (x \in Nat /\ x < c)
        BY <1>15, <1>16, <1>17
      <3>3. QED BY <1>2, <3>0, <3>1, <3>2
    <2>4. 1 \in Entered(more, who)
      BY <1>0, <1>15 DEF RecursionStands
    <2>5. QED BY <1>11, <1>14, <2>1, <2>2, <2>3, <2>4 DEF RecursionStands
  <1>19. CopiesStand(t, more, copies, who)
    <2>1. ASSUME NEW i \in DOMAIN who, NEW j \in DOMAIN more PROVE who[i] # more[j].node
      <3>1. CASE j = n + 1
        BY <1>2, <1>8, <1>11, <1>16, <3>1
      <3>2. CASE j # n + 1
        BY <1>0, <1>12, <1>13, <3>2 DEF CopiesStand
      <3>3. QED BY <3>1, <3>2
    <2>2. QED BY <1>0, <2>1 DEF CopiesStand
  <1>20. SpansStand(t, Entered(more, who), given)
    <2>1. DOMAIN given = {SpanIn(t, x) : x \in Entered(more, who)}
      BY <1>0, <1>15 DEF SpansStand
    <2>2. ASSUME NEW x \in Entered(more, who),
                 \A y \in Entered(more, who) : SpanIn(t, y) = SpanIn(t, x) => y <= x
          PROVE  given[SpanIn(t, x)] = IdIn(t, x)
      <3>1. CASE x = c
        BY <3>1
      <3>2. CASE x # c
        <4>1. x \in Entered(stack, who) /\ x < c
          BY <1>15, <1>16, <3>2
        <4>2. ~ (c <= x)
          <5>1. x \in Nat
            BY <1>17, <4>1
          <5>2. QED BY <1>2, <4>1, <5>1
        <4>3. SpanIn(t, c) # SpanIn(t, x)
          BY <1>15, <2>2, <4>2
        <4>4. ids[SpanIn(t, x)] = IdIn(t, x) /\ SpanIn(t, x) \in DOMAIN ids
          BY <1>0, <1>15, <2>2, <4>1 DEF SpansStand
        <4>5. QED BY <4>3, <4>4
      <3>3. QED BY <3>1, <3>2
    <2>3. QED BY <2>1, <2>2 DEF SpansStand
  <1>21. QED BY <1>18, <1>19, <1>20 DEF WalkIs

(* A node whose children were all passed is pushed.                           *)
Leaves(t, stack, less) ==
  /\ LeftIn(t, stack[Len(stack)]) = {}
  /\ less \in Seq(NodeFrames(t)) /\ DOMAIN less = 1..(Len(stack) - 1)
  /\ \A j \in 1..(Len(stack) - 1) : less[j] = stack[j]

Pushes(t, top, copies, more) ==
  LET copy == more[Len(copies) + 1] IN
  /\ IsList(more) /\ Len(more) = Len(copies) + 1
  /\ \A i \in 1..Len(copies) : more[i] = copies[i]
  /\ copy.id = top.id /\ copy.parent = top.parent /\ copy.children = top.children
  /\ copy.start = t.start[top.node] /\ copy.end = t.end[top.node]

LEMMA PushNodeStands ==
  ASSUME NEW t, NEW stack, NEW ids, NEW copies, NEW who, IsTree(t),
         WalkIs(t, stack, ids, copies, who), stack # <<>>,
         NEW less, Leaves(t, stack, less), NEW more, Pushes(t, stack[Len(stack)], copies, more)
  PROVE  WalkIs(t, less, ids, more, Append(who, stack[Len(stack)].node))
PROOF
  <1> PICK top, copy, pushed :
        top = stack[Len(stack)] /\ copy = more[Len(copies) + 1] /\ pushed = Append(who, top.node)
    OBVIOUS
  <1> Len(copies) = Len(who)
    BY DEF WalkIs, CopiesStand
  <1> /\ LeftIn(t, top) = {} /\ less \in Seq(NodeFrames(t)) /\ DOMAIN less = 1..(Len(stack) - 1)
      /\ \A j \in 1..(Len(stack) - 1) : less[j] = stack[j]
    BY DEF Leaves
  <1> /\ copy.id = top.id /\ copy.parent = top.parent /\ copy.children = top.children
      /\ copy.start = t.start[top.node] /\ copy.end = t.end[top.node]
      /\ IsList(more) /\ Len(more) = Len(who) + 1 /\ more[Len(who) + 1] = copy
      /\ \A i \in 1..Len(who) : more[i] = copies[i]
    BY DEF Pushes
  <1> DEFINE n == Len(stack)
             m == Len(who)
  <1>0. RecursionStands(t, stack, who) /\ CopiesStand(t, stack, copies, who)
        /\ SpansStand(t, Entered(stack, who), ids)
    BY DEF WalkIs
  <1>1. /\ n \in DOMAIN stack /\ DOMAIN stack = 1..n /\ n \in Nat
        /\ top \in NodeFrames(t) /\ NodeFrameStands(t, top)
        /\ top.node \in CopiedIn(t)
    BY <1>0, TopFacts
  <1>2. stack \in Seq(NodeFrames(t)) /\ who \in Seq(CopiedIn(t)) /\ IsList(copies) /\ Len(copies) = Len(who)
    BY <1>0 DEF RecursionStands, CopiesStand
  <1>3. /\ less \in Seq(NodeFrames(t)) /\ DOMAIN less = 1..(n - 1)
        /\ \A j \in 1..(n - 1) : less[j] = stack[j]
    OBVIOUS
  <1>4. /\ pushed \in Seq(CopiedIn(t)) /\ Len(pushed) = m + 1 /\ m \in Nat
        /\ DOMAIN pushed = 1..(m + 1) /\ DOMAIN who = 1..m
        /\ pushed[m + 1] = top.node /\ \A i \in 1..m : pushed[i] = who[i]
    BY <1>1, <1>2
  <1>5. /\ IsList(more) /\ Len(more) = m + 1
        /\ more[m + 1] = copy /\ \A i \in 1..m : more[i] = copies[i]
    OBVIOUS
  <1>6. \A j \in DOMAIN less : j \in DOMAIN stack /\ j < n /\ less[j] = stack[j]
    BY <1>1, <1>3
  <1>7. Entered(less, pushed) = Entered(stack, who)
    <2>1. DOMAIN stack = DOMAIN less \union {n}
      BY <1>1, <1>3
    <2>2. {stack[j].node : j \in DOMAIN stack} = {less[j].node : j \in DOMAIN less} \union {top.node}
      <3>1. ASSUME NEW j \in DOMAIN stack
            PROVE  stack[j].node \in {less[k].node : k \in DOMAIN less} \union {top.node}
        BY <1>6, <2>1
      <3>2. ASSUME NEW j \in DOMAIN less
            PROVE  less[j].node \in {stack[k].node : k \in DOMAIN stack}
        BY <1>6
      <3>3. top.node \in {stack[k].node : k \in DOMAIN stack}
        BY <1>1
      <3>4. QED BY <3>1, <3>2, <3>3
    <2>3. DOMAIN pushed = DOMAIN who \union {m + 1}
      BY <1>4
    <2>4. {pushed[i] : i \in DOMAIN pushed} = {who[i] : i \in DOMAIN who} \union {top.node}
      BY <1>4, <2>3
    <2>5. QED BY <2>2, <2>4 DEF Entered
  <1>8. RecursionStands(t, less, pushed)
    <2>1. \A j \in DOMAIN less : NodeFrameStands(t, less[j])
      BY <1>0, <1>6 DEF RecursionStands
    <2>2. \A j, k \in DOMAIN less : j < k => less[j].node < less[k].node
      BY <1>0, <1>6 DEF RecursionStands
    <2>3. ASSUME NEW j \in DOMAIN less, NEW d \in less[j].passed \intersect CopiedIn(t)
          PROVE  (\E i \in DOMAIN pushed : d = pushed[i]) \/ (j + 1 \in DOMAIN less /\ d = less[j + 1].node)
      <3>1. (\E i \in DOMAIN who : d = who[i]) \/ (j + 1 \in DOMAIN stack /\ d = stack[j + 1].node)
        BY <1>0, <1>6 DEF RecursionStands
      <3>2. CASE \E i \in DOMAIN who : d = who[i]
        BY <1>4, <3>2
      <3>3. CASE j + 1 = n /\ d = stack[j + 1].node
        BY <1>4, <3>3
      <3>4. CASE j + 1 # n /\ j + 1 \in DOMAIN stack /\ d = stack[j + 1].node
        BY <1>1, <1>3, <3>4
      <3>5. QED BY <3>1, <3>2, <3>3, <3>4
    <2>4. \A x \in Entered(less, pushed) : \A j \in DOMAIN less : \A d \in LeftIn(t, less[j]) : x < d
      BY <1>0, <1>6, <1>7 DEF RecursionStands
    <2>5. 1 \in Entered(less, pushed)
      BY <1>0, <1>7 DEF RecursionStands
    <2>6. QED BY <1>3, <2>1, <2>2, <2>3, <2>4, <2>5 DEF RecursionStands
  <1>9. ChildrenIn(t, top.node) = top.passed
    BY <1>1 DEF LeftIn, NodeFrameStands
  <1>10. \A d \in ChildrenIn(t, top.node) \intersect CopiedIn(t) : \E i \in DOMAIN who : d = who[i]
    BY <1>0, <1>1, <1>9 DEF RecursionStands
  <1>11. CopiesStand(t, less, more, pushed)
    <2>1. ASSUME NEW i \in DOMAIN pushed PROVE CopyStands(t, more[i], pushed[i])
      <3>1. CASE i = m + 1
        BY <1>1, <1>4, <1>5, <1>9, <3>1 DEF CopyStands, NodeFrameStands
      <3>2. CASE i # m + 1
        BY <1>0, <1>4, <1>5, <3>2 DEF CopiesStand
      <3>3. QED BY <3>1, <3>2
    <2>2. \A i \in DOMAIN who : who[i] # top.node
      BY <1>0, <1>1 DEF CopiesStand
    <2>3. \A i, k \in DOMAIN pushed : pushed[i] = pushed[k] => i = k
      BY <1>0, <1>4, <2>2 DEF CopiesStand
    <2>4. ASSUME NEW i \in DOMAIN pushed, NEW j \in DOMAIN less PROVE pushed[i] # less[j].node
      <3>1. CASE i = m + 1
        <4>1. stack[j].node < top.node /\ less[j].node = stack[j].node
          BY <1>0, <1>1, <1>6 DEF RecursionStands
        <4>2. top.node \in Nat
          BY <1>1, CopiedFacts, TreeFacts
        <4>3. QED BY <1>4, <3>1, <4>1, <4>2
      <3>2. CASE i # m + 1
        BY <1>0, <1>4, <1>6, <3>2 DEF CopiesStand
      <3>3. QED BY <3>1, <3>2
    <2>5. ASSUME NEW i \in DOMAIN pushed, NEW d \in ChildrenIn(t, pushed[i]) \intersect CopiedIn(t)
          PROVE  \E k \in DOMAIN pushed : k < i /\ pushed[k] = d
      <3>1. CASE i = m + 1
        BY <1>4, <1>10, <3>1
      <3>2. CASE i # m + 1
        <4>1. i \in DOMAIN who /\ pushed[i] = who[i]
          BY <1>4, <3>2
        <4>2. PICK k \in DOMAIN who : k < i /\ who[k] = d
          BY <1>0, <4>1 DEF CopiesStand
        <4>3. QED BY <1>4, <4>2
      <3>3. QED BY <3>1, <3>2
    <2>6. QED BY <1>4, <1>5, <2>1, <2>3, <2>4, <2>5 DEF CopiesStand
  <1>12. QED BY <1>0, <1>7, <1>8, <1>11 DEF WalkIs

LEMMA WalkStandsAtFirst ==
  ASSUME NEW t, IsTree(t)
  PROVE  WalkIs(t, <<[node |-> 1, id |-> IdIn(t, 1), parent |-> None, passed |-> {}, children |-> <<>>]>>,
                [s \in {SpanIn(t, 1)} |-> IdIn(t, 1)], <<>>, <<>>)
PROOF
  <1>1. PICK f : f = [node |-> 1, id |-> IdIn(t, 1), parent |-> None, passed |-> {}, children |-> <<>>]
    OBVIOUS
  <1>2. PICK stack : stack = <<f>>
    OBVIOUS
  <1>3. PICK ids : ids = [s \in {SpanIn(t, 1)} |-> IdIn(t, 1)]
    OBVIOUS
  <1>4. 1 \in Nodes(t) /\ 1 \in CopiedIn(t) /\ IdIn(t, 1) \in IdsIn(t)
    BY TreeFacts, CopiedFacts DEF IdsIn
  <1>5. f \in NodeFrames(t) /\ f.node = 1 /\ f.passed = {}
    BY <1>1, <1>4 DEF NodeFrames
  <1>6. NodeFrameStands(t, f)
    <2>1. ListsInOrder(t, <<>>, {})
      BY FS_EmptySet DEF ListsInOrder
    <2>2. f.passed \intersect CopiedIn(t) = {}
      BY <1>5
    <2>3. QED BY <1>1, <1>4, <2>1, <2>2 DEF NodeFrameStands, ParentIdIn
  <1>7. stack \in Seq(NodeFrames(t)) /\ DOMAIN stack = {1} /\ stack[1] = f
    BY <1>2, <1>5
  <1>8. Entered(stack, <<>>) = {1}
    BY <1>5, <1>7 DEF Entered
  <1>9. \A d \in LeftIn(t, f) : 1 < d
    <2>1. \A d \in LeftIn(t, f) : d \in Nodes(t) /\ t.parent[d] = 1
      BY <1>5 DEF LeftIn, ChildrenIn
    <2>2. QED BY <1>4, <2>1, TreeFacts
  <1>10. RecursionStands(t, stack, <<>>)
    BY <1>5, <1>6, <1>7, <1>8, <1>9 DEF RecursionStands
  <1>11. CopiesStand(t, stack, <<>>, <<>>)
    BY DEF CopiesStand, IsList
  <1>12. SpansStand(t, Entered(stack, <<>>), ids)
    BY <1>3, <1>8 DEF SpansStand
  <1>13. WalkIs(t, stack, ids, <<>>, <<>>)
    BY <1>10, <1>11, <1>12 DEF WalkIs
  <1>14. QED BY <1>1, <1>2, <1>3, <1>13
-----------------------------------------------------------------------------
(* When the walk is over, all that is to be copied was pushed.                *)
LEMMA AllArePushed ==
  ASSUME NEW t, NEW ids, NEW copies, NEW who, IsTree(t), WalkIs(t, <<>>, ids, copies, who),
         NEW y \in CopiedIn(t)
  PROVE  \E i \in DOMAIN who : who[i] = y
PROOF
  <1> DEFINE Bad == {n \in CopiedIn(t) : \A i \in DOMAIN who : who[i] # n}
  <1>1. ASSUME Bad # {} PROVE FALSE
    <2>1. PICK n \in Bad : \A m \in Bad : n <= m
      <3>1. Bad \in SUBSET Nat
        BY CopiedFacts, TreeFacts
      <3> HIDE DEF Bad
      <3>2. QED BY <1>1, <3>1, SmallestExists
    <2>2. n \in CopiedIn(t) /\ n \in Nodes(t) /\ \A i \in DOMAIN who : who[i] # n
      BY CopiedFacts
    <2>3. n # 1
      BY <2>2 DEF WalkIs, RecursionStands, Entered
    <2>4. PICK p : p = t.parent[n]
      OBVIOUS
    <2>5. p \in CopiedIn(t) /\ p < n /\ p \in Nat /\ n \in Nat
      BY <2>2, <2>3, <2>4, CopiedFacts, TreeFacts
    <2>6. PICK i \in DOMAIN who : who[i] = p
      <3>1. p \notin Bad
        BY <2>1, <2>5
      <3>2. QED BY <2>5, <3>1
    <2>7. n \in ChildrenIn(t, who[i]) \intersect CopiedIn(t)
      BY <2>2, <2>4, <2>6 DEF ChildrenIn
    <2>8. \E k \in DOMAIN who : k < i /\ who[k] = n
      BY <2>7 DEF WalkIs, CopiesStand
    <2>9. QED BY <2>2, <2>8
  <1>2. y \notin Bad
    BY <1>1
  <1>3. QED BY <1>2

(* A node that begins before an earlier one has ended is pushed before it.    *)
LEMMA InnerArePushedFirst ==
  ASSUME NEW t, NEW ids, NEW copies, NEW who, IsTree(t), WalkIs(t, <<>>, ids, copies, who),
         NEW i \in DOMAIN who, NEW y \in CopiedIn(t), who[i] < y, t.start[y] < t.end[who[i]]
  PROVE  \E k \in DOMAIN who : k < i /\ who[k] = y
PROOF
  <1> DEFINE Bad == {n \in CopiedIn(t) : who[i] < n /\ t.start[n] < t.end[who[i]]
                                         /\ ~ \E k \in DOMAIN who : k < i /\ who[k] = n}
  <1>0. who \in Seq(CopiedIn(t)) /\ CopiesStand(t, <<>>, copies, who)
    BY DEF WalkIs, CopiesStand
  <1>1. ASSUME Bad # {} PROVE FALSE
    <2>1. PICK n \in Bad : \A m \in Bad : n <= m
      <3>1. Bad \in SUBSET Nat
        BY CopiedFacts, TreeFacts
      <3> HIDE DEF Bad
      <3>2. QED BY <1>1, <3>1, SmallestExists
    <2>2. /\ n \in CopiedIn(t) /\ n \in Nodes(t) /\ who[i] < n /\ t.start[n] < t.end[who[i]]
          /\ ~ \E k \in DOMAIN who : k < i /\ who[k] = n
      BY CopiedFacts
    <2>3. PICK x : x = who[i]
      OBVIOUS
    <2>4. PICK p : p = t.parent[n]
      OBVIOUS
    <2>5. x \in CopiedIn(t) /\ x \in Nodes(t)
      BY <1>0, <2>3, CopiedFacts
    <2>6. n # 1 /\ p \in Nodes(t) /\ p < n /\ p >= x
      BY <2>2, <2>3, <2>4, <2>5, ParentIsNotBefore
    <2>7. p \in CopiedIn(t)
      BY <2>2, <2>4, <2>6, CopiedFacts
    <2>8. p \in Nat /\ n \in Nat /\ x \in Nat /\ i \in Nat /\ \A k \in DOMAIN who : k \in Nat
      BY <1>0, <2>2, <2>5, <2>6, TreeFacts
    <2>9. \A k \in DOMAIN who : who[k] = p => \E l \in DOMAIN who : l < k /\ who[l] = n
      <3>1. n \in ChildrenIn(t, p) \intersect CopiedIn(t)
        BY <2>2, <2>4 DEF ChildrenIn
      <3>2. QED BY <1>0, <3>1 DEF CopiesStand
    <2>10. CASE p = x
      BY <2>2, <2>3, <2>9, <2>10
    <2>11. CASE p # x
      <3>1. x < p
        BY <2>6, <2>8, <2>11
      <3>2. t.start[p] < t.end[x]
        <4>1. t.start[p] <= t.start[n] /\ t.start[p] \in Nat /\ t.start[n] \in Nat /\ t.end[x] \in Nat
          BY <2>2, <2>4, <2>5, <2>6, TreeFacts
        <4>2. QED BY <2>2, <2>3, <4>1
      <3>3. p \notin Bad
        BY <2>1, <2>6, <2>8
      <3>4. PICK k \in DOMAIN who : k < i /\ who[k] = p
        BY <2>3, <2>7, <3>1, <3>2, <3>3
      <3>5. PICK l \in DOMAIN who : l < k /\ who[l] = n
        BY <2>9, <3>4
      <3>6. l < i
        BY <2>8, <3>4, <3>5
      <3>7. QED BY <2>2, <3>5, <3>6
    <2>12. QED BY <2>10, <2>11
  <1>2. y \notin Bad
    BY <1>1
  <1>3. QED BY <1>2

(* The nodes around a span, and the entries that are around it.               *)
AroundIn(t, s, e) == {n \in CopiedIn(t) : t.start[n] <= s /\ t.end[n] >= e}
EntriesAround(copies, s, e) == {i \in DOMAIN copies : copies[i].start <= s /\ copies[i].end >= e}

LEMMA WalkFinds ==
  ASSUME NEW t, NEW ids, NEW copies, NEW who, IsTree(t), WalkIs(t, <<>>, ids, copies, who),
         NEW s \in Nat, NEW e \in Nat, s < e, t.start[1] <= s, e <= t.end[1]
  PROVE  \E n \in AroundIn(t, s, e), i \in EntriesAround(copies, s, e) :
           /\ \A m \in AroundIn(t, s, e) : m <= n
           /\ copies[i].id = IdIn(t, n)
           /\ \A j \in EntriesAround(copies, s, e) :
                i <= j /\ copies[i].end - copies[i].start <= copies[j].end - copies[j].start
           /\ <<s, e>> \in DOMAIN ids => ids[<<s, e>>] = IdIn(t, n)
PROOF
  <1> DEFINE A == AroundIn(t, s, e)
             E == EntriesAround(copies, s, e)
  <1>1. /\ who \in Seq(CopiedIn(t)) /\ CopiesStand(t, <<>>, copies, who)
        /\ IsList(copies) /\ Len(copies) = Len(who)
        /\ SpansStand(t, {who[i] : i \in DOMAIN who}, ids)
    <2>1. Entered(<<>>, who) = {who[i] : i \in DOMAIN who}
      BY DEF Entered
    <2>2. QED BY <2>1 DEF WalkIs, CopiesStand
  <1>2. /\ DOMAIN who = 1..Len(who) /\ Len(who) \in Nat /\ DOMAIN copies = DOMAIN who
        /\ \A i \in DOMAIN who : who[i] \in CopiedIn(t)
    BY <1>1 DEF IsList
  <1>3. {who[i] : i \in DOMAIN who} = CopiedIn(t)
    <2>1. \A y \in CopiedIn(t) : \E i \in DOMAIN who : who[i] = y
      BY AllArePushed
    <2>2. QED BY <1>2, <2>1
  <1>4. \A n \in A : /\ n \in CopiedIn(t) /\ n \in Nodes(t) /\ n \in Nat
                     /\ t.start[n] <= s /\ e <= t.end[n] /\ t.start[n] \in Nat /\ t.end[n] \in Nat
    BY CopiedFacts, TreeFacts DEF AroundIn
  <1>5. PICK n \in A : \A m \in A : m <= n
    <2>1. 1 \in A
      <3>1. t.end[1] \in Nat /\ t.start[1] \in Nat
        BY TreeFacts
      <3>2. QED BY <3>1, CopiedFacts DEF AroundIn
    <2>2. Len(t.parent) \in Nat /\ A \subseteq 0..Len(t.parent)
      BY <1>4, TreeFacts
    <2> HIDE DEF A
    <2>3. QED BY <2>1, <2>2, LargestExists
  <1>6. \A m \in A : m < n => t.start[m] <= t.start[n] /\ t.end[n] <= t.end[m]
    <2>1. ASSUME NEW m \in A, m < n PROVE t.start[m] <= t.start[n] /\ t.end[n] <= t.end[m]
      <3>1. t.start[n] < t.end[m]
        BY <1>4
      <3>2. QED BY <1>4, <2>1, <3>1, OverlapsAreNested
    <2>2. QED BY <2>1
  <1>7. PICK i \in DOMAIN who : who[i] = n
    BY <1>4, AllArePushed
  <1>8. \A j \in DOMAIN who : /\ copies[j].id = IdIn(t, who[j])
                              /\ copies[j].start = t.start[who[j]] /\ copies[j].end = t.end[who[j]]
    BY <1>1 DEF CopiesStand, CopyStands
  <1>9. \A j \in E : j \in DOMAIN who /\ j \in Nat /\ who[j] \in A
    BY <1>2, <1>8 DEF AroundIn, EntriesAround
  <1>10. i \in E
    BY <1>2, <1>4, <1>7, <1>8 DEF EntriesAround
  <1>11. ASSUME NEW j \in E
         PROVE  i <= j /\ copies[i].end - copies[i].start <= copies[j].end - copies[j].start
    <2>1. CASE who[j] = n
      <3>1. i = j
        BY <1>1, <1>7, <1>9, <2>1 DEF CopiesStand
      <3>2. t.start[n] \in Nat /\ t.end[n] \in Nat /\ copies[i].start = t.start[n] /\ copies[i].end = t.end[n]
        BY <1>4, <1>7, <1>8
      <3>3. QED BY <1>9, <3>1, <3>2
    <2>2. CASE who[j] # n
      <3>1. PICK m : m = who[j]
        OBVIOUS
      <3>2. m \in A /\ m < n
        BY <1>4, <1>5, <1>9, <2>2, <3>1
      <3>3. t.start[m] <= t.start[n] /\ t.end[n] <= t.end[m] /\ t.start[n] < t.end[m]
        BY <1>4, <1>6, <3>2
      <3>4. \E k \in DOMAIN who : k < j /\ who[k] = n
        <4>1. j \in DOMAIN who /\ who[j] < n /\ t.start[n] < t.end[who[j]] /\ n \in CopiedIn(t)
          BY <1>4, <1>9, <3>1, <3>2, <3>3
        <4>2. QED BY <4>1, InnerArePushedFirst
      <3>5. i < j
        BY <1>1, <1>7, <3>4 DEF CopiesStand
      <3>6. /\ copies[i].start = t.start[n] /\ copies[i].end = t.end[n]
            /\ copies[j].start = t.start[m] /\ copies[j].end = t.end[m]
        BY <1>7, <1>8, <1>9, <3>1
      <3>7. /\ t.start[m] \in Nat /\ t.end[m] \in Nat /\ t.start[n] \in Nat /\ t.end[n] \in Nat
        BY <1>4, <3>2
      <3>8. QED BY <1>2, <1>9, <3>3, <3>5, <3>6, <3>7
    <2>3. QED BY <2>1, <2>2
  <1>12. ASSUME <<s, e>> \in DOMAIN ids PROVE ids[<<s, e>>] = IdIn(t, n)
    <2>1. PICK x \in CopiedIn(t) : SpanIn(t, x) = <<s, e>>
      BY <1>1, <1>3, <1>12 DEF SpansStand
    <2>2. t.start[x] = s /\ t.end[x] = e
      BY <2>1 DEF SpanIn
    <2>3. x \in A
      BY <2>2 DEF AroundIn
    <2>4. t.start[n] = s /\ t.end[n] = e
      <3>1. CASE x = n
        BY <2>2, <3>1
      <3>2. CASE x # n
        <4>1. x < n
          BY <1>4, <1>5, <2>3, <3>2
        <4>2. s <= t.start[n] /\ t.end[n] <= e
          BY <1>6, <2>2, <2>3, <4>1
        <4>3. QED BY <1>4, <4>2
      <3>3. QED BY <3>1, <3>2
    <2>5. SpanIn(t, n) = <<s, e>>
      BY <2>4 DEF SpanIn
    <2>6. ASSUME NEW y \in CopiedIn(t), SpanIn(t, y) = SpanIn(t, n) PROVE y <= n
      <3>1. t.start[y] = s /\ t.end[y] = e
        BY <2>5, <2>6 DEF SpanIn
      <3>2. y \in A
        BY <3>1 DEF AroundIn
      <3>3. QED BY <1>5, <3>2
    <2>7. ids[SpanIn(t, n)] = IdIn(t, n)
      BY <1>1, <1>3, <1>4, <2>6 DEF SpansStand
    <2>8. QED BY <2>5, <2>7
  <1>13. QED BY <1>5, <1>7, <1>8, <1>10, <1>11, <1>12
-----------------------------------------------------------------------------
(* The walk of the input.                                                     *)
NodesStand == IsInput(input) /\ \E who : WalkIs(input.tree, frames, nodeIds, nodes, who)

LEMMA SyntaxOperators ==
  /\ \A n : Syntax!Children(n) = ChildrenIn(input.tree, n) /\ Syntax!Span(n) = SpanIn(input.tree, n)
  /\ \A n, k : Syntax!Id(n, k) = <<input.tree.start[n], input.tree.end[n], input.tree.kind[n], k>>
  /\ \A S : Syntax!Cardinality(S) = Cardinality(S)
  /\ \A n : Syntax!IdOf(n) = IdIn(input.tree, n)
  /\ \A S, n : Syntax!Before(S, n) = BeforeIn(S, n)
  /\ Syntax!Copied = CopiedIn(input.tree)
  /\ Syntax!Current = frames[Len(frames)] /\ Syntax!Root = 1
BY DEF Syntax!Children, ChildrenIn, Nodes, Syntax!Span, SpanIn, Syntax!Id, Syntax!Cardinality, Cardinality,
       Syntax!IdOf, IdIn, Syntax!Before, BeforeIn, Syntax!Copied, CopiedIn, Syntax!Current, Syntax!Last,
       Syntax!Root

LEMMA RootId ==
  ASSUME NEW t, IsTree(t)
  PROVE  IdIn(t, 1) = <<t.start[1], t.end[1], t.kind[1], 0>>
PROOF
  <1>1. BeforeIn(ChildrenIn(t, t.parent[1]), 1) = {}
    BY TreeFacts DEF BeforeIn, ChildrenIn
  <1>2. QED BY <1>1, FS_EmptySet DEF IdIn

LEMMA NodesStandAtFirst ==
  ASSUME TreesAreParsed, Init
  PROVE  NodesStand
PROOF
  <1>1. IsInput(input) /\ IsTree(input.tree)
    BY DEF Init, TreesAreParsed
  <1>2. PICK t : t = input.tree
    OBVIOUS
  <1>3. Syntax!Id(1, 0) = IdIn(t, 1) /\ Syntax!Span(1) = SpanIn(t, 1)
    BY <1>1, <1>2, RootId, SyntaxOperators
  <1>4. /\ frames = <<[node |-> 1, id |-> IdIn(t, 1), parent |-> None, passed |-> {}, children |-> <<>>]>>
        /\ nodeIds = [s \in {SpanIn(t, 1)} |-> IdIn(t, 1)] /\ nodes = <<>>
    BY <1>3 DEF Init, Syntax!StartWalk, Syntax!Frame, Syntax!Root
  <1>5. WalkIs(t, frames, nodeIds, nodes, <<>>)
    BY <1>1, <1>2, <1>4, WalkStandsAtFirst
  <1>6. QED BY <1>1, <1>2, <1>5 DEF NodesStand

(* The next child is the first that is left.                                  *)
LEMMA NextChild ==
  ASSUME IsTree(input.tree), NEW t, t = input.tree, NEW top, top = frames[Len(frames)],
         Syntax!ChildrenLeft # {}, NEW c, c = Syntax!Child
  PROVE  c \in LeftIn(t, top) /\ \A d \in LeftIn(t, top) : c <= d
PROOF
  <1>1. Syntax!ChildrenLeft = LeftIn(t, top)
    BY SyntaxOperators DEF Syntax!ChildrenLeft, LeftIn
  <1>2. LeftIn(t, top) \in SUBSET Nat
    BY TreeFacts DEF LeftIn, ChildrenIn
  <1>3. \E n \in LeftIn(t, top) : \A d \in LeftIn(t, top) : n <= d
    BY <1>1, <1>2, SmallestExists
  <1>4. c = CHOOSE n \in LeftIn(t, top) : \A d \in LeftIn(t, top) : n <= d
    BY <1>1 DEF Syntax!Child, Syntax!Min
  <1>5. QED BY <1>3, <1>4

LEMMA WalkKeepsStanding ==
  ASSUME TreesAreParsed, NodesStand, input' = input, Syntax!Walk
  PROVE  NodesStand'
PROOF
  <1>1. PICK t, who : t = input.tree /\ WalkIs(t, frames, nodeIds, nodes, who)
    BY DEF NodesStand
  <1>2. IsInput(input) /\ IsTree(t)
    BY <1>1 DEF NodesStand, TreesAreParsed
  <1>3. PICK stack, ids, copies, top :
          stack = frames /\ ids = nodeIds /\ copies = nodes /\ top = frames[Len(frames)]
    OBVIOUS
  <1>4. /\ WalkIs(t, stack, ids, copies, who) /\ frames # <<>> /\ stack # <<>>
        /\ top = stack[Len(stack)] /\ Syntax!Current = top
    BY <1>1, <1>3, SyntaxOperators DEF Syntax!Walk, Syntax!PassToken, Syntax!EnterChild, Syntax!PushNode
  <1>5. /\ Len(stack) \in DOMAIN stack /\ DOMAIN stack = 1..Len(stack) /\ Len(stack) \in Nat
        /\ top \in NodeFrames(t) /\ NodeFrameStands(t, top) /\ stack \in Seq(NodeFrames(t))
    BY <1>2, <1>4, TopFacts DEF WalkIs, RecursionStands
  <1>6. CASE Syntax!PassToken
    <2>1. PICK c : c = Syntax!Child
      OBVIOUS
    <2>2. Syntax!ChildrenLeft # {} /\ ~ t.listed[c]
      BY <1>1, <1>6, <2>1 DEF Syntax!PassToken
    <2>3. c \in LeftIn(t, top) /\ \A d \in LeftIn(t, top) : c <= d
      BY <1>1, <1>2, <1>3, <2>1, <2>2, NextChild
    <2>4. PICK passing : passing = [top EXCEPT !.passed = @ \union {c}]
      OBVIOUS
    <2>5. PICK more : more = [stack EXCEPT ![Len(stack)] = passing]
      OBVIOUS
    <2>6. frames' = more /\ nodeIds' = ids /\ nodes' = copies
      BY <1>3, <1>5, <1>6, <2>1, <2>4, <2>5 DEF Syntax!PassToken, Syntax!Passed
    <2>7. WalkIs(t, more, ids, copies, who)
      BY <1>2, <1>4, <2>2, <2>3, <2>4, <2>5, PassStands
    <2>8. QED BY <1>1, <1>2, <2>6, <2>7 DEF NodesStand
  <1>7. CASE Syntax!EnterChild
    <2>1. PICK c : c = Syntax!Child
      OBVIOUS
    <2>2. Syntax!ChildrenLeft # {} /\ t.listed[c]
      BY <1>1, <1>7, <2>1 DEF Syntax!EnterChild
    <2>3. c \in LeftIn(t, top) /\ \A d \in LeftIn(t, top) : c <= d
      BY <1>1, <1>2, <1>3, <2>1, <2>2, NextChild
    <2>4. Syntax!Id(c, Syntax!Index) = IdIn(t, c)
      <3>1. t.parent[c] = top.node
        BY <2>3 DEF LeftIn, ChildrenIn
      <3>2. \A d \in ChildrenIn(t, top.node) : d \in Nat
        BY <1>2, TreeFacts DEF ChildrenIn
      <3>3. c \in Nat /\ c \notin top.passed /\ \A d \in top.passed : d < c
        BY <1>5, <2>3, <3>2 DEF LeftIn, NodeFrameStands
      <3>4. \A d \in ChildrenIn(t, top.node) : d < c <=> d \in top.passed
        BY <2>3, <3>2, <3>3 DEF LeftIn
      <3>5. top.passed = BeforeIn(ChildrenIn(t, t.parent[c]), c)
        BY <1>5, <3>1, <3>4 DEF BeforeIn, NodeFrameStands
      <3>6. Syntax!Index = Cardinality(top.passed)
        BY <1>4, SyntaxOperators DEF Syntax!Index
      <3>7. QED BY <1>1, <3>5, <3>6, SyntaxOperators DEF IdIn
    <2>5. PICK id : id = IdIn(t, c)
      OBVIOUS
    <2>6. PICK passing : passing = [top EXCEPT !.passed = @ \union {c}, !.children = Append(@, id)]
      OBVIOUS
    <2>7. PICK entering : entering = [node |-> c, id |-> id, parent |-> top.id,
                                      passed |-> {}, children |-> <<>>]
      OBVIOUS
    <2>8. PICK given : given = [s \in DOMAIN ids \union {SpanIn(t, c)} |->
                                  IF s = SpanIn(t, c) THEN id ELSE ids[s]]
      OBVIOUS
    <2>9. PICK more : more = frames'
      OBVIOUS
    <2>10. nodeIds' = given /\ nodes' = copies
      BY <1>1, <1>3, <1>7, <2>1, <2>4, <2>5, <2>8, SyntaxOperators DEF Syntax!EnterChild, Syntax!With
    <2>11. more = Append([stack EXCEPT ![Len(stack)] = passing], entering)
      <3>1. frames' = Append([Syntax!Passed EXCEPT ![Len(frames)].children = Append(@, id)],
                             Syntax!Frame(c, id, top.id))
        BY <1>4, <1>7, <2>1, <2>4, <2>5 DEF Syntax!EnterChild
      <3>2. Syntax!Passed = [stack EXCEPT ![Len(stack)].passed = @ \union {c}]
        BY <1>3, <2>1 DEF Syntax!Passed
      <3>3. stack = [j \in 1..Len(stack) |-> stack[j]]
        BY <1>5
      <3>4. top = [node |-> top.node, id |-> top.id, parent |-> top.parent,
                   passed |-> top.passed, children |-> top.children]
        BY <1>5 DEF NodeFrames
      <3>5. [[stack EXCEPT ![Len(stack)].passed = @ \union {c}]
               EXCEPT ![Len(stack)].children = Append(@, id)]
             = [stack EXCEPT ![Len(stack)] = passing]
        BY <1>4, <1>5, <2>6, <3>3, <3>4
      <3>6. QED BY <1>3, <2>7, <2>9, <3>1, <3>2, <3>5 DEF Syntax!Frame
    <2>12. /\ more = [j \in DOMAIN more |-> more[j]] /\ DOMAIN more = 1..(Len(stack) + 1)
           /\ more[Len(stack)] = passing /\ more[Len(stack) + 1] = entering
           /\ \A j \in DOMAIN stack : j # Len(stack) => more[j] = stack[j]
      <3>1. PICK n \in Nat : n = Len(stack)
        BY <1>5
      <3>2. PICK S : S = NodeFrames(t) \union {passing, entering}
        OBVIOUS
      <3>3. PICK went : went = [stack EXCEPT ![n] = passing]
        OBVIOUS
      <3>4. stack \in [1..n -> S] /\ n \in 1..n
        BY <1>5, <3>1, <3>2
      <3>5. went \in [1..n -> S] /\ went[n] = passing /\ \A j \in 1..n : j # n => went[j] = stack[j]
        BY <3>2, <3>3, <3>4
      <3>6. went \in Seq(S) /\ Len(went) = n /\ entering \in S
        BY <3>1, <3>2, <3>5
      <3>7. more = Append(went, entering)
        BY <2>11, <3>1, <3>3
      <3>8. more \in Seq(S) /\ Len(more) = n + 1 /\ more[n + 1] = entering /\ \A j \in 1..n : more[j] = went[j]
        BY <3>6, <3>7
      <3>9. more \in [1..(n + 1) -> S]
        BY <3>8
      <3>10. QED BY <1>5, <3>1, <3>4, <3>5, <3>8, <3>9
    <2>13. /\ passing = [top EXCEPT !.passed = @ \union {c}, !.children = Append(@, IdIn(t, c))]
           /\ entering = [node |-> c, id |-> IdIn(t, c), parent |-> top.id,
                          passed |-> {}, children |-> <<>>]
           /\ given = [s \in DOMAIN ids \union {SpanIn(t, c)} |->
                         IF s = SpanIn(t, c) THEN IdIn(t, c) ELSE ids[s]]
      BY <2>5, <2>6, <2>7, <2>8
    <2>14. Enters(t, stack, c, more) /\ Gives(t, ids, c, given)
      BY <1>4, <2>2, <2>3, <2>12, <2>13 DEF Enters, Gives
    <2>15. WalkIs(t, more, given, copies, who)
      BY <1>2, <1>4, <2>14, EnterStands
    <2>16. QED BY <1>1, <1>2, <2>9, <2>10, <2>15 DEF NodesStand
  <1>8. CASE Syntax!PushNode
    <2>1. LeftIn(t, top) = {}
      BY <1>1, <1>4, <1>8, SyntaxOperators DEF Syntax!PushNode, Syntax!ChildrenLeft, LeftIn
    <2>2. PICK copy : copy = [id |-> top.id, parent |-> top.parent, children |-> top.children,
                              start |-> t.start[top.node], end |-> t.end[top.node]]
      OBVIOUS
    <2>3. PICK less, more, pushed :
            less = frames' /\ more = nodes' /\ pushed = Append(who, top.node)
      OBVIOUS
    <2>4. nodeIds' = ids /\ more = Append(copies, copy) /\ less = SubSeq(stack, 1, Len(stack) - 1)
      BY <1>1, <1>3, <1>4, <1>8, <2>2, <2>3 DEF Syntax!PushNode, Syntax!Copy, Syntax!Front
    <2>5. /\ less \in Seq(NodeFrames(t)) /\ DOMAIN less = 1..(Len(stack) - 1)
          /\ \A j \in 1..(Len(stack) - 1) : less[j] = stack[j]
      <3>1. PICK n : n = Len(stack) /\ n \in Nat /\ n \in 1..n
        BY <1>5
      <3>2. PICK S : S = NodeFrames(t)
        OBVIOUS
      <3>3. stack \in Seq(S)
        BY <1>5, <3>2
      <3>4. less = SubSeq(stack, 1, n - 1)
        BY <2>4, <3>1
      <3>5. less \in Seq(S) /\ Len(less) = n - 1 /\ \A j \in 1..(n - 1) : less[j] = stack[j]
        BY <3>1, <3>3, <3>4
      <3>6. QED BY <3>1, <3>2, <3>5
    <2>6. Pushes(t, top, copies, more)
      <3>1. IsList(copies)
        BY <1>4 DEF WalkIs, CopiesStand
      <3>2. /\ IsList(more) /\ Len(more) = Len(copies) + 1 /\ more[Len(copies) + 1] = copy
            /\ \A i \in 1..Len(copies) : more[i] = copies[i]
        BY <2>4, <3>1, AppendFacts
      <3>3. QED BY <2>2, <3>2 DEF Pushes
    <2>7. Leaves(t, stack, less)
      BY <1>4, <2>1, <2>5 DEF Leaves
    <2>8. WalkIs(t, less, ids, more, pushed)
      BY <1>2, <1>4, <2>3, <2>6, <2>7, PushNodeStands
    <2>9. QED BY <1>1, <1>2, <2>3, <2>4, <2>8 DEF NodesStand
  <1>9. QED BY <1>6, <1>7, <1>8 DEF Syntax!Walk

LEMMA NodesKeepStanding ==
  ASSUME TreesAreParsed, NodesStand, [Next]_vars
  PROVE  NodesStand'
PROOF
  <1>1. CASE CollectNode
    <2>1. input' = input /\ Syntax!Walk
      BY <1>1 DEF CollectNode
    <2>2. QED BY <2>1, WalkKeepsStanding
  <1>2. CASE CollectSymbols \/ CollectLambdas \/ CollectGraphs \/ ReadUses \/ ReportUses
             \/ ConvertTypes \/ Finish \/ UNCHANGED vars
    <2>1. input' = input /\ frames' = frames /\ nodeIds' = nodeIds /\ nodes' = nodes
      BY <1>2 DEF CollectSymbols, CollectLambdas, CollectGraphs, ReadUses, ReportUses, ConvertTypes, Finish,
                  vars, walk
    <2>2. QED BY <2>1 DEF NodesStand
  <1>3. QED BY <1>1, <1>2 DEF Next

LEMMA StandingNodesAreFound ==
  ASSUME TreesAreParsed, NodesStand
  PROVE  InnermostIsFound
PROOF
  <1>1. IsInput(input) /\ IsTree(input.tree)
    BY DEF NodesStand, TreesAreParsed
  <1> SUFFICES ASSUME frames = <<>>,
                      NEW s \in input.tree.start[1]..input.tree.end[1],
                      NEW e \in input.tree.start[1]..input.tree.end[1], s < e
               PROVE  LET span == <<s, e>>
                          innermost == Syntax!IdOf(CHOOSE n \in Syntax!Around(span) :
                                                     \A m \in Syntax!Around(span) : m <= n)
                      IN  Syntax!SmallestNode(span) = innermost
                          /\ Syntax!ExactNode(span) \in {None, innermost}
    BY SyntaxOperators DEF InnermostIsFound, Syntax!InnermostIsFound, Syntax!Walked
  <1>2. PICK t, ids, copies, who :
          t = input.tree /\ ids = nodeIds /\ copies = nodes /\ WalkIs(t, <<>>, ids, copies, who)
    BY DEF NodesStand
  <1>3. s \in Nat /\ e \in Nat /\ t.start[1] <= s /\ e <= t.end[1]
    BY <1>1, <1>2, TreeFacts
  <1>4. PICK n \in AroundIn(t, s, e), i \in EntriesAround(copies, s, e) :
           /\ \A m \in AroundIn(t, s, e) : m <= n
           /\ copies[i].id = IdIn(t, n)
           /\ \A j \in EntriesAround(copies, s, e) :
                i <= j /\ copies[i].end - copies[i].start <= copies[j].end - copies[j].start
           /\ <<s, e>> \in DOMAIN ids => ids[<<s, e>>] = IdIn(t, n)
    BY <1>1, <1>2, <1>3, WalkFinds
  <1>5. Syntax!Around(<<s, e>>) = AroundIn(t, s, e)
    BY <1>2, SyntaxOperators DEF Syntax!Around, AroundIn
  <1>6. (CHOOSE k \in AroundIn(t, s, e) : \A m \in AroundIn(t, s, e) : m <= k) = n
    <2>1. \A k \in AroundIn(t, s, e) : k \in Nat
      BY <1>1, <1>2, CopiedFacts, TreeFacts DEF AroundIn
    <2>2. \A k \in AroundIn(t, s, e) : (\A m \in AroundIn(t, s, e) : m <= k) => k = n
      BY <1>4, <2>1
    <2>3. QED BY <1>4, <2>2
  <1>7. Syntax!ExactNode(<<s, e>>) \in {None, IdIn(t, n)}
    BY <1>2, <1>4 DEF Syntax!ExactNode
  <1>8. Syntax!SmallestNode(<<s, e>>) = IdIn(t, n)
    <2> DEFINE around == EntriesAround(copies, s, e)
               smallest == {k \in around : \A j \in around : Syntax!Size(copies[k]) <= Syntax!Size(copies[j])}
    <2>1. i \in smallest /\ \A j \in smallest : i <= j
      BY <1>4 DEF Syntax!Size
    <2>2. \A j \in around : j \in Nat
      BY <1>2 DEF EntriesAround, WalkIs, CopiesStand, IsList
    <2>3. \A k \in smallest : (\A j \in smallest : k <= j) => k = i
      BY <2>1, <2>2
    <2>4. (CHOOSE k \in smallest : \A j \in smallest : k <= j) = i
      <3> HIDE DEF smallest
      <3>1. QED BY <2>1, <2>3
    <2>5. Syntax!SmallestNode(<<s, e>>) =
            IF around = {} THEN None ELSE copies[CHOOSE k \in smallest : \A j \in smallest : k <= j].id
      BY <1>2 DEF Syntax!SmallestNode, EntriesAround
    <2>6. QED BY <1>4, <2>4, <2>5
  <1>9. QED BY <1>2, <1>5, <1>6, <1>7, <1>8, SyntaxOperators

LEMMA StandingNodesFormTheTree ==
  ASSUME TreesAreParsed, NodesStand
  PROVE  Syntax!NodesFormTheTree
PROOF
  <1> SUFFICES ASSUME frames = <<>> PROVE Syntax!NodesFormTheTree
    BY DEF Syntax!NodesFormTheTree, Syntax!Walked
  <1>1. IsInput(input) /\ IsTree(input.tree)
    BY DEF NodesStand, TreesAreParsed
  <1>2. PICK t, copies, who :
          t = input.tree /\ copies = nodes /\ WalkIs(t, <<>>, nodeIds, copies, who)
    BY DEF NodesStand
  <1>3. /\ who \in Seq(CopiedIn(t)) /\ IsList(copies) /\ Len(copies) = Len(who)
        /\ \A i \in DOMAIN who : CopyStands(t, copies[i], who[i])
        /\ \A i, k \in DOMAIN who : who[i] = who[k] => i = k
    BY <1>2 DEF WalkIs, CopiesStand
  <1>4. \A n \in CopiedIn(t) : \E i \in DOMAIN who : who[i] = n
    BY <1>1, <1>2, AllArePushed
  <1>5. Len(copies) = Cardinality(CopiedIn(t))
    <2>1. PICK m, S : m = Len(who) /\ S = CopiedIn(t)
      OBVIOUS
    <2>2. m \in Nat /\ DOMAIN who = 1..m /\ who \in [1..m -> S]
      BY <1>3, <2>1
    <2>3. who \in Bijection(1..m, S)
      BY <1>3, <1>4, <2>1, <2>2 DEF Bijection, Injection, Surjection, IsInjective
    <2>4. ExistsBijection(1..m, S)
      BY <2>3 DEF ExistsBijection
    <2>5. Cardinality(S) = m
      BY <2>2, <2>4, FS_CountingElements
    <2>6. QED BY <1>3, <2>1, <2>5
  <1>6. ASSUME NEW n \in CopiedIn(t)
        PROVE  \E i \in DOMAIN copies :
                 /\ copies[i].id = IdIn(t, n)
                 /\ copies[i].parent = IF n = 1 THEN None ELSE IdIn(t, t.parent[n])
                 /\ LET copied == ChildrenIn(t, n) \intersect CopiedIn(t)
                    IN  /\ Len(copies[i].children) = Cardinality(copied)
                        /\ \A c \in copied : copies[i].children[Cardinality(BeforeIn(copied, c)) + 1] = IdIn(t, c)
    <2>1. PICK i \in DOMAIN who : who[i] = n
      BY <1>4
    <2>2. i \in DOMAIN copies
      BY <1>3 DEF IsList
    <2>3. CopyStands(t, copies[i], n)
      BY <1>3, <2>1
    <2>4. QED BY <2>2, <2>3 DEF CopyStands, ParentIdIn, ListsInOrder
  <1>7. QED BY <1>2, <1>5, <1>6, SyntaxOperators DEF Syntax!NodesFormTheTree

(* The innermost node of a span is found, in every tree: by the order in      *)
(* which nodes are entered where one has exactly this span, and by the order  *)
(* in which they are pushed in any case (exact_node, smallest_node).          *)
THEOREM InnermostIsAlwaysFound ==
  ASSUME TreesAreParsed
  PROVE  Spec => []InnermostIsFound
PROOF
  <1>1. Init => NodesStand
    BY NodesStandAtFirst
  <1>2. NodesStand /\ [Next]_vars => NodesStand'
    BY NodesKeepStanding
  <1>3. NodesStand => InnermostIsFound
    BY StandingNodesAreFound
  <1>4. QED BY <1>1, <1>2, <1>3, PTL DEF Spec

(* The nodes form the tree that was parsed: each that is copied has one       *)
(* entry, which names its parent and its children, in their order             *)
(* (collect_node).                                                            *)
THEOREM NodesAlwaysFormTheTree ==
  ASSUME TreesAreParsed
  PROVE  Spec => []Syntax!NodesFormTheTree
PROOF
  <1>1. Init => NodesStand
    BY NodesStandAtFirst
  <1>2. NodesStand /\ [Next]_vars => NodesStand'
    BY NodesKeepStanding
  <1>3. NodesStand => Syntax!NodesFormTheTree
    BY StandingNodesFormTheTree
  <1>4. QED BY <1>1, <1>2, <1>3, PTL DEF Spec
-----------------------------------------------------------------------------
(* A strict total order of a set, given by what is below each member.         *)
IsOrder(S, below) ==
  /\ IsFiniteSet(S) /\ below \in [S -> SUBSET S]
  /\ \A x \in S : x \notin below[x]
  /\ \A x, y \in S : x # y => x \in below[y] \/ y \in below[x]
  /\ \A x, y \in S : x \in below[y] => below[x] \subseteq below[y]

(* The members have the ranks from 0, each once.                              *)
LEMMA Ranks ==
  ASSUME NEW S, NEW below, IsOrder(S, below)
  PROVE  /\ Cardinality(S) \in Nat
         /\ \A x \in S : Cardinality(below[x]) \in 0..(Cardinality(S) - 1)
         /\ \A x, y \in S : x \in below[y] <=> Cardinality(below[x]) < Cardinality(below[y])
         /\ \A r \in 0..(Cardinality(S) - 1) : \E x \in S : Cardinality(below[x]) = r
PROOF
  <1> DEFINE n == Cardinality(S)
             rank == [x \in S |-> Cardinality(below[x])]
  <1>1. IsFiniteSet(S) /\ n \in Nat
    BY FS_CardinalityType DEF IsOrder
  <1>2. \A x \in S : IsFiniteSet(below[x]) /\ Cardinality(below[x]) \in Nat
    BY <1>1, FS_Subset, FS_CardinalityType DEF IsOrder
  <1>3. ASSUME NEW x \in S PROVE Cardinality(below[x]) \in 0..(n - 1)
    <2>1. below[x] \in SUBSET S /\ x \notin below[x]
      BY DEF IsOrder
    <2>2. Cardinality(below[x]) <= n /\ (n = Cardinality(below[x]) => S = below[x])
      BY <1>1, <2>1, FS_Subset
    <2>3. QED BY <1>1, <1>2, <2>1, <2>2
  <1>4. ASSUME NEW x \in S, NEW y \in S, x \in below[y]
        PROVE  Cardinality(below[x]) < Cardinality(below[y])
    <2>1. below[x] \in SUBSET below[y] /\ x \notin below[x]
      BY <1>4 DEF IsOrder
    <2>2. /\ Cardinality(below[x]) <= Cardinality(below[y])
          /\ Cardinality(below[y]) = Cardinality(below[x]) => below[y] = below[x]
      BY <1>2, <2>1, FS_Subset
    <2>3. QED BY <1>2, <1>4, <2>1, <2>2
  <1>5. ASSUME NEW x \in S, NEW y \in S, Cardinality(below[x]) < Cardinality(below[y])
        PROVE  x \in below[y]
    <2>1. x # y /\ (y \in below[x] => Cardinality(below[y]) < Cardinality(below[x]))
      BY <1>2, <1>4, <1>5
    <2>2. y \notin below[x]
      BY <1>2, <1>5, <2>1
    <2>3. QED BY <2>1, <2>2 DEF IsOrder
  <1>6. rank \in Injection(S, 0..(n - 1))
    <2>1. rank \in [S -> 0..(n - 1)]
      BY <1>3
    <2>2. ASSUME NEW x \in S, NEW y \in S, rank[x] = rank[y] PROVE x = y
      <3>1. ~ (Cardinality(below[x]) < Cardinality(below[y])) /\ ~ (Cardinality(below[y]) < Cardinality(below[x]))
        BY <1>2, <2>2
      <3>2. x \notin below[y] /\ y \notin below[x]
        BY <1>4, <3>1
      <3>3. QED BY <3>2 DEF IsOrder
    <2> HIDE DEF rank
    <2>3. QED BY <2>1, <2>2 DEF Injection, IsInjective
  <1>7. IsFiniteSet(0..(n - 1)) /\ Cardinality(0..(n - 1)) = n
    BY <1>1, FS_Interval
  <1>8. rank \in Surjection(S, 0..(n - 1))
    <2> HIDE DEF rank, n
    <2>1. QED BY <1>6, <1>7, FS_Injection DEF n
  <1>9. \A r \in 0..(n - 1) : \E x \in S : rank[x] = r
    <2> HIDE DEF rank
    <2>1. QED BY <1>8 DEF Surjection
  <1>10. QED BY <1>1, <1>3, <1>4, <1>5, <1>9

(* Who is sorted stands at the place after its rank.                          *)
Sorts(f, S, below, n) ==
  n = Cardinality(S) /\ f = [i \in 1..n |-> CHOOSE x \in S : Cardinality(below[x]) = i - 1]

LEMMA Sorted ==
  ASSUME NEW S, NEW below, IsOrder(S, below), NEW n, NEW f, Sorts(f, S, below, n)
  PROVE  /\ n \in Nat /\ f \in [1..n -> S]
         /\ \A x \in S : \E i \in 1..n : f[i] = x
         /\ \A i, j \in 1..n : i < j <=> f[i] \in below[f[j]]
         /\ \A i, j \in 1..n : f[i] = f[j] => i = j
PROOF
  <1>1. /\ n \in Nat
        /\ \A x \in S : Cardinality(below[x]) \in 0..(n - 1)
        /\ \A x, y \in S : x \in below[y] <=> Cardinality(below[x]) < Cardinality(below[y])
        /\ \A r \in 0..(n - 1) : \E x \in S : Cardinality(below[x]) = r
    BY Ranks DEF Sorts
  <1>2. ASSUME NEW i \in 1..n PROVE f[i] \in S /\ Cardinality(below[f[i]]) = i - 1
    <2>1. i - 1 \in 0..(n - 1)
      BY <1>1
    <2>2. \E x \in S : Cardinality(below[x]) = i - 1
      BY <1>1, <2>1
    <2>3. f[i] = CHOOSE x \in S : Cardinality(below[x]) = i - 1
      BY DEF Sorts
    <2>4. QED BY <2>2, <2>3
  <1>3. f \in [1..n -> S]
    BY <1>2 DEF Sorts
  <1>4. ASSUME NEW x \in S PROVE \E i \in 1..n : f[i] = x
    <2>1. PICK i : i = Cardinality(below[x]) + 1
      OBVIOUS
    <2>2. i \in 1..n /\ i - 1 = Cardinality(below[x])
      BY <1>1, <2>1
    <2>3. f[i] \in S /\ Cardinality(below[f[i]]) = Cardinality(below[x])
      BY <1>2, <2>2
    <2>4. ~ (Cardinality(below[f[i]]) < Cardinality(below[x])) /\ ~ (Cardinality(below[x]) < Cardinality(below[f[i]]))
      BY <1>1, <2>3
    <2>5. x \notin below[f[i]] /\ f[i] \notin below[x]
      BY <1>1, <2>3, <2>4
    <2>6. f[i] = x
      BY <2>3, <2>5 DEF IsOrder
    <2>7. QED BY <2>2, <2>6
  <1>5. ASSUME NEW i \in 1..n, NEW j \in 1..n
        PROVE  (i < j <=> f[i] \in below[f[j]]) /\ (f[i] = f[j] => i = j)
    <2>1. /\ Cardinality(below[f[i]]) = i - 1 /\ Cardinality(below[f[j]]) = j - 1
          /\ f[i] \in S /\ f[j] \in S
      BY <1>2
    <2>2. f[i] \in below[f[j]] <=> i - 1 < j - 1
      BY <1>1, <2>1
    <2>3. f[i] = f[j] => i - 1 = j - 1
      BY <2>1
    <2>4. QED BY <1>1, <2>2, <2>3
  <1>6. QED BY <1>1, <1>3, <1>4, <1>5

LEMMA RisingFacts ==
  ASSUME NEW S \in SUBSET Nat, IsFiniteSet(S), NEW f, f = Rising(S), NEW n, n = Cardinality(S)
  PROVE  /\ n \in Nat /\ f \in [1..n -> S]
         /\ \A x \in S : \E i \in 1..n : f[i] = x
         /\ \A i, j \in 1..n : i < j <=> f[i] < f[j]
PROOF
  <1>1. PICK below : below = [x \in S |-> {y \in S : y < x}]
    OBVIOUS
  <1>2. below \in [S -> SUBSET S] /\ \A x, y \in S : x \in below[y] <=> x < y
    BY <1>1
  <1>3. IsOrder(S, below)
    <2>1. \A x, y \in S : x \in Nat /\ y \in Nat /\ (x # y => x < y \/ y < x) /\ ~ (x < x)
      OBVIOUS
    <2>2. ASSUME NEW x \in S, NEW y \in S, x \in below[y] PROVE below[x] \subseteq below[y]
      <3>1. ASSUME NEW z \in below[x] PROVE z \in below[y]
        <4>1. z \in S /\ z < x /\ x < y
          BY <1>2, <2>2
        <4>2. z < y
          BY <2>1, <4>1
        <4>3. QED BY <1>2, <4>1, <4>2
      <3>2. QED BY <3>1
    <2>3. QED BY <1>2, <2>1, <2>2 DEF IsOrder
  <1>4. f = [i \in 1..n |-> CHOOSE x \in S : Cardinality(below[x]) = i - 1]
    <2>1. \A x \in S : below[x] = {y \in S : y < x}
      BY <1>1
    <2>2. f = [i \in 1..n |-> CHOOSE x \in S : Cardinality({y \in S : y < x}) = i - 1]
      BY DEF Rising, InOrder
    <2>3. \A i : (CHOOSE x \in S : Cardinality({y \in S : y < x}) = i - 1)
                   = (CHOOSE x \in S : Cardinality(below[x]) = i - 1)
      BY <2>1
    <2>4. QED BY <2>2, <2>3
  <1>5. /\ n \in Nat /\ f \in [1..n -> S]
        /\ \A x \in S : \E i \in 1..n : f[i] = x
        /\ \A i, j \in 1..n : i < j <=> f[i] \in below[f[j]]
    <2>1. Sorts(f, S, below, n)
      BY <1>4 DEF Sorts
    <2>2. QED BY <1>3, <2>1, Sorted
  <1>6. QED BY <1>2, <1>5

(* Sorting entries by id permutes them.                                       *)
Apart(list) == \A i, j \in DOMAIN list : list[i].id = list[j].id => i = j

HasIds(entries, n) ==
  n \in Nat /\ DOMAIN entries = 1..n /\ \A i \in 1..n : entries[i].id[1] \in Nat /\ entries[i].id[2] \in Nat

Permutes(sorted, entries, n) ==
  /\ DOMAIN sorted = 1..n /\ sorted = [k \in 1..n |-> sorted[k]]
  /\ \A i \in 1..n : \E k \in 1..n : sorted[k] = entries[i]
  /\ \A k \in 1..n : \E i \in 1..n : sorted[k] = entries[i]

LEMMA ByIdFacts ==
  ASSUME NEW n, NEW entries, HasIds(entries, n), NEW sorted, sorted = ById(entries)
  PROVE  Permutes(sorted, entries, n) /\ (Apart(entries) => Apart(sorted))
PROOF
  <1> DEFINE Comes(i, j) ==
               \/ IdBefore(entries[i].id, entries[j].id)
               \/ ~ IdBefore(entries[j].id, entries[i].id) /\ i < j
             S == 1..n
  <1>0. n \in Nat /\ DOMAIN entries = 1..n /\ \A i \in 1..n : entries[i].id[1] \in Nat /\ entries[i].id[2] \in Nat
    BY DEF HasIds
  <1>1. PICK below : below = [i \in S |-> {j \in S : Comes(j, i)}]
    OBVIOUS
  <1>2. IsFiniteSet(S) /\ Cardinality(S) = n
    BY <1>0, FS_Interval
  <1>3. \A i, j \in S : j \in below[i] <=> Comes(j, i)
    BY <1>1
  <1>4. IsOrder(S, below)
    <2>1. below \in [S -> SUBSET S]
      BY <1>1
    <2>2. \A i \in S : i \notin below[i]
      BY <1>0, <1>3 DEF IdBefore
    <2>3. \A i, j \in S : i # j => i \in below[j] \/ j \in below[i]
      BY <1>0, <1>3 DEF IdBefore
    <2>4. ASSUME NEW i \in S, NEW j \in S, NEW k \in S, Comes(i, j), Comes(k, i) PROVE Comes(k, j)
      BY <1>0, <2>4 DEF IdBefore
    <2>5. \A i, j \in S : i \in below[j] => below[i] \subseteq below[j]
      <3> HIDE DEF Comes
      <3>1. QED BY <1>3, <2>1, <2>4
    <2> HIDE DEF S
    <2>6. QED BY <1>2, <2>1, <2>2, <2>3, <2>5 DEF IsOrder
  <1>5. PICK p : p = [i \in 1..n |-> CHOOSE x \in S : Cardinality(below[x]) = i - 1]
    OBVIOUS
  <1>6. /\ p \in [1..n -> S]
        /\ \A x \in S : \E i \in 1..n : p[i] = x
        /\ \A i, j \in 1..n : p[i] = p[j] => i = j
    <2> HIDE DEF S
    <2>1. Sorts(p, S, below, n)
      BY <1>2, <1>5 DEF Sorts
    <2>2. QED BY <1>4, <2>1, Sorted
  <1>7. sorted = [k \in 1..n |-> entries[p[k]]]
    <2>1. \A x \in S : below[x] = {y \in S : Comes(y, x)}
      BY <1>1
    <2> DEFINE at(i) == CHOOSE x \in S : Cardinality({y \in S : Comes(y, x)}) = i - 1
               place(i) == CHOOSE x \in S : Cardinality(below[x]) = i - 1
    <2>2. \A i : at(i) = place(i)
      <3> HIDE DEF Comes, S
      <3>1. QED BY <2>1
    <2>3. PICK q : q = [i \in 1..n |-> at(i)]
      OBVIOUS
    <2>4. q = p
      <3>1. p = [i \in 1..n |-> place(i)]
        BY <1>5
      <3> HIDE DEF at, place
      <3>2. QED BY <2>2, <2>3, <3>1
    <2>5. sorted = [k \in DOMAIN q |-> entries[q[k]]]
      BY <1>0, <1>2, <2>3 DEF ById, InOrder
    <2>6. DOMAIN q = 1..n
      BY <2>4, <1>6
    <2>7. QED BY <2>4, <2>5, <2>6
  <1>8. \A k \in 1..n : p[k] \in 1..n /\ sorted[k] = entries[p[k]]
    BY <1>6, <1>7
  <1>9. ASSUME NEW i \in 1..n PROVE \E k \in 1..n : sorted[k] = entries[i]
    <2>1. PICK k \in 1..n : p[k] = i
      BY <1>6
    <2>2. QED BY <1>8, <2>1
  <1>10. ASSUME \A i, j \in 1..n : entries[i].id = entries[j].id => i = j,
                NEW k \in 1..n, NEW l \in 1..n, sorted[k].id = sorted[l].id
         PROVE  k = l
    <2>1. /\ p[k] \in 1..n /\ sorted[k] = entries[p[k]]
          /\ p[l] \in 1..n /\ sorted[l] = entries[p[l]]
      BY <1>8
    <2>2. entries[p[k]].id = entries[p[l]].id
      BY <1>10, <2>1
    <2>3. p[k] = p[l]
      <3> HIDE DEF S, Comes
      <3>1. QED BY <1>10, <2>1, <2>2
    <2>4. QED BY <1>6, <2>3
  <1>11. DOMAIN sorted = 1..n
    BY <1>7
  <1>12. Permutes(sorted, entries, n)
    BY <1>7, <1>8, <1>9, <1>11 DEF Permutes
  <1>13. Apart(entries) => Apart(sorted)
    BY <1>0, <1>10, <1>11 DEF Apart
  <1>14. QED BY <1>12, <1>13
-----------------------------------------------------------------------------
(* More on joined lists.                                                      *)
LEMMA JoinIs ==
  ASSUME NEW S, NEW seqs \in Seq(Seq(S)), seqs # <<>>
  PROVE  /\ Len(seqs) \in 1..Len(seqs)
         /\ \E g : Joins(g, seqs, Len(seqs)) /\ FlattenSeq(seqs) = g[Len(seqs)]
PROOF
  <1> DEFINE f == CHOOSE g : g = [i \in 1..Len(seqs) |-> IF i = 1 THEN seqs[i] ELSE g[i - 1] \o seqs[i]]
  <1>1. Len(seqs) \in Nat /\ Len(seqs) # 0
    BY EmptySeq
  <1>2. FlattenSeq(seqs) = f[Len(seqs)]
    BY <1>1 DEF FlattenSeq
  <1>3. Len(seqs) \in 1..Len(seqs)
    BY <1>1
  <1>4. PICK g : Joins(g, seqs, Len(seqs))
    BY <1>3, JoinExists DEF CanJoin
  <1>5. f = [i \in 1..Len(seqs) |-> IF i = 1 THEN seqs[i] ELSE f[i - 1] \o seqs[i]]
    BY <1>4 DEF Joins
  <1>6. Joins(f, seqs, Len(seqs))
    <2>1. DOMAIN f = 1..Len(seqs)
      BY <1>5
    <2> HIDE DEF f
    <2>2. QED BY <1>5, <2>1 DEF Joins
  <1> HIDE DEF f
  <1>7. QED BY <1>2, <1>3, <1>6

(* Each member of one of the lists is in the joined one.                      *)
IsJoined(joined, seqs, S) == seqs \in Seq(Seq(S)) /\ joined = FlattenSeq(seqs)

LEMMA JoinHas ==
  ASSUME NEW joined, NEW seqs, NEW S, IsJoined(joined, seqs, S)
  PROVE  \A i \in DOMAIN seqs : \A k \in DOMAIN seqs[i] : \E p \in DOMAIN joined : joined[p] = seqs[i][k]
PROOF
  <1> SUFFICES ASSUME NEW i \in DOMAIN seqs, NEW k \in DOMAIN seqs[i]
               PROVE  \E p \in DOMAIN joined : joined[p] = seqs[i][k]
    OBVIOUS
  <1>0. seqs \in Seq(Seq(S)) /\ joined = FlattenSeq(seqs)
    BY DEF IsJoined
  <1> DEFINE n == Len(seqs)
  <1>1. n \in Nat /\ DOMAIN seqs = 1..n /\ seqs # <<>>
    BY <1>0
  <1>2. PICK g : Joins(g, seqs, n) /\ FlattenSeq(seqs) = g[n]
    BY <1>0, <1>1, JoinIs
  <1> HIDE DEF n
  <1>3. \A m \in 1..n : g[m] \in Seq(S) /\ seqs[m] \in Seq(S)
    BY <1>0, <1>1, <1>2, JoinTyped DEF n
  <1>4. \A m \in 1..n : g[m] = IF m = 1 THEN seqs[m] ELSE g[m - 1] \o seqs[m]
    BY <1>2 DEF Joins
  <1> DEFINE Has(m) == \E p \in DOMAIN g[m] : g[m][p] = seqs[i][k]
             Bad == {m \in i..n : ~ Has(m)}
  <1>5. ASSUME Bad # {} PROVE FALSE
    <2>1. PICK m \in Bad : \A l \in Bad : m <= l
      <3>1. Bad \in SUBSET Nat
        BY <1>1
      <3> HIDE DEF Bad
      <3>2. QED BY <1>5, <3>1, SmallestExists
    <2>2. m \in i..n /\ m \in 1..n /\ ~ Has(m) /\ i \in Nat
      BY <1>1
    <2>3. g[m] \in Seq(S) /\ seqs[m] \in Seq(S)
      BY <1>3, <2>2
    <2>4. CASE m = 1
      <3>1. i = 1 /\ g[m] = seqs[i]
        BY <1>1, <1>4, <2>2, <2>4
      <3>2. QED BY <2>2, <3>1
    <2>5. CASE m # 1
      <3>1. PICK a, b : a = g[m - 1] /\ b = seqs[m]
        OBVIOUS
      <3>2. a \in Seq(S) /\ b \in Seq(S) /\ g[m] = a \o b
        <4>1. m - 1 \in 1..n
          BY <1>1, <2>2, <2>5
        <4>2. QED BY <1>3, <1>4, <2>2, <2>5, <3>1, <4>1
      <3>3. /\ Len(g[m]) = Len(a) + Len(b) /\ Len(a) \in Nat /\ Len(b) \in Nat
            /\ DOMAIN g[m] = 1..(Len(a) + Len(b))
            /\ \A p \in 1..Len(a) : g[m][p] = a[p]
            /\ \A p \in 1..Len(b) : g[m][Len(a) + p] = b[p]
        BY <3>2, ConcatProperties
      <3>4. CASE m = i
        <4>1. k \in 1..Len(b) /\ b = seqs[i]
          BY <1>3, <2>2, <3>1, <3>4
        <4>2. Len(a) + k \in DOMAIN g[m] /\ g[m][Len(a) + k] = seqs[i][k]
          BY <3>3, <4>1
        <4>3. QED BY <2>2, <4>2
      <3>5. CASE m # i
        <4>1. m - 1 \in i..n /\ ~ (m <= m - 1)
          BY <1>1, <2>2, <3>5
        <4>2. m - 1 \notin Bad
          <5> HIDE DEF Bad
          <5>1. QED BY <2>1, <4>1
        <4>3. PICK p \in DOMAIN a : a[p] = seqs[i][k]
          BY <3>1, <4>1, <4>2
        <4>4. p \in DOMAIN g[m] /\ g[m][p] = seqs[i][k]
          BY <3>2, <3>3, <4>3
        <4>5. QED BY <2>2, <4>4
      <3>6. QED BY <3>4, <3>5
    <2>6. QED BY <2>4, <2>5
  <1>6. Has(n)
    <2>1. n \in i..n
      BY <1>1
    <2>2. n \notin Bad
      <3> HIDE DEF Bad
      <3>1. QED BY <1>5
    <2>3. QED BY <2>1, <2>2
  <1>7. QED BY <1>0, <1>2, <1>6

(* Lists that go together two by two are joined to such lists.                *)
GoTogether(s, r, R) == Len(s) = Len(r) /\ \A k \in 1..Len(s) : <<s[k], r[k]>> \in R

LEMMA JoinsGoTogether ==
  ASSUME NEW S, NEW seqs \in Seq(Seq(S)), NEW T, NEW others \in Seq(Seq(T)), NEW R,
         Len(seqs) = Len(others), \A i \in 1..Len(seqs) : GoTogether(seqs[i], others[i], R)
  PROVE  GoTogether(FlattenSeq(seqs), FlattenSeq(others), R)
PROOF
  <1> DEFINE n == Len(seqs)
  <1>1. n \in Nat
    OBVIOUS
  <1>2. CASE n = 0
    <2>1. seqs = <<>> /\ others = <<>>
      BY <1>2, EmptySeq
    <2>2. FlattenSeq(seqs) = <<>> /\ FlattenSeq(others) = <<>>
      BY <2>1 DEF FlattenSeq
    <2>3. QED BY <2>2 DEF GoTogether
  <1>3. CASE n # 0
    <2>1. seqs # <<>> /\ others # <<>>
      BY <1>3
    <2>2. PICK g : Joins(g, seqs, n) /\ FlattenSeq(seqs) = g[n]
      BY <2>1, JoinIs
    <2>3. PICK h : Joins(h, others, n) /\ FlattenSeq(others) = h[n]
      BY <2>1, JoinIs
    <2>4. /\ \A m \in 1..n : g[m] \in Seq(S) /\ seqs[m] \in Seq(S)
          /\ \A m \in 1..n : h[m] \in Seq(T) /\ others[m] \in Seq(T)
      BY <2>2, <2>3, JoinTyped
    <2>5. /\ \A m \in 1..n : g[m] = IF m = 1 THEN seqs[m] ELSE g[m - 1] \o seqs[m]
          /\ \A m \in 1..n : h[m] = IF m = 1 THEN others[m] ELSE h[m - 1] \o others[m]
      BY <2>2, <2>3 DEF Joins
    <2>6. \A m \in 1..n : GoTogether(seqs[m], others[m], R)
      OBVIOUS
    <2> HIDE DEF n
    <2> DEFINE Bad == {m \in 1..n : ~ GoTogether(g[m], h[m], R)}
    <2>7. ASSUME Bad # {} PROVE FALSE
      <3>1. PICK m \in Bad : \A l \in Bad : m <= l
        <4>1. Bad \in SUBSET Nat
          BY <1>1
        <4> HIDE DEF Bad
        <4>2. QED BY <2>7, <4>1, SmallestExists
      <3>2. m \in 1..n /\ ~ GoTogether(g[m], h[m], R)
        OBVIOUS
      <3>3. CASE m = 1
        BY <2>5, <2>6, <3>2, <3>3
      <3>4. CASE m # 1
        <4>1. m - 1 \in 1..n /\ ~ (m <= m - 1)
          BY <1>1, <3>2, <3>4
        <4>2. m - 1 \notin Bad
          <5> HIDE DEF Bad
          <5>1. QED BY <3>1, <4>1
        <4>3. GoTogether(g[m - 1], h[m - 1], R)
          BY <4>1, <4>2
        <4>4. PICK a, b, c, d : a = g[m - 1] /\ b = seqs[m] /\ c = h[m - 1] /\ d = others[m]
          OBVIOUS
        <4>5. /\ a \in Seq(S) /\ b \in Seq(S) /\ c \in Seq(T) /\ d \in Seq(T)
              /\ g[m] = a \o b /\ h[m] = c \o d /\ GoTogether(a, c, R) /\ GoTogether(b, d, R)
          BY <2>4, <2>5, <2>6, <3>2, <3>4, <4>1, <4>3, <4>4
        <4>6. GoTogether(a \o b, c \o d, R)
          <5>1. /\ Len(a) \in Nat /\ Len(b) \in Nat /\ Len(c) = Len(a) /\ Len(d) = Len(b)
                /\ Len(a \o b) = Len(a) + Len(b) /\ Len(c \o d) = Len(a) + Len(b)
            BY <4>5, ConcatProperties DEF GoTogether
          <5>2. ASSUME NEW k \in 1..(Len(a) + Len(b)) PROVE <<(a \o b)[k], (c \o d)[k]>> \in R
            <6>1. CASE k <= Len(a)
              <7>1. k \in 1..Len(a) /\ (a \o b)[k] = a[k] /\ (c \o d)[k] = c[k]
                BY <4>5, <5>1, <6>1, ConcatProperties
              <7>2. QED BY <4>5, <7>1 DEF GoTogether
            <6>2. CASE ~ (k <= Len(a))
              <7>1. /\ k - Len(a) \in 1..Len(b) /\ (a \o b)[k] = b[k - Len(a)]
                    /\ (c \o d)[k] = d[k - Len(a)]
                BY <4>5, <5>1, <6>2, ConcatProperties
              <7>2. QED BY <4>5, <7>1 DEF GoTogether
            <6>3. QED BY <6>1, <6>2
          <5>3. QED BY <5>1, <5>2 DEF GoTogether
        <4>7. QED BY <3>2, <4>5, <4>6
      <3>5. QED BY <3>3, <3>4
    <2>8. GoTogether(g[n], h[n], R)
      <3>1. n \in 1..n
        BY <1>1, <1>3 DEF n
      <3>2. n \notin Bad
        <4> HIDE DEF Bad
        <4>1. QED BY <2>7
      <3>3. QED BY <3>1, <3>2
    <2>9. QED BY <2>2, <2>3, <2>8
  <1>4. QED BY <1>2, <1>3
-----------------------------------------------------------------------------
(* The hypothesis on ids.                                                     *)
IdsAreGiven == \A file : IsInput(file) => GivesIds(file)

LEMMA NodeIsNamed ==
  \A n : n \in ToSet(nodes) => n.id \in NodeIdsOf
BY DEF NodeIdsOf

(* The entries of nodes, for the parts of the snapshot that name them.        *)
LEMMA NodeEntries ==
  ASSUME TreesAreParsed, NodesStand
  PROVE  /\ IsList(nodes) /\ DOMAIN nodes = 1..Len(nodes) /\ Len(nodes) \in Nat
         /\ \A i \in DOMAIN nodes : /\ nodes[i].start \in Nat /\ nodes[i].end \in Nat
                                    /\ nodes[i].start <= nodes[i].end /\ nodes[i].id \in NodeIdsOf
         /\ \E who : /\ \A i \in DOMAIN nodes : /\ who[i] \in Nodes(input.tree)
                                                /\ nodes[i].start = input.tree.start[who[i]]
                                                /\ nodes[i].end = input.tree.end[who[i]]
                                                /\ nodes[i].id[3] = input.tree.kind[who[i]]
                     /\ \A i, j \in DOMAIN nodes : who[i] = who[j] => i = j
PROOF
  <1>1. IsInput(input) /\ IsTree(input.tree)
    BY DEF NodesStand, TreesAreParsed
  <1>2. PICK t, copies, who :
          t = input.tree /\ copies = nodes /\ WalkIs(t, frames, nodeIds, copies, who)
    BY DEF NodesStand
  <1>3. CopiesStand(t, frames, copies, who)
    BY <1>2 DEF WalkIs
  <1>4. /\ IsList(copies) /\ who \in Seq(CopiedIn(t)) /\ Len(copies) = Len(who)
        /\ \A i \in DOMAIN who : CopyStands(t, copies[i], who[i])
        /\ \A i, k \in DOMAIN who : who[i] = who[k] => i = k
    BY <1>3 DEF CopiesStand
  <1>5. /\ Len(copies) \in Nat /\ DOMAIN copies = 1..Len(copies) /\ DOMAIN who = DOMAIN copies
        /\ \A i \in DOMAIN who : who[i] \in CopiedIn(t)
    BY <1>4 DEF IsList
  <1>6. CopiedIn(t) \subseteq Nodes(t)
    BY <1>1, <1>2, CopiedFacts
  <1>7. \A n \in Nodes(t) : t.start[n] \in Nat /\ t.end[n] \in Nat /\ t.start[n] <= t.end[n]
    BY <1>1, <1>2, TreeFacts DEF IsTree, Nodes
  <1>8. ASSUME NEW i \in DOMAIN copies
        PROVE  /\ who[i] \in Nodes(t) /\ copies[i].start = t.start[who[i]] /\ copies[i].end = t.end[who[i]]
               /\ copies[i].id[3] = t.kind[who[i]]
               /\ copies[i].start \in Nat /\ copies[i].end \in Nat
               /\ copies[i].start <= copies[i].end /\ copies[i].id \in NodeIdsOf
    <2>1. who[i] \in Nodes(t) /\ CopyStands(t, copies[i], who[i])
      BY <1>4, <1>5, <1>6
    <2>2. copies[i].start = t.start[who[i]] /\ copies[i].end = t.end[who[i]]
      BY <2>1 DEF CopyStands
    <2>3. copies[i].id[3] = t.kind[who[i]]
      BY <2>1 DEF CopyStands, IdIn
    <2>4. copies[i].id \in NodeIdsOf
      <3>1. copies[i] \in ToSet(nodes)
        BY <1>2 DEF ToSet
      <3>2. QED BY <3>1, NodeIsNamed
    <2>5. QED BY <1>7, <2>1, <2>2, <2>3, <2>4
  <1>9. /\ IsList(nodes) /\ DOMAIN nodes = 1..Len(nodes) /\ Len(nodes) \in Nat
        /\ \A i \in DOMAIN nodes : /\ nodes[i].start \in Nat /\ nodes[i].end \in Nat
                                   /\ nodes[i].start <= nodes[i].end /\ nodes[i].id \in NodeIdsOf
    BY <1>2, <1>4, <1>5, <1>8
  <1>10. /\ \A i \in DOMAIN nodes : /\ who[i] \in Nodes(input.tree)
                                    /\ nodes[i].start = input.tree.start[who[i]]
                                    /\ nodes[i].end = input.tree.end[who[i]]
                                    /\ nodes[i].id[3] = input.tree.kind[who[i]]
         /\ \A i, j \in DOMAIN nodes : who[i] = who[j] => i = j
    BY <1>2, <1>4, <1>5, <1>8
  <1>11. QED BY <1>9, <1>10

(* When the walk is over, a span is turned into the id of an entry.           *)
LEMMA NodesAreNamed ==
  ASSUME TreesAreParsed, NodesStand, frames = <<>>
  PROVE  /\ \A span \in DOMAIN nodeIds : nodeIds[span] \in NodeIdsOf
         /\ \A span : Syntax!ExactNode(span) \in NodeIdsOf \union {None}
         /\ \A span : Syntax!NodeOf(span) \in NodeIdsOf \union {None}
PROOF
  <1>1. IsInput(input) /\ IsTree(input.tree)
    BY DEF NodesStand, TreesAreParsed
  <1>2. PICK t, ids, copies, who :
          /\ t = input.tree /\ ids = nodeIds /\ copies = nodes
          /\ WalkIs(t, <<>>, ids, copies, who)
    BY DEF NodesStand
  <1>3. /\ who \in Seq(CopiedIn(t)) /\ IsList(copies) /\ Len(copies) = Len(who)
        /\ \A i \in DOMAIN who : CopyStands(t, copies[i], who[i])
        /\ SpansStand(t, Entered(<<>>, who), ids)
    BY <1>2 DEF WalkIs, CopiesStand
  <1>4. Entered(<<>>, who) = {who[i] : i \in DOMAIN who}
    BY DEF Entered
  <1>5. ASSUME NEW span \in DOMAIN ids PROVE ids[span] \in NodeIdsOf
    <2> DEFINE same == {x \in Entered(<<>>, who) : SpanIn(t, x) = span}
    <2>1. same # {}
      BY <1>3 DEF SpansStand
    <2>2. Len(t.parent) \in Nat /\ same \subseteq 0..Len(t.parent)
      <3>1. \A i \in DOMAIN who : who[i] \in Nodes(t)
        BY <1>1, <1>2, <1>3, CopiedFacts
      <3>2. QED BY <1>1, <1>2, <1>4, <3>1, TreeFacts
    <2>3. PICK x \in same : \A y \in same : y <= x
      <3> HIDE DEF same
      <3>1. QED BY <2>1, <2>2, LargestExists
    <2>4. x \in Entered(<<>>, who) /\ ids[span] = IdIn(t, x)
      BY <1>3, <2>3 DEF SpansStand
    <2>5. PICK i \in DOMAIN who : x = who[i]
      BY <1>4, <2>4
    <2>6. i \in DOMAIN copies /\ copies[i].id = IdIn(t, x)
      <3>1. i \in DOMAIN copies
        BY <1>3 DEF IsList
      <3>2. CopyStands(t, copies[i], x)
        BY <1>3, <2>5
      <3>3. QED BY <3>1, <3>2 DEF CopyStands
    <2>7. copies[i] \in ToSet(nodes)
      BY <1>2, <2>6 DEF ToSet
    <2>8. QED BY <2>4, <2>6, <2>7, NodeIsNamed
  <1>6. \A span : Syntax!ExactNode(span) \in NodeIdsOf \union {None}
    BY <1>2, <1>5 DEF Syntax!ExactNode
  <1>7. ASSUME NEW span PROVE Syntax!SmallestNode(span) \in NodeIdsOf \union {None}
    <2> DEFINE around == {i \in DOMAIN nodes : nodes[i].start <= span[1] /\ nodes[i].end >= span[2]}
               size(i) == Syntax!Size(nodes[i])
               smallest == {i \in around : \A j \in around : size(i) <= size(j)}
    <2>1. Syntax!SmallestNode(span) =
            IF around = {} THEN None ELSE nodes[CHOOSE i \in smallest : \A j \in smallest : i <= j].id
      BY DEF Syntax!SmallestNode
    <2>2. CASE around = {}
      BY <2>1, <2>2
    <2>3. CASE around # {}
      <3>1. /\ DOMAIN nodes \subseteq Nat
            /\ \A i \in DOMAIN nodes : size(i) \in Nat /\ nodes[i].id \in NodeIdsOf
        BY NodeEntries DEF Syntax!Size
      <3> HIDE DEF size
      <3>2. PICK i \in around : \A j \in around : size(i) <= size(j)
        <4> DEFINE sizes == {size(i) : i \in around}
        <4>1. sizes \in SUBSET Nat /\ sizes # {}
          BY <2>3, <3>1
        <4>2. PICK n \in sizes : \A m \in sizes : n <= m
          <5> HIDE DEF sizes
          <5>1. QED BY <4>1, SmallestExists
        <4>3. QED BY <4>2
      <3>3. smallest \in SUBSET Nat /\ smallest # {}
        BY <3>1, <3>2
      <3>4. PICK least \in smallest : \A j \in smallest : least <= j
        <4> HIDE DEF smallest
        <4>1. QED BY <3>3, SmallestExists
      <3>5. (CHOOSE k \in smallest : \A j \in smallest : k <= j) \in smallest
        <4> HIDE DEF smallest
        <4>1. QED BY <3>4
      <3>6. (CHOOSE k \in smallest : \A j \in smallest : k <= j) \in DOMAIN nodes
        BY <3>5
      <3> HIDE DEF smallest
      <3>7. QED BY <2>1, <2>3, <3>1, <3>6
    <2>4. QED BY <2>2, <2>3
  <1>8. QED BY <1>2, <1>5, <1>6, <1>7 DEF Syntax!NodeOf

(* The lambdas: entries of nodes, each once, with a span of its own.          *)
IsLambdaNode(n) ==
  /\ n.start \in Nat /\ n.end \in Nat /\ n.start <= n.end
  /\ n.id \in NodeIdsOf /\ n.id[3] = LambdaKind

LEMMA LambdasAreApart ==
  ASSUME TreesAreParsed, IdsAreGiven, NodesStand
  PROVE  /\ IsList(Lambdas) /\ DOMAIN Lambdas = 1..Len(Lambdas) /\ Len(Lambdas) \in Nat
         /\ \A k \in DOMAIN Lambdas : IsLambdaNode(Lambdas[k])
         /\ \A k, l \in DOMAIN Lambdas :
              Lambdas[k].start = Lambdas[l].start /\ Lambdas[k].end = Lambdas[l].end => k = l
PROOF
  <1> DEFINE S == {i \in DOMAIN nodes : nodes[i].id[3] = LambdaKind}
  <1>1. /\ IsList(nodes) /\ DOMAIN nodes = 1..Len(nodes) /\ Len(nodes) \in Nat
        /\ \A i \in DOMAIN nodes : /\ nodes[i].start \in Nat /\ nodes[i].end \in Nat
                                   /\ nodes[i].start <= nodes[i].end /\ nodes[i].id \in NodeIdsOf
    BY NodeEntries
  <1>2. PICK who : /\ \A i \in DOMAIN nodes : /\ who[i] \in Nodes(input.tree)
                                              /\ nodes[i].start = input.tree.start[who[i]]
                                              /\ nodes[i].end = input.tree.end[who[i]]
                                              /\ nodes[i].id[3] = input.tree.kind[who[i]]
                   /\ \A i, j \in DOMAIN nodes : who[i] = who[j] => i = j
    BY NodeEntries
  <1>3. \A m, n \in Nodes(input.tree) :
          /\ input.tree.kind[m] = LambdaKind /\ input.tree.kind[n] = LambdaKind
          /\ input.tree.start[m] = input.tree.start[n] /\ input.tree.end[m] = input.tree.end[n]
          => m = n
    BY DEF IdsAreGiven, GivesIds, NodesStand, Nodes
  <1>4. S \in SUBSET Nat /\ IsFiniteSet(S)
    <2>1. IsFiniteSet(1..Len(nodes)) /\ S \subseteq 1..Len(nodes)
      BY <1>1, FS_Interval
    <2>2. QED BY <2>1, FS_Subset
  <1>5. PICK places, n : places = Rising(S) /\ n = Cardinality(S)
    OBVIOUS
  <1>6. /\ n \in Nat /\ places \in [1..n -> S]
        /\ \A i, j \in 1..n : i < j <=> places[i] < places[j]
    <2> HIDE DEF S
    <2>1. QED BY <1>4, <1>5, RisingFacts
  <1>7. PICK lambdas : lambdas = [k \in 1..n |-> nodes[places[k]]]
    OBVIOUS
  <1>8. Lambdas = lambdas
    BY <1>5, <1>6, <1>7 DEF Lambdas
  <1>9. DOMAIN lambdas = 1..n /\ lambdas = [k \in 1..n |-> lambdas[k]]
    BY <1>7
  <1>10. IsList(lambdas) /\ Len(lambdas) = n
    BY <1>6, <1>9, FromTo
  <1>11. ASSUME NEW k \in 1..n
         PROVE  /\ places[k] \in S /\ places[k] \in DOMAIN nodes /\ lambdas[k] = nodes[places[k]]
                /\ IsLambdaNode(lambdas[k])
    <2>1. places[k] \in S /\ lambdas[k] = nodes[places[k]]
      BY <1>6, <1>7
    <2>2. QED BY <1>1, <2>1 DEF IsLambdaNode
  <1>12. ASSUME NEW k \in 1..n, NEW l \in 1..n,
                lambdas[k].start = lambdas[l].start, lambdas[k].end = lambdas[l].end
         PROVE  k = l
    <2>1. /\ places[k] \in S /\ places[k] \in DOMAIN nodes /\ lambdas[k] = nodes[places[k]]
          /\ places[l] \in S /\ places[l] \in DOMAIN nodes /\ lambdas[l] = nodes[places[l]]
      BY <1>11
    <2>2. PICK i, j : i = places[k] /\ j = places[l]
      OBVIOUS
    <2>3. /\ i \in DOMAIN nodes /\ nodes[i].id[3] = LambdaKind
          /\ j \in DOMAIN nodes /\ nodes[j].id[3] = LambdaKind
          /\ nodes[i].start = nodes[j].start /\ nodes[i].end = nodes[j].end
      BY <1>12, <2>1, <2>2
    <2>4. who[i] = who[j]
      BY <1>2, <1>3, <2>3
    <2>5. i = j
      BY <1>2, <2>3, <2>4
    <2>6. ~ (k < l) /\ ~ (l < k)
      <3>1. i \in Nat /\ j \in Nat
        BY <1>1, <2>3
      <3>2. (k < l => i < j) /\ (l < k => j < i)
        <4> HIDE DEF S
        <4>1. QED BY <1>6, <2>2
      <3>3. QED BY <2>5, <3>1, <3>2
    <2>7. QED BY <1>6, <2>6
  <1>13. QED BY <1>6, <1>8, <1>9, <1>10, <1>11, <1>12
-----------------------------------------------------------------------------
(* A list of symbols: each has an id of its own, and what contains it has an  *)
(* entry in the list.                                                         *)
IsEntry(e) == e = [id |-> e.id, declaration |-> e.declaration, node |-> e.node, container |-> e.container]

IsSymbol(e) ==
  /\ IsEntry(e) /\ e.id \in Seq(Nat) /\ Len(e.id) >= 2
  /\ e.node \in NodeIdsOf \union {None}

Contained(list, e) ==
  e.container = None \/ \E j \in DOMAIN list : list[j].id = e.container /\ IsAround(list[j], e)

HasId(list, id) == \E i \in DOMAIN list : list[i].id = id

SymbolsStand(list) ==
  /\ IsList(list) /\ Apart(list)
  /\ \A i \in DOMAIN list : IsSymbol(list[i]) /\ Contained(list, list[i])

LEMMA EntryFacts ==
  ASSUME NEW id, NEW span, NEW node, NEW container, NEW e, e = Entry(id, span, node, container)
  PROVE  /\ IsEntry(e) /\ e.id = id /\ e.node = node /\ e.container = container
         /\ e.declaration.span = span
BY DEF Entry, Location, IsEntry

LEMMA ListFacts ==
  ASSUME NEW s, IsList(s)
  PROVE  Len(s) \in Nat /\ DOMAIN s = 1..Len(s) /\ s = [i \in 1..Len(s) |-> s[i]]
BY DEF IsList

IsConcat(a, s, n, r, m) == IsList(s) /\ IsList(r) /\ a = s \o r /\ n = Len(s) /\ m = Len(r)

Follows(a, s, n, r, m) ==
  /\ IsList(a) /\ Len(a) = n + m /\ n \in Nat /\ m \in Nat
  /\ DOMAIN s = 1..n /\ DOMAIN r = 1..m /\ DOMAIN a = 1..(n + m)
  /\ \A i \in 1..n : a[i] = s[i]
  /\ \A i \in 1..m : a[n + i] = r[i]
  /\ \A i \in 1..(n + m) : i \notin 1..n => i - n \in 1..m /\ a[i] = r[i - n]

LEMMA ConcatFacts ==
  ASSUME NEW s, NEW r, NEW a, NEW n, NEW m, IsConcat(a, s, n, r, m)
  PROVE  Follows(a, s, n, r, m)
PROOF
  <1>0. IsList(s) /\ IsList(r) /\ a = s \o r /\ n = Len(s) /\ m = Len(r)
    BY DEF IsConcat
  <1>1. PICK S : S = ToSet(s) \union ToSet(r)
    OBVIOUS
  <1>2. s \in Seq(ToSet(s)) /\ r \in Seq(ToSet(r)) /\ ToSet(s) \subseteq S /\ ToSet(r) \subseteq S
    BY <1>0, <1>1 DEF IsList
  <1>3. s \in Seq(S) /\ r \in Seq(S)
    BY <1>2
  <1>4. a \in Seq(S)
    BY <1>0, <1>3, ConcatProperties
  <1>5. IsList(a)
    BY <1>4, ListsAre
  <1>6. QED BY <1>0, <1>3, <1>4, <1>5, ConcatProperties DEF Follows

(* Lists with ids that are apart, and nothing in common.                      *)
LEMMA ConcatApart ==
  ASSUME NEW s, NEW r, IsList(s), IsList(r), Apart(s), Apart(r),
         \A i \in DOMAIN s, j \in DOMAIN r : s[i].id # r[j].id
  PROVE  Apart(s \o r)
PROOF
  <1>1. PICK a, n, m : a = s \o r /\ n = Len(s) /\ m = Len(r)
    OBVIOUS
  <1>2. /\ n \in Nat /\ m \in Nat /\ DOMAIN s = 1..n /\ DOMAIN r = 1..m /\ DOMAIN a = 1..(n + m)
        /\ \A i \in 1..n : a[i] = s[i]
        /\ \A i \in 1..(n + m) : i \notin 1..n => i - n \in 1..m /\ a[i] = r[i - n]
    <2>1. IsConcat(a, s, n, r, m)
      BY <1>1 DEF IsConcat
    <2>2. Follows(a, s, n, r, m)
      BY <2>1, ConcatFacts
    <2>3. QED BY <2>2 DEF Follows
  <1>3. ASSUME NEW i \in 1..(n + m), NEW j \in 1..(n + m), a[i].id = a[j].id PROVE i = j
    <2>1. CASE i \in 1..n /\ j \in 1..n
      BY <1>2, <1>3, <2>1 DEF Apart
    <2>2. CASE i \notin 1..n /\ j \notin 1..n
      <3>1. i - n \in DOMAIN r /\ j - n \in DOMAIN r /\ r[i - n].id = r[j - n].id
        BY <1>2, <1>3, <2>2
      <3>2. i - n = j - n
        BY <3>1 DEF Apart
      <3>3. QED BY <1>2, <3>2
    <2>3. CASE i \in 1..n /\ j \notin 1..n
      BY <1>2, <1>3, <2>3
    <2>4. CASE i \notin 1..n /\ j \in 1..n
      BY <1>2, <1>3, <2>4
    <2>5. QED BY <2>1, <2>2, <2>3, <2>4
  <1>4. QED BY <1>1, <1>2, <1>3 DEF Apart

(* Sorting such a list leaves it such.                                        *)
LEMMA SortedStands ==
  ASSUME NEW list, SymbolsStand(list), NEW sorted, sorted = ById(list)
  PROVE  /\ SymbolsStand(sorted)
         /\ \A i \in DOMAIN list : \E k \in DOMAIN sorted : sorted[k] = list[i]
         /\ \A k \in DOMAIN sorted : \E i \in DOMAIN list : sorted[k] = list[i]
PROOF
  <1>1. PICK n : n = Len(list)
    OBVIOUS
  <1>2. IsList(list) /\ n \in Nat /\ DOMAIN list = 1..n
    BY <1>1, ListFacts DEF SymbolsStand
  <1>3. \A i \in 1..n : list[i].id[1] \in Nat /\ list[i].id[2] \in Nat
    <2>1. ASSUME NEW i \in 1..n PROVE list[i].id[1] \in Nat /\ list[i].id[2] \in Nat
      <3>1. PICK id : id = list[i].id
        OBVIOUS
      <3>2. id \in Seq(Nat) /\ Len(id) >= 2
        BY <1>2, <3>1 DEF SymbolsStand, IsSymbol
      <3>3. id[1] \in Nat /\ id[2] \in Nat
        BY <3>2
      <3>4. QED BY <3>1, <3>3
    <2>2. QED BY <2>1
  <1>4. Permutes(sorted, list, n) /\ (Apart(list) => Apart(sorted))
    <2>1. HasIds(list, n)
      BY <1>2, <1>3 DEF HasIds
    <2>2. QED BY <2>1, ByIdFacts
  <1>5. /\ DOMAIN sorted = 1..n /\ sorted = [k \in 1..n |-> sorted[k]]
        /\ \A i \in 1..n : \E k \in 1..n : sorted[k] = list[i]
        /\ \A k \in 1..n : \E i \in 1..n : sorted[k] = list[i]
    BY <1>4 DEF Permutes
  <1>6. IsList(sorted) /\ Apart(sorted)
    BY <1>2, <1>4, <1>5, FromTo DEF SymbolsStand
  <1>7. ASSUME NEW k \in 1..n PROVE IsSymbol(sorted[k]) /\ Contained(sorted, sorted[k])
    <2>1. PICK i \in 1..n : sorted[k] = list[i]
      BY <1>5
    <2>2. IsSymbol(list[i]) /\ Contained(list, list[i])
      BY <1>2 DEF SymbolsStand
    <2>3. Contained(sorted, list[i])
      <3>1. CASE list[i].container = None
        BY <3>1 DEF Contained
      <3>2. CASE list[i].container # None
        <4>1. PICK j \in 1..n : list[j].id = list[i].container /\ IsAround(list[j], list[i])
          BY <1>2, <2>2, <3>2 DEF Contained
        <4>2. PICK l \in 1..n : sorted[l] = list[j]
          BY <1>5
        <4>3. QED BY <1>5, <4>1, <4>2 DEF Contained
      <3>3. QED BY <3>1, <3>2
    <2>4. QED BY <2>1, <2>2, <2>3
  <1>8. QED BY <1>2, <1>5, <1>6, <1>7 DEF SymbolsStand

(* Such a list is closed.                                                     *)
LEMMA StandingSymbolsAreClosed ==
  ASSUME SymbolsStand(symbols)
  PROVE  /\ Cardinality(SymbolIdsOf) = Len(symbols)
         /\ \A s \in ToSet(symbols) :
              /\ s.node \in NodeIdsOf \union {None} /\ s.container \in SymbolIdsOf \union {None}
              /\ \A c \in ToSet(symbols) : s.container = c.id => IsAround(c, s)
         /\ \A i \in DOMAIN symbols : symbols[i].id \in SymbolIdsOf
PROOF
  <1>1. PICK n : n = Len(symbols)
    OBVIOUS
  <1>2. n \in Nat /\ DOMAIN symbols = 1..n
    BY <1>1, ListFacts DEF SymbolsStand
  <1>3. \A s : s \in ToSet(symbols) <=> \E i \in 1..n : s = symbols[i]
    BY <1>2 DEF ToSet
  <1>4. \A id : id \in SymbolIdsOf <=> \E i \in 1..n : id = symbols[i].id
    BY <1>3 DEF SymbolIdsOf
  <1>5. PICK ids : ids = [i \in 1..n |-> symbols[i].id]
    OBVIOUS
  <1>6. ids \in Bijection(1..n, SymbolIdsOf)
    <2>1. ids \in [1..n -> SymbolIdsOf]
      BY <1>4, <1>5
    <2>2. \A i, j \in 1..n : ids[i] = ids[j] => i = j
      BY <1>2, <1>5 DEF SymbolsStand, Apart
    <2>3. \A id \in SymbolIdsOf : \E i \in 1..n : ids[i] = id
      BY <1>4, <1>5
    <2>4. QED BY <2>1, <2>2, <2>3 DEF Bijection, Injection, Surjection, IsInjective
  <1>7. Cardinality(SymbolIdsOf) = n
    <2>1. ExistsBijection(1..n, SymbolIdsOf)
      BY <1>6 DEF ExistsBijection
    <2>2. QED BY <1>2, <2>1, FS_CountingElements
  <1>8. ASSUME NEW i \in 1..n
        PROVE  /\ symbols[i].node \in NodeIdsOf \union {None}
               /\ symbols[i].container \in SymbolIdsOf \union {None}
               /\ \A k \in 1..n : symbols[i].container = symbols[k].id => IsAround(symbols[k], symbols[i])
    <2>1. IsSymbol(symbols[i]) /\ Contained(symbols, symbols[i])
      BY <1>2 DEF SymbolsStand
    <2>2. symbols[i].node \in NodeIdsOf \union {None}
      BY <2>1 DEF IsSymbol
    <2>3. CASE symbols[i].container = None
      <3>1. \A k \in 1..n : symbols[k].id # None
        BY <1>2, NoneAssumption DEF SymbolsStand, IsSymbol
      <3>2. QED BY <2>2, <2>3, <3>1
    <2>4. CASE symbols[i].container # None
      <3>1. PICK j \in 1..n : symbols[j].id = symbols[i].container /\ IsAround(symbols[j], symbols[i])
        BY <1>2, <2>1, <2>4 DEF Contained
      <3>2. \A k \in 1..n : symbols[i].container = symbols[k].id => k = j
        BY <1>2, <3>1 DEF SymbolsStand, Apart
      <3>3. symbols[i].container \in SymbolIdsOf
        BY <1>4, <3>1
      <3>4. QED BY <2>2, <3>1, <3>2, <3>3
    <2>5. QED BY <2>3, <2>4
  <1>9. QED BY <1>1, <1>2, <1>3, <1>4, <1>7, <1>8
-----------------------------------------------------------------------------
(* push_global_symbol, for one declaration and its members.                   *)
LEMMA PushedFacts ==
  ASSUME TreesAreParsed, NodesStand, frames = <<>>, NEW d, IsList(d.members), NEW space,
         NEW pushed, pushed = Pushed(d, space), NEW all, all = WithMembers(d)
  PROVE  /\ IsList(pushed) /\ IsList(all) /\ Len(pushed) = Len(all) /\ 1 \in 1..Len(pushed)
         /\ \A k \in 1..Len(pushed) : /\ IsEntry(pushed[k]) /\ pushed[k].id = <<space, all[k].id>>
                                      /\ pushed[k].node \in NodeIdsOf \union {None}
                                      /\ pushed[k].container \in {None, <<space, d.id>>}
         /\ pushed[1].id = <<space, d.id>> /\ pushed[1].container = None
PROOF
  <1> DEFINE entry(e, c) == Entry(<<space, e.id>>, e.name, NodeOfDeclaration(e), c)
  <1>1. \A e, c : /\ IsEntry(entry(e, c)) /\ entry(e, c).id = <<space, e.id>>
                  /\ entry(e, c).container = c /\ entry(e, c).node = NodeOfDeclaration(e)
    BY DEF Entry, IsEntry
  <1>2. \A e : NodeOfDeclaration(e) \in NodeIdsOf \union {None}
    BY NodesAreNamed DEF NodeOfDeclaration
  <1> HIDE DEF entry
  <1>3. PICK members, m : members = d.members /\ m = Len(members)
    OBVIOUS
  <1>4. IsList(members) /\ m \in Nat /\ DOMAIN members = 1..m
    BY <1>3, ListFacts
  <1>5. PICK one, rest : /\ one = <<entry(d, None)>>
                         /\ rest = [i \in 1..m |-> entry(members[i], <<space, d.id>>)]
    OBVIOUS
  <1>6. pushed = one \o rest
    BY <1>3, <1>4, <1>5 DEF Pushed, entry
  <1>7. IsList(one) /\ Len(one) = 1 /\ one[1] = entry(d, None)
    BY <1>5 DEF IsList, ToSet
  <1>8. IsList(rest) /\ Len(rest) = m /\ \A i \in 1..m : rest[i] = entry(members[i], <<space, d.id>>)
    <2>1. DOMAIN rest = 1..m /\ rest = [i \in 1..m |-> rest[i]]
      BY <1>5
    <2>2. QED BY <1>4, <1>5, <2>1, FromTo
  <1>9. PICK first : first = <<d>>
    OBVIOUS
  <1>10. IsList(first) /\ Len(first) = 1 /\ first[1] = d /\ all = first \o members
    BY <1>3, <1>9 DEF IsList, ToSet, WithMembers
  <1>11. /\ IsList(pushed) /\ Len(pushed) = 1 + m
         /\ \A i \in 1..1 : pushed[i] = one[i]
         /\ \A i \in 1..(1 + m) : i \notin 1..1 => i - 1 \in 1..m /\ pushed[i] = rest[i - 1]
    <2>1. IsConcat(pushed, one, 1, rest, m)
      BY <1>6, <1>7, <1>8 DEF IsConcat
    <2>2. Follows(pushed, one, 1, rest, m)
      BY <2>1, ConcatFacts
    <2>3. QED BY <2>2 DEF Follows
  <1>12. /\ IsList(all) /\ Len(all) = 1 + m
         /\ \A i \in 1..1 : all[i] = first[i]
         /\ \A i \in 1..(1 + m) : i \notin 1..1 => i - 1 \in 1..m /\ all[i] = members[i - 1]
    <2>1. IsConcat(all, first, 1, members, m)
      BY <1>3, <1>4, <1>10 DEF IsConcat
    <2>2. Follows(all, first, 1, members, m)
      BY <2>1, ConcatFacts
    <2>3. QED BY <2>2 DEF Follows
  <1>13. ASSUME NEW k \in 1..(1 + m)
         PROVE  /\ IsEntry(pushed[k]) /\ pushed[k].id = <<space, all[k].id>>
                /\ pushed[k].node \in NodeIdsOf \union {None}
                /\ pushed[k].container \in {None, <<space, d.id>>}
    <2>1. CASE k \in 1..1
      <3>1. pushed[k] = entry(d, None) /\ all[k] = d
        BY <1>7, <1>10, <1>11, <1>12, <2>1
      <3>2. QED BY <1>1, <1>2, <3>1
    <2>2. CASE k \notin 1..1
      <3>1. pushed[k] = entry(members[k - 1], <<space, d.id>>) /\ all[k] = members[k - 1]
        BY <1>8, <1>11, <1>12, <2>2
      <3>2. QED BY <1>1, <1>2, <3>1
    <2>3. QED BY <2>1, <2>2
  <1>14. pushed[1] = entry(d, None)
    BY <1>7, <1>11
  <1>15. QED BY <1>1, <1>4, <1>11, <1>12, <1>13, <1>14

(* All of a list of declarations.                                             *)
PushesAll(pushed, list, space) ==
  /\ Declares(list) /\ space \in Nat
  /\ pushed = FlattenSeq([i \in DOMAIN list |-> Pushed(list[i], space)])

LEMMA DeclarationsArePushed ==
  ASSUME TreesAreParsed, NodesStand, frames = <<>>,
         NEW pushed, NEW list, NEW space, PushesAll(pushed, list, space)
  PROVE  /\ IsList(pushed) /\ Apart(pushed)
         /\ \A k \in DOMAIN pushed :
              /\ pushed[k].id[1] = space /\ IsSymbol(pushed[k])
              /\ \/ pushed[k].container = None
                 \/ \E j \in DOMAIN pushed : pushed[j].id = pushed[k].container /\ pushed[j].container = None
         /\ \A d \in ToSet(AllOf(list)) : HasId(pushed, <<space, d.id>>)
PROOF
  <1>0. /\ Declares(list) /\ space \in Nat
        /\ pushed = FlattenSeq([i \in DOMAIN list |-> Pushed(list[i], space)])
    BY DEF PushesAll
  <1> DEFINE of(i) == Pushed(list[i], space)
             whole(i) == WithMembers(list[i])
  <1>1. PICK n : n = Len(list)
    OBVIOUS
  <1>2. /\ n \in Nat /\ DOMAIN list = 1..n /\ HaveIds(AllOf(list))
        /\ \A i \in 1..n : list[i] \in ToSet(list) /\ IsList(list[i].members)
    <2>1. n \in Nat /\ DOMAIN list = 1..n
      BY <1>0, <1>1, ListFacts DEF Declares
    <2>2. \A i \in 1..n : list[i] \in ToSet(list)
      BY <2>1 DEF ToSet
    <2>3. QED BY <1>0, <2>1, <2>2 DEF Declares
  <1>3. ASSUME NEW i \in 1..n
        PROVE  /\ IsList(of(i)) /\ IsList(whole(i)) /\ Len(of(i)) = Len(whole(i)) /\ 1 \in 1..Len(of(i))
               /\ \A k \in 1..Len(of(i)) : /\ IsEntry(of(i)[k]) /\ of(i)[k].id = <<space, whole(i)[k].id>>
                                           /\ of(i)[k].node \in NodeIdsOf \union {None}
                                           /\ of(i)[k].container \in {None, <<space, list[i].id>>}
               /\ of(i)[1].id = <<space, list[i].id>> /\ of(i)[1].container = None
    <2>1. PICK d, p, a : d = list[i] /\ p = Pushed(d, space) /\ a = WithMembers(d)
      OBVIOUS
    <2>2. IsList(d.members)
      BY <1>2, <2>1
    <2>3. /\ IsList(p) /\ IsList(a) /\ Len(p) = Len(a) /\ 1 \in 1..Len(p)
          /\ \A k \in 1..Len(p) : /\ IsEntry(p[k]) /\ p[k].id = <<space, a[k].id>>
                                  /\ p[k].node \in NodeIdsOf \union {None}
                                  /\ p[k].container \in {None, <<space, d.id>>}
          /\ p[1].id = <<space, d.id>> /\ p[1].container = None
      BY <2>1, <2>2, PushedFacts
    <2>4. of(i) = p /\ whole(i) = a
      BY <2>1
    <2> HIDE DEF of, whole
    <2>5. QED BY <2>1, <2>3, <2>4
  <1>4. PICK seqs, others : seqs = [i \in 1..n |-> of(i)] /\ others = [i \in 1..n |-> whole(i)]
    OBVIOUS
  <1>5. pushed = FlattenSeq(seqs) /\ AllOf(list) = FlattenSeq(others)
    BY <1>0, <1>2, <1>4 DEF AllOf
  <1> HIDE DEF of, whole
  <1>6. PICK S, T : S = UNION {ToSet(of(i)) : i \in 1..n} /\ T = UNION {ToSet(whole(i)) : i \in 1..n}
    OBVIOUS
  <1>7. seqs \in Seq(Seq(S)) /\ Len(seqs) = n /\ others \in Seq(Seq(T)) /\ Len(others) = n
    <2>1. ASSUME NEW i \in 1..n PROVE of(i) \in Seq(S) /\ whole(i) \in Seq(T)
      <3>1. of(i) \in Seq(ToSet(of(i))) /\ whole(i) \in Seq(ToSet(whole(i)))
        BY <1>3 DEF IsList
      <3>2. ToSet(of(i)) \subseteq S /\ ToSet(whole(i)) \subseteq T
        BY <1>6
      <3>3. QED BY <3>1, <3>2
    <2>2. seqs \in [1..n -> Seq(S)] /\ others \in [1..n -> Seq(T)]
      BY <1>4, <2>1
    <2>3. QED BY <1>2, <2>2
  <1>8. /\ DOMAIN seqs = 1..n /\ DOMAIN others = 1..n
        /\ \A i \in 1..n : seqs[i] = of(i) /\ others[i] = whole(i)
    BY <1>4
  <1>9. PICK R : R = {r \in S \X T : r[1].id = <<space, r[2].id>>}
    OBVIOUS
  <1>10. ASSUME NEW i \in 1..n PROVE GoTogether(seqs[i], others[i], R)
    <2>1. ASSUME NEW k \in 1..Len(of(i)) PROVE <<of(i)[k], whole(i)[k]>> \in R
      <3>1. DOMAIN of(i) = 1..Len(of(i)) /\ DOMAIN whole(i) = 1..Len(of(i))
        BY <1>3, ListFacts
      <3>2. of(i)[k] \in ToSet(of(i)) /\ whole(i)[k] \in ToSet(whole(i))
        BY <3>1 DEF ToSet
      <3>3. PICK a, b : a = of(i)[k] /\ b = whole(i)[k]
        OBVIOUS
      <3>4. a \in S /\ b \in T /\ a.id = <<space, b.id>>
        BY <1>3, <1>6, <3>2, <3>3
      <3>5. <<a, b>> \in R
        BY <1>9, <3>4
      <3>6. QED BY <3>3, <3>5
    <2>2. QED BY <1>3, <1>8, <2>1 DEF GoTogether
  <1>11. PICK all : all = AllOf(list)
    OBVIOUS
  <1>12. GoTogether(pushed, all, R)
    BY <1>5, <1>7, <1>10, <1>11, JoinsGoTogether
  <1>13. pushed \in Seq(S) /\ all \in Seq(T)
    BY <1>5, <1>7, <1>11, JoinedIsList
  <1>14. PICK m : m = Len(pushed)
    OBVIOUS
  <1>15. /\ IsList(pushed) /\ m \in Nat /\ DOMAIN pushed = 1..m /\ DOMAIN all = 1..m
         /\ \A k \in 1..m : pushed[k] \in S /\ pushed[k].id = <<space, all[k].id>>
    <2>1. IsList(pushed) /\ m \in Nat /\ DOMAIN pushed = 1..m /\ Len(all) = m
      BY <1>12, <1>13, <1>14, ListsAre, ListFacts DEF GoTogether
    <2>2. DOMAIN all = 1..m
      BY <1>13, <2>1
    <2>3. ASSUME NEW k \in 1..m PROVE pushed[k] \in S /\ pushed[k].id = <<space, all[k].id>>
      <3>1. PICK a, b : a = pushed[k] /\ b = all[k]
        OBVIOUS
      <3>2. <<a, b>> \in R
        BY <1>12, <1>14, <3>1 DEF GoTogether
      <3>3. QED BY <1>9, <3>1, <3>2
    <2>4. QED BY <2>1, <2>2, <2>3
  <1>16. \A k \in 1..m : all[k].id \in Nat
    BY <1>2, <1>11, <1>15 DEF HaveIds
  <1>17. Apart(pushed)
    <2>1. ASSUME NEW k \in 1..m, NEW l \in 1..m, pushed[k].id = pushed[l].id PROVE k = l
      <3>1. <<space, all[k].id>> = <<space, all[l].id>>
        BY <1>15, <2>1
      <3>2. all[k].id = all[l].id
        BY <3>1
      <3>3. QED BY <1>2, <1>11, <1>15, <3>2 DEF HaveIds
    <2>2. QED BY <1>15, <2>1 DEF Apart
  <1>18. ASSUME NEW k \in 1..m
         PROVE  /\ pushed[k].id[1] = space /\ IsSymbol(pushed[k])
                /\ \/ pushed[k].container = None
                   \/ \E j \in DOMAIN pushed : pushed[j].id = pushed[k].container /\ pushed[j].container = None
    <2>1. PICK i \in 1..n : pushed[k] \in ToSet(of(i))
      BY <1>6, <1>15
    <2>2. PICK l \in 1..Len(of(i)) : pushed[k] = of(i)[l]
      <3>1. DOMAIN of(i) = 1..Len(of(i))
        BY <1>3, ListFacts
      <3>2. QED BY <2>1, <3>1 DEF ToSet
    <2>3. /\ IsEntry(pushed[k]) /\ pushed[k].node \in NodeIdsOf \union {None}
          /\ pushed[k].container \in {None, <<space, list[i].id>>}
      BY <1>3, <2>2
    <2>4. IsSymbol(pushed[k])
      <3>1. PICK id, x : id = pushed[k].id /\ x = all[k].id
        OBVIOUS
      <3>2. id = <<space, x>> /\ x \in Nat
        BY <1>15, <1>16, <3>1
      <3>3. id \in Seq(Nat) /\ Len(id) >= 2
        BY <1>0, <3>2
      <3>4. QED BY <2>3, <3>1, <3>3 DEF IsSymbol
    <2>5. PICK p \in DOMAIN pushed : pushed[p] = of(i)[1]
      <3>1. i \in DOMAIN seqs /\ 1 \in DOMAIN seqs[i] /\ seqs[i] = of(i)
        BY <1>3, <1>8, ListFacts
      <3>2. \A h \in DOMAIN seqs : \A k1 \in DOMAIN seqs[h] : \E p \in DOMAIN pushed : pushed[p] = seqs[h][k1]
        <4>1. IsJoined(pushed, seqs, S)
          BY <1>5, <1>7 DEF IsJoined
        <4>2. QED BY <4>1, JoinHas
      <3>3. QED BY <3>1, <3>2
    <2>6. pushed[p].id = <<space, list[i].id>> /\ pushed[p].container = None
      BY <1>3, <2>5
    <2>7. pushed[k].id[1] = space
      BY <1>15
    <2>8. QED BY <2>3, <2>4, <2>6, <2>7
  <1>19. ASSUME NEW d \in ToSet(all) PROVE HasId(pushed, <<space, d.id>>)
    <2>1. PICK k \in 1..m : d = all[k]
      BY <1>15 DEF ToSet
    <2>2. QED BY <1>15, <2>1 DEF HasId
  <1>20. QED BY <1>11, <1>15, <1>17, <1>18, <1>19
-----------------------------------------------------------------------------
(* The symbols before the lambdas: of the contract, of the program and the    *)
(* locals; all that a name can refer to is among them.                        *)
FirstSymbols(list) ==
  /\ SymbolsStand(list)
  /\ \A i \in DOMAIN list : list[i].id[1] \in {InContract, Global, Local}
  /\ \A id \in SymbolsIn(input) : HasId(list, id)

LEMMA LocalsArePushed ==
  ASSUME TreesAreParsed, NodesStand, frames = <<>>, HaveIds(input.locals),
         NEW pushed, pushed = [i \in DOMAIN input.locals |-> PushedLocal(input.locals[i])]
  PROVE  /\ IsList(pushed) /\ Apart(pushed)
         /\ \A k \in DOMAIN pushed :
              /\ pushed[k].id[1] = Local /\ IsSymbol(pushed[k])
              /\ pushed[k].container = None \/ (pushed[k].container \in symbolIds' /\ pushed[k].container[1] = Global)
         /\ \A l \in ToSet(input.locals) : HasId(pushed, <<Local, l.id>>)
PROOF
  <1>1. PICK locals, n : locals = input.locals /\ n = Len(locals)
    OBVIOUS
  <1>2. /\ n \in Nat /\ DOMAIN locals = 1..n
        /\ \A i \in 1..n : locals[i].id \in Nat
        /\ \A i, j \in 1..n : locals[i].id = locals[j].id => i = j
    BY <1>1, ListFacts DEF HaveIds
  <1>3. /\ DOMAIN pushed = 1..n /\ pushed = [i \in 1..n |-> pushed[i]]
        /\ \A i \in 1..n : pushed[i] = PushedLocal(locals[i])
    BY <1>1, <1>2
  <1>4. IsList(pushed)
    BY <1>2, <1>3, FromTo
  <1>5. ASSUME NEW i \in 1..n
        PROVE  /\ IsEntry(pushed[i]) /\ pushed[i].id = <<Local, locals[i].id>>
               /\ pushed[i].node \in NodeIdsOf \union {None}
               /\ pushed[i].container = None \/ (pushed[i].container \in symbolIds' /\ pushed[i].container[1] = Global)
    <2>1. PICK l : l = locals[i]
      OBVIOUS
    <2>2. PICK node, c : /\ node = Syntax!ExactNode(l.span)
                         /\ c = IF <<Global, l.within>> \in symbolIds' THEN <<Global, l.within>> ELSE None
      OBVIOUS
    <2>3. pushed[i] = Entry(<<Local, l.id>>, l.span, node, c)
      BY <1>3, <2>1, <2>2 DEF PushedLocal
    <2>4. /\ IsEntry(pushed[i]) /\ pushed[i].id = <<Local, l.id>>
          /\ pushed[i].node = node /\ pushed[i].container = c
      BY <2>3, EntryFacts
    <2>5. node \in NodeIdsOf \union {None}
      BY <2>2, NodesAreNamed
    <2>6. c = None \/ (c \in symbolIds' /\ c[1] = Global)
      BY <2>2
    <2>7. QED BY <2>1, <2>4, <2>5, <2>6
  <1>6. ASSUME NEW i \in 1..n PROVE pushed[i].id[1] = Local /\ IsSymbol(pushed[i])
    <2>1. PICK id, x : id = pushed[i].id /\ x = locals[i].id
      OBVIOUS
    <2>2. id = <<Local, x>> /\ x \in Nat /\ Local \in Nat
      BY <1>2, <1>5, <2>1 DEF Local
    <2>3. id \in Seq(Nat) /\ Len(id) >= 2 /\ id[1] = Local
      BY <2>2
    <2>4. QED BY <1>5, <2>1, <2>3 DEF IsSymbol
  <1>7. Apart(pushed)
    <2>1. ASSUME NEW i \in 1..n, NEW j \in 1..n, pushed[i].id = pushed[j].id PROVE i = j
      <3>1. <<Local, locals[i].id>> = <<Local, locals[j].id>>
        BY <1>5, <2>1
      <3>2. locals[i].id = locals[j].id
        BY <3>1
      <3>3. QED BY <1>2, <3>2
    <2>2. QED BY <1>3, <2>1 DEF Apart
  <1>8. ASSUME NEW l \in ToSet(locals) PROVE HasId(pushed, <<Local, l.id>>)
    <2>1. PICK i \in 1..n : l = locals[i]
      BY <1>2 DEF ToSet
    <2>2. QED BY <1>3, <1>5, <2>1 DEF HasId
  <1>9. QED BY <1>1, <1>3, <1>4, <1>5, <1>6, <1>7, <1>8

LEMMA SymbolsAreFirst ==
  ASSUME TreesAreParsed, IdsAreGiven, NodesStand, CollectSymbols
  PROVE  FirstSymbols(symbols')
PROOF
  <1>1. /\ frames = <<>> /\ Declares(input.contract) /\ Declares(input.globals) /\ HaveIds(input.locals)
        /\ symbolIds' = {<<Global, d.id>> : d \in ToSet(AllGlobals)}
    BY DEF CollectSymbols, Syntax!Walked, NodesStand, IdsAreGiven, GivesIds
  <1>2. PICK A : A = FlattenSeq([i \in DOMAIN input.contract |-> Pushed(input.contract[i], InContract)])
    OBVIOUS
  <1>3. PICK B : B = FlattenSeq([i \in DOMAIN input.globals |-> Pushed(input.globals[i], Global)])
    OBVIOUS
  <1>4. PICK C : C = [i \in DOMAIN input.locals |-> PushedLocal(input.locals[i])]
    OBVIOUS
  <1>5. symbols' = ById(A \o B \o C)
    BY <1>2, <1>3, <1>4 DEF CollectSymbols
  <1>6. /\ IsList(A) /\ Apart(A)
        /\ \A k \in DOMAIN A :
             /\ A[k].id[1] = InContract /\ IsSymbol(A[k])
             /\ A[k].container = None \/ \E j \in DOMAIN A : A[j].id = A[k].container /\ A[j].container = None
    <2>1. PICK list : list = input.contract
      OBVIOUS
    <2>2. PushesAll(A, list, InContract)
      BY <1>1, <1>2, <2>1 DEF PushesAll, InContract
    <2>3. QED BY <1>1, <2>2, DeclarationsArePushed
  <1>7. /\ IsList(B) /\ Apart(B)
        /\ \A k \in DOMAIN B :
             /\ B[k].id[1] = Global /\ IsSymbol(B[k])
             /\ B[k].container = None \/ \E j \in DOMAIN B : B[j].id = B[k].container /\ B[j].container = None
        /\ \A d \in ToSet(AllGlobals) : HasId(B, <<Global, d.id>>)
    <2>1. PICK list : list = input.globals
      OBVIOUS
    <2>2. PushesAll(B, list, Global)
      BY <1>1, <1>3, <2>1 DEF PushesAll, Global
    <2>3. ToSet(AllGlobals) = ToSet(AllOf(list))
      BY <2>1 DEF AllGlobals
    <2>4. QED BY <1>1, <2>2, <2>3, DeclarationsArePushed
  <1>8. /\ IsList(C) /\ Apart(C)
        /\ \A k \in DOMAIN C :
             /\ C[k].id[1] = Local /\ IsSymbol(C[k])
             /\ C[k].container = None \/ (C[k].container \in symbolIds' /\ C[k].container[1] = Global)
        /\ \A l \in ToSet(input.locals) : HasId(C, <<Local, l.id>>)
    BY <1>1, <1>4, LocalsArePushed
  <1>9. InContract # Global /\ Global # Local /\ InContract # Local /\ \A x \in {InContract, Global, Local} : x # OfLambda
    BY DEF InContract, Global, Local, OfLambda
  <1>10. PICK first, a, b : first = A \o B /\ a = Len(A) /\ b = Len(B)
    OBVIOUS
  <1>11. /\ IsList(first) /\ Len(first) = a + b /\ a \in Nat /\ b \in Nat
         /\ DOMAIN A = 1..a /\ DOMAIN B = 1..b /\ DOMAIN first = 1..(a + b)
         /\ \A i \in 1..a : first[i] = A[i]
         /\ \A i \in 1..b : first[a + i] = B[i]
         /\ \A i \in 1..(a + b) : i \notin 1..a => i - a \in 1..b /\ first[i] = B[i - a]
    <2>1. IsConcat(first, A, a, B, b)
      BY <1>6, <1>7, <1>10 DEF IsConcat
    <2>2. Follows(first, A, a, B, b)
      BY <2>1, ConcatFacts
    <2>3. QED BY <2>2 DEF Follows
  <1>12. PICK all, m, c : all = first \o C /\ m = a + b /\ c = Len(C)
    OBVIOUS
  <1>13. /\ IsList(all) /\ m \in Nat /\ c \in Nat
         /\ DOMAIN first = 1..m /\ DOMAIN C = 1..c /\ DOMAIN all = 1..(m + c)
         /\ \A i \in 1..m : all[i] = first[i]
         /\ \A i \in 1..c : all[m + i] = C[i]
         /\ \A i \in 1..(m + c) : i \notin 1..m => i - m \in 1..c /\ all[i] = C[i - m]
    <2>1. IsConcat(all, first, m, C, c)
      BY <1>8, <1>11, <1>12 DEF IsConcat
    <2>2. Follows(all, first, m, C, c)
      BY <2>1, ConcatFacts
    <2>3. QED BY <2>2 DEF Follows
  <1>14. /\ \A i \in DOMAIN A : \E p \in DOMAIN all : all[p] = A[i]
         /\ \A i \in DOMAIN B : \E p \in DOMAIN all : all[p] = B[i]
         /\ \A i \in DOMAIN C : \E p \in DOMAIN all : all[p] = C[i]
    <2>1. ASSUME NEW i \in 1..a PROVE i \in 1..(m + c) /\ all[i] = A[i]
      BY <1>11, <1>12, <1>13
    <2>2. ASSUME NEW i \in 1..b PROVE a + i \in 1..(m + c) /\ all[a + i] = B[i]
      <3>1. a + i \in 1..m
        BY <1>11, <1>12
      <3>2. QED BY <1>11, <1>13, <3>1
    <2>3. ASSUME NEW i \in 1..c PROVE m + i \in 1..(m + c) /\ all[m + i] = C[i]
      BY <1>13
    <2>4. QED BY <1>11, <1>13, <2>1, <2>2, <2>3
  <1>15. \A p \in DOMAIN all : \/ \E i \in DOMAIN A : all[p] = A[i]
                               \/ \E i \in DOMAIN B : all[p] = B[i]
                               \/ \E i \in DOMAIN C : all[p] = C[i]
    <2>1. ASSUME NEW p \in 1..(m + c), p \notin 1..m PROVE \E i \in DOMAIN C : all[p] = C[i]
      BY <1>13, <2>1
    <2>2. ASSUME NEW p \in 1..m PROVE (\E i \in DOMAIN A : all[p] = A[i]) \/ \E i \in DOMAIN B : all[p] = B[i]
      <3>1. all[p] = first[p] /\ p \in 1..(a + b)
        BY <1>12, <1>13
      <3>2. QED BY <1>11, <3>1
    <2>3. QED BY <1>13, <2>1, <2>2
  <1>16. Apart(all)
    <2>1. Apart(first)
      <3>1. \A i \in DOMAIN A, j \in DOMAIN B : A[i].id # B[j].id
        BY <1>6, <1>7, <1>9
      <3>2. QED BY <1>6, <1>7, <1>10, <3>1, ConcatApart
    <2>2. ASSUME NEW i \in DOMAIN first, NEW j \in DOMAIN C PROVE first[i].id # C[j].id
      <3>1. (\E k \in DOMAIN A : first[i] = A[k]) \/ \E k \in DOMAIN B : first[i] = B[k]
        BY <1>11
      <3>2. first[i].id[1] \in {InContract, Global}
        BY <1>6, <1>7, <3>1
      <3>3. C[j].id[1] = Local
        BY <1>8
      <3>4. QED BY <1>9, <3>2, <3>3
    <2>3. QED BY <1>8, <1>11, <1>12, <2>1, <2>2, ConcatApart
  <1>17. ASSUME NEW p \in DOMAIN all
         PROVE  all[p].id[1] \in {InContract, Global, Local} /\ IsSymbol(all[p]) /\ Contained(all, all[p])
    <2>1. CASE \E i \in DOMAIN A : all[p] = A[i]
      <3>1. PICK i \in DOMAIN A : all[p] = A[i]
        BY <2>1
      <3>2. CASE A[i].container = None
        BY <1>6, <3>1, <3>2 DEF Contained
      <3>3. CASE A[i].container # None
        <4>1. PICK j \in DOMAIN A : A[j].id = A[i].container /\ A[j].container = None
          BY <1>6, <3>3
        <4>2. PICK q \in DOMAIN all : all[q] = A[j]
          BY <1>14
        <4>3. IsAround(A[j], A[i])
          BY <1>6, <1>9, <4>1 DEF IsAround
        <4>4. QED BY <1>6, <3>1, <4>1, <4>2, <4>3 DEF Contained
      <3>4. QED BY <3>2, <3>3
    <2>2. CASE \E i \in DOMAIN B : all[p] = B[i]
      <3>1. PICK i \in DOMAIN B : all[p] = B[i]
        BY <2>2
      <3>2. CASE B[i].container = None
        BY <1>7, <3>1, <3>2 DEF Contained
      <3>3. CASE B[i].container # None
        <4>1. PICK j \in DOMAIN B : B[j].id = B[i].container /\ B[j].container = None
          BY <1>7, <3>3
        <4>2. PICK q \in DOMAIN all : all[q] = B[j]
          BY <1>14
        <4>3. IsAround(B[j], B[i])
          BY <1>7, <1>9, <4>1 DEF IsAround
        <4>4. QED BY <1>7, <3>1, <4>1, <4>2, <4>3 DEF Contained
      <3>4. QED BY <3>2, <3>3
    <2>3. CASE \E i \in DOMAIN C : all[p] = C[i]
      <3>1. PICK i \in DOMAIN C : all[p] = C[i]
        BY <2>3
      <3>2. CASE C[i].container = None
        BY <1>8, <3>1, <3>2 DEF Contained
      <3>3. CASE C[i].container # None
        <4>1. PICK d \in ToSet(AllGlobals) : C[i].container = <<Global, d.id>>
          BY <1>1, <1>8, <3>3
        <4>2. PICK j \in DOMAIN B : B[j].id = <<Global, d.id>>
          BY <1>7 DEF HasId
        <4>3. PICK q \in DOMAIN all : all[q] = B[j]
          BY <1>14
        <4>4. IsAround(B[j], C[i])
          BY <1>7, <1>8, <1>9 DEF IsAround
        <4>5. QED BY <1>8, <3>1, <4>1, <4>2, <4>3, <4>4 DEF Contained
      <3>4. QED BY <3>2, <3>3
    <2>4. QED BY <1>15, <2>1, <2>2, <2>3
  <1>18. ASSUME NEW id \in SymbolsIn(input) PROVE HasId(all, id)
    <2>1. CASE \E d \in ToSet(AllGlobals) : id = <<Global, d.id>>
      <3>1. PICK j \in DOMAIN B : B[j].id = id
        BY <1>7, <2>1 DEF HasId
      <3>2. QED BY <1>14, <3>1 DEF HasId
    <2>2. CASE \E l \in ToSet(input.locals) : id = <<Local, l.id>>
      <3>1. PICK j \in DOMAIN C : C[j].id = id
        BY <1>8, <2>2 DEF HasId
      <3>2. QED BY <1>14, <3>1 DEF HasId
    <2>3. QED BY <2>1, <2>2 DEF SymbolsIn, AllGlobals
  <1>19. SymbolsStand(all)
    BY <1>13, <1>16, <1>17 DEF SymbolsStand
  <1>20. PICK sorted : sorted = ById(all)
    OBVIOUS
  <1>21. /\ SymbolsStand(sorted)
         /\ \A i \in DOMAIN all : \E k \in DOMAIN sorted : sorted[k] = all[i]
         /\ \A k \in DOMAIN sorted : \E i \in DOMAIN all : sorted[k] = all[i]
    BY <1>19, <1>20, SortedStands
  <1>22. FirstSymbols(sorted)
    <2>1. \A k \in DOMAIN sorted : sorted[k].id[1] \in {InContract, Global, Local}
      BY <1>17, <1>21
    <2>2. \A id \in SymbolsIn(input) : HasId(sorted, id)
      BY <1>18, <1>21 DEF HasId
    <2>3. QED BY <1>21, <2>1, <2>2 DEF FirstSymbols
  <1>23. symbols' = sorted
    BY <1>5, <1>10, <1>12, <1>20
  <1>24. QED BY <1>22, <1>23
-----------------------------------------------------------------------------
(* Lambdas among the symbols.                                                 *)
LEMMA DeclarationsAreAll ==
  ASSUME NEW list, Declares(list)
  PROVE  ToSet(list) \subseteq ToSet(AllOf(list))
PROOF
  <1> DEFINE whole(i) == WithMembers(list[i])
  <1>1. PICK n : n = Len(list)
    OBVIOUS
  <1>2. n \in Nat /\ DOMAIN list = 1..n /\ \A i \in 1..n : IsList(list[i].members)
    <2>1. n \in Nat /\ DOMAIN list = 1..n
      BY <1>1, ListFacts DEF Declares
    <2>2. \A i \in 1..n : list[i] \in ToSet(list)
      BY <2>1 DEF ToSet
    <2>3. QED BY <2>1, <2>2 DEF Declares
  <1>3. ASSUME NEW i \in 1..n PROVE IsList(whole(i)) /\ 1 \in DOMAIN whole(i) /\ whole(i)[1] = list[i]
    <2>1. PICK d, first, members, m, a :
            /\ d = list[i] /\ first = <<d>> /\ members = d.members /\ m = Len(members)
            /\ a = first \o members
      OBVIOUS
    <2>2. IsList(first) /\ Len(first) = 1 /\ first[1] = d
      BY <2>1 DEF IsList, ToSet
    <2>3. IsConcat(a, first, 1, members, m)
      BY <1>2, <2>1, <2>2 DEF IsConcat
    <2>4. Follows(a, first, 1, members, m)
      BY <2>3, ConcatFacts
    <2>5. IsList(a) /\ 1 \in DOMAIN a /\ a[1] = d
      BY <2>2, <2>4 DEF Follows
    <2>6. whole(i) = a
      BY <2>1 DEF WithMembers
    <2> HIDE DEF whole
    <2>7. QED BY <2>1, <2>5, <2>6
  <1>4. PICK seqs, all : seqs = [i \in 1..n |-> whole(i)] /\ all = FlattenSeq(seqs)
    OBVIOUS
  <1>5. AllOf(list) = all
    BY <1>2, <1>4 DEF AllOf
  <1> HIDE DEF whole
  <1>6. PICK S : S = UNION {ToSet(whole(i)) : i \in 1..n}
    OBVIOUS
  <1>7. seqs \in Seq(Seq(S))
    <2>1. ASSUME NEW i \in 1..n PROVE whole(i) \in Seq(S)
      <3>1. whole(i) \in Seq(ToSet(whole(i))) /\ ToSet(whole(i)) \subseteq S
        BY <1>3, <1>6 DEF IsList
      <3>2. QED BY <3>1
    <2>2. seqs \in [1..n -> Seq(S)]
      BY <1>4, <2>1
    <2>3. QED BY <1>2, <2>2
  <1>8. ASSUME NEW d \in ToSet(list) PROVE d \in ToSet(all)
    <2>1. PICK i \in 1..n : d = list[i]
      BY <1>2 DEF ToSet
    <2>2. i \in DOMAIN seqs /\ 1 \in DOMAIN seqs[i] /\ seqs[i][1] = d
      BY <1>3, <1>4, <2>1
    <2>3. IsJoined(all, seqs, S)
      BY <1>4, <1>7 DEF IsJoined
    <2>4. PICK p \in DOMAIN all : all[p] = seqs[i][1]
      BY <2>2, <2>3, JoinHas
    <2>5. QED BY <2>2, <2>4 DEF ToSet
  <1>9. QED BY <1>5, <1>8

LEMMA SmallestIsOne ==
  ASSUME NEW around, around # {}, \A n \in around : IsLambdaNode(n)
  PROVE  \E n \in around : /\ SmallestLambda(around) = LambdaId(n)
                           /\ \A m \in around : n.end - n.start <= m.end - m.start
PROOF
  <1> DEFINE size(n) == n.end - n.start
             sizes == {size(n) : n \in around}
  <1>1. \A n \in around : size(n) \in Nat
    BY DEF IsLambdaNode
  <1> HIDE DEF size
  <1>2. sizes \in SUBSET Nat /\ sizes # {}
    BY <1>1
  <1>3. PICK k \in sizes : \A m \in sizes : k <= m
    <2> HIDE DEF sizes
    <2>1. QED BY <1>2, SmallestExists
  <1>4. PICK n \in around : \A m \in around : size(n) <= size(m)
    BY <1>3
  <1>5. PICK least : least = CHOOSE m \in around : \A l \in around : size(m) <= size(l)
    OBVIOUS
  <1>6. least \in around /\ \A m \in around : size(least) <= size(m)
    BY <1>4, <1>5
  <1>7. SmallestLambda(around) = LambdaId(least)
    BY <1>5 DEF SmallestLambda, size
  <1>8. QED BY <1>6, <1>7 DEF size

(* The entry of a lambda, in a list with those of the lambdas and of all that *)
(* names can refer to.                                                        *)
HasLambdas(list) ==
  \A n \in ToSet(Lambdas) :
    \E j \in DOMAIN list : list[j].id = LambdaId(n) /\ list[j].declaration.span = <<n.start, n.end>>

LEMMA LambdaFacts ==
  ASSUME TreesAreParsed, IdsAreGiven, NodesStand
  PROVE  \A n : n \in ToSet(Lambdas) => IsLambdaNode(n)
PROOF
  <1>1. \A k \in DOMAIN Lambdas : IsLambdaNode(Lambdas[k])
    BY LambdasAreApart
  <1>2. QED BY <1>1 DEF ToSet

LEMMA LambdaIdFacts ==
  ASSUME NEW n, IsLambdaNode(n)
  PROVE  LambdaId(n) \in Seq(Nat) /\ Len(LambdaId(n)) = 3 /\ LambdaId(n)[1] = OfLambda
PROOF
  <1>1. PICK s, e, id : s = n.start /\ e = n.end /\ id = <<OfLambda, s, e>>
    OBVIOUS
  <1>2. s \in Nat /\ e \in Nat /\ OfLambda \in Nat
    BY <1>1 DEF IsLambdaNode, OfLambda
  <1>3. id \in Seq(Nat) /\ Len(id) = 3 /\ id[1] = OfLambda
    BY <1>1, <1>2
  <1>4. QED BY <1>1, <1>3 DEF LambdaId

LEMMA LambdaIsPushed ==
  ASSUME TreesAreParsed, IdsAreGiven, NodesStand, NEW n, n \in ToSet(Lambdas), NEW e, e = PushedLambda(n),
         NEW list, HasLambdas(list), \A id \in SymbolsIn(input) : HasId(list, id)
  PROVE  /\ e.id = LambdaId(n) /\ IsSymbol(e) /\ e.declaration.span = <<n.start, n.end>>
         /\ Contained(list, e)
PROOF
  <1>1. PICK span, around, c :
          /\ span = <<n.start, n.end>>
          /\ around = {m \in ToSet(Lambdas) : m.start < n.start /\ m.end > n.end}
          /\ c = IF around = {} THEN DeclarationAt(n.start) ELSE SmallestLambda(around)
    OBVIOUS
  <1>2. IsLambdaNode(n)
    BY LambdaFacts
  <1>3. e = Entry(LambdaId(n), span, n.id, c)
    BY <1>1 DEF PushedLambda
  <1>4. /\ IsEntry(e) /\ e.id = LambdaId(n) /\ e.declaration.span = span
        /\ e.node = n.id /\ e.container = c
    BY <1>3, EntryFacts
  <1>5. IsSymbol(e) /\ e.id[1] = OfLambda
    <2>1. e.id \in Seq(Nat) /\ Len(e.id) = 3 /\ e.id[1] = OfLambda
      BY <1>2, <1>4, LambdaIdFacts
    <2>2. e.node \in NodeIdsOf
      BY <1>2, <1>4 DEF IsLambdaNode
    <2>3. QED BY <1>4, <2>1, <2>2 DEF IsSymbol
  <1>6. Contained(list, e)
    <2>1. CASE around = {}
      <3>1. c = None \/ \E d \in ToSet(input.globals) : c = <<Global, d.id>>
        BY <1>1, <2>1 DEF DeclarationAt
      <3>2. CASE c = None
        BY <1>4, <3>2 DEF Contained
      <3>3. CASE \E d \in ToSet(input.globals) : c = <<Global, d.id>>
        <4>1. PICK d \in ToSet(input.globals) : c = <<Global, d.id>>
          BY <3>3
        <4>2. d \in ToSet(AllOf(input.globals))
          BY DeclarationsAreAll DEF NodesStand, IdsAreGiven, GivesIds
        <4>3. c \in SymbolsIn(input)
          BY <4>1, <4>2 DEF SymbolsIn
        <4>4. PICK j \in DOMAIN list : list[j].id = c
          BY <4>3 DEF HasId
        <4>5. list[j].id[1] = Global
          BY <4>1, <4>4
        <4>6. IsAround(list[j], e)
          BY <1>5, <4>5 DEF IsAround, Global, OfLambda, Local
        <4>7. QED BY <1>4, <4>4, <4>6 DEF Contained
      <3>4. QED BY <3>1, <3>2, <3>3
    <2>2. CASE around # {}
      <3>1. \A m \in around : IsLambdaNode(m) /\ m \in ToSet(Lambdas)
        BY <1>1, LambdaFacts
      <3>2. PICK m \in around : SmallestLambda(around) = LambdaId(m)
        BY <2>2, <3>1, SmallestIsOne
      <3>3. PICK j \in DOMAIN list : list[j].id = LambdaId(m) /\ list[j].declaration.span = <<m.start, m.end>>
        BY <3>1 DEF HasLambdas
      <3>4. list[j].id[1] = OfLambda /\ list[j].id = c
        BY <1>1, <2>2, <3>1, <3>2, <3>3, LambdaIdFacts
      <3>5. m.start < n.start /\ n.end < m.end
        <4>1. m.start < n.start /\ m.end > n.end
          BY <1>1
        <4>2. m.end \in Nat /\ n.end \in Nat
          BY <1>2, <3>1 DEF IsLambdaNode
        <4>3. QED BY <4>1, <4>2
      <3>6. IsAround(list[j], e)
        <4>1. PICK of, by : of = e.declaration.span /\ by = list[j].declaration.span
          OBVIOUS
        <4>2. by[1] < of[1] /\ of[2] < by[2]
          BY <1>1, <1>4, <3>3, <3>5, <4>1
        <4>3. QED BY <1>5, <3>4, <4>1, <4>2 DEF IsAround
      <3>7. QED BY <1>4, <3>4, <3>6 DEF Contained
    <2>3. QED BY <2>1, <2>2
  <1>7. QED BY <1>1, <1>4, <1>5, <1>6

(* A symbol that may be taken over by a lambda.                               *)
LEMMA OwnedFacts ==
  ASSUME TreesAreParsed, IdsAreGiven, NodesStand, NEW s, IsSymbol(s), s.id[1] # OfLambda,
         NEW o, o = Owned(s), NEW all, HasLambdas(all)
  PROVE  /\ o.id = s.id /\ IsSymbol(o)
         /\ \/ o = s
            \/ Contained(all, o)
PROOF
  <1>1. PICK span, around :
          /\ span = s.declaration.span
          /\ around = {m \in ToSet(Lambdas) : m.start <= span[1] /\ m.end >= span[2]}
    OBVIOUS
  <1>2. Owned(s) = IF s.id[1] # Local \/ IsTypeParameter(s) \/ around = {} THEN s
                   ELSE [s EXCEPT !.container = SmallestLambda(around)]
    BY <1>1 DEF Owned
  <1>3. CASE o = s
    BY <1>3
  <1>4. CASE o # s
    <2>1. s.id[1] = Local /\ around # {} /\ o = [s EXCEPT !.container = SmallestLambda(around)]
      BY <1>2, <1>4
    <2>2. PICK c : c = SmallestLambda(around)
      OBVIOUS
    <2>3. /\ IsEntry(o) /\ o.id = s.id /\ o.declaration = s.declaration /\ o.node = s.node
          /\ o.container = SmallestLambda(around)
      <3>1. s = [id |-> s.id, declaration |-> s.declaration, node |-> s.node, container |-> s.container]
        BY DEF IsSymbol, IsEntry
      <3>2. o = [s EXCEPT !.container = c]
        BY <2>1, <2>2
      <3>3. o = [id |-> s.id, declaration |-> s.declaration, node |-> s.node, container |-> c]
        BY <3>1, <3>2
      <3>4. QED BY <2>2, <3>3 DEF IsEntry
    <2>4. \A m \in around : IsLambdaNode(m) /\ m \in ToSet(Lambdas)
      BY <1>1, LambdaFacts
    <2>5. PICK m \in around : SmallestLambda(around) = LambdaId(m)
      BY <2>1, <2>4, SmallestIsOne
    <2>6. PICK j \in DOMAIN all : all[j].id = LambdaId(m) /\ all[j].declaration.span = <<m.start, m.end>>
      BY <2>4 DEF HasLambdas
    <2>7. all[j].id[1] = OfLambda /\ all[j].id = o.container
      BY <2>3, <2>4, <2>5, <2>6, LambdaIdFacts
    <2>8. IsAround(all[j], o)
      <3>1. PICK by : by = all[j].declaration.span
        OBVIOUS
      <3>2. by[1] <= span[1] /\ by[2] >= span[2]
        BY <1>1, <2>6, <3>1
      <3>3. o.declaration.span = span /\ o.id[1] = Local /\ Local # OfLambda
        BY <1>1, <2>1, <2>3 DEF Local, OfLambda
      <3>4. by[1] <= span[1] /\ span[2] <= by[2]
        BY <3>2
      <3>5. QED BY <2>7, <3>1, <3>3, <3>4 DEF IsAround
    <2>9. QED BY <2>3, <2>7, <2>8 DEF Contained, IsSymbol
  <1>5. QED BY <1>3, <1>4
-----------------------------------------------------------------------------
(* Of the lambdas around a symbol the smallest contains it. Its entry is one  *)
(* of those that are listed, and all of those are entries of lambdas.         *)
OnlyLambdas(list) ==
  \A j \in DOMAIN list : list[j].id[1] = OfLambda =>
    \E n \in ToSet(Lambdas) : list[j].declaration.span = <<n.start, n.end>>

IsNear(n, o) ==
  \/ o.id[1] = OfLambda /\ n.start < o.declaration.span[1] /\ o.declaration.span[2] < n.end
  \/ /\ o.id[1] = Local /\ ~ IsTypeParameter(o)
     /\ n.start <= o.declaration.span[1] /\ o.declaration.span[2] <= n.end

LEMMA EnclosingIsNear ==
  ASSUME NEW l, l.id[1] = OfLambda, NEW n, l.declaration.span = <<n.start, n.end>>, NEW o
  PROVE  (Encloses(l, o) <=> IsNear(n, o)) /\ Extent(l) = n.end - n.start
BY DEF Encloses, IsNear, Extent

LEMMA NearestTakes ==
  ASSUME TreesAreParsed, IdsAreGiven, NodesStand, NEW all, HasLambdas(all), OnlyLambdas(all),
         NEW o, NEW around, around = {n \in ToSet(Lambdas) : IsNear(n, o)},
         around # {} => o.container = SmallestLambda(around),
         NEW l \in ToSet(all), Encloses(l, o)
  PROVE  \E c \in ToSet(all) : c.id = o.container /\ Encloses(c, o) /\ Extent(c) <= Extent(l)
PROOF
  <1>1. l.id[1] = OfLambda
    BY DEF Encloses
  <1>2. PICK n \in ToSet(Lambdas) : l.declaration.span = <<n.start, n.end>>
    BY <1>1 DEF OnlyLambdas, ToSet
  <1>3. n \in around /\ Extent(l) = n.end - n.start
    BY <1>1, <1>2, EnclosingIsNear
  <1>4. \A m \in around : IsLambdaNode(m)
    BY LambdaFacts
  <1>5. PICK m \in around : /\ SmallestLambda(around) = LambdaId(m)
                            /\ \A k \in around : m.end - m.start <= k.end - k.start
    BY <1>3, <1>4, SmallestIsOne
  <1>6. PICK j \in DOMAIN all : all[j].id = LambdaId(m) /\ all[j].declaration.span = <<m.start, m.end>>
    BY <1>5 DEF HasLambdas
  <1>7. all[j].id[1] = OfLambda /\ all[j].id = o.container
    BY <1>3, <1>4, <1>5, <1>6, LambdaIdFacts
  <1>8. Encloses(all[j], o) /\ Extent(all[j]) = m.end - m.start
    BY <1>5, <1>6, <1>7, EnclosingIsNear
  <1>9. all[j] \in ToSet(all)
    BY <1>6 DEF ToSet
  <1>10. Extent(all[j]) <= Extent(l)
    BY <1>3, <1>5, <1>8
  <1>11. QED BY <1>7, <1>8, <1>9, <1>10

LEMMA PushedIsInTheNearest ==
  ASSUME TreesAreParsed, IdsAreGiven, NodesStand, NEW n, n \in ToSet(Lambdas), NEW e, e = PushedLambda(n),
         NEW all, HasLambdas(all), OnlyLambdas(all)
  PROVE  IsInTheNearest(all, e)
PROOF
  <1>1. PICK span, around, c :
          /\ span = <<n.start, n.end>>
          /\ around = {m \in ToSet(Lambdas) : m.start < n.start /\ m.end > n.end}
          /\ c = IF around = {} THEN DeclarationAt(n.start) ELSE SmallestLambda(around)
    OBVIOUS
  <1>2. IsLambdaNode(n) /\ \A m \in ToSet(Lambdas) : IsLambdaNode(m)
    BY LambdaFacts
  <1>3. e = Entry(LambdaId(n), span, n.id, c)
    BY <1>1 DEF PushedLambda
  <1>4. e.id = LambdaId(n) /\ e.declaration.span = span /\ e.container = c
    BY <1>3, EntryFacts
  <1>5. e.id[1] = OfLambda
    BY <1>2, <1>4, LambdaIdFacts
  <1>6. \A m \in ToSet(Lambdas) : IsNear(m, e) <=> m.start < n.start /\ m.end > n.end
    <2>1. span[1] = n.start /\ span[2] = n.end
      BY <1>1
    <2>2. ASSUME NEW m \in ToSet(Lambdas) PROVE IsNear(m, e) <=> m.start < n.start /\ m.end > n.end
      <3>1. IsNear(m, e) <=> m.start < n.start /\ n.end < m.end
        BY <1>4, <1>5, <2>1 DEF IsNear, OfLambda, Local
      <3>2. n.end \in Nat /\ m.end \in Nat
        BY <1>2 DEF IsLambdaNode
      <3>3. QED BY <3>1, <3>2
    <2>3. QED BY <2>2
  <1>7. around = {m \in ToSet(Lambdas) : IsNear(m, e)}
    BY <1>1, <1>6
  <1>8. around # {} => e.container = SmallestLambda(around)
    BY <1>1, <1>4
  <1>9. ASSUME NEW d \in ToSet(input.globals), e.container = <<Global, d.id>>
        PROVE  d.body[1] <= n.start /\ n.start < d.body[2]
    <2>1. around = {}
      <3>1. ASSUME around # {} PROVE FALSE
        <4>1. \A m \in around : IsLambdaNode(m)
          BY <1>1, <1>2
        <4>2. PICK m \in around : SmallestLambda(around) = LambdaId(m)
          BY <3>1, <4>1, SmallestIsOne
        <4>3. e.container[1] = OfLambda
          BY <1>8, <3>1, <4>1, <4>2, LambdaIdFacts
        <4>4. e.container[1] = Global
          BY <1>9
        <4>5. QED BY <4>3, <4>4 DEF OfLambda, Global
      <3>2. QED BY <3>1
    <2>2. PICK there : there = {g \in ToSet(input.globals) : g.body[1] <= n.start /\ n.start < g.body[2]}
      OBVIOUS
    <2>3. e.container = IF there = {} THEN None ELSE <<Global, (CHOOSE g \in there : TRUE).id>>
      BY <1>1, <1>4, <2>1, <2>2 DEF DeclarationAt
    <2>4. there # {}
      <3>1. ASSUME there = {} PROVE FALSE
        <4>1. None = <<Global, d.id>>
          BY <1>9, <2>3, <3>1
        <4>2. d \in ToSet(AllOf(input.globals)) /\ IsList(AllOf(input.globals))
              /\ \A i \in DOMAIN AllOf(input.globals) : AllOf(input.globals)[i].id \in Nat
          BY DeclarationsAreAll DEF NodesStand, IdsAreGiven, GivesIds, Declares, HaveIds
        <4>3. d.id \in Nat
          BY <4>2 DEF ToSet
        <4>4. <<Global, d.id>> \in Seq(Nat)
          BY <4>3 DEF Global
        <4>5. QED BY <4>1, <4>4, NoneAssumption
      <3>2. QED BY <3>1
    <2>5. PICK g : g \in there /\ e.container = <<Global, g.id>>
      <3>1. (CHOOSE g \in there : TRUE) \in there
        BY <2>4
      <3>2. QED BY <2>3, <2>4, <3>1
    <2>6. g.id = d.id
      BY <1>9, <2>5
    <2>7. g = d
      <3>1. PICK list : list = AllOf(input.globals)
        OBVIOUS
      <3>2. g \in ToSet(list) /\ d \in ToSet(list) /\ HaveIds(list)
        BY <2>2, <2>5, <3>1, DeclarationsAreAll DEF NodesStand, IdsAreGiven, GivesIds, Declares
      <3>3. PICK i, k \in DOMAIN list : g = list[i] /\ d = list[k]
        BY <3>2 DEF ToSet
      <3>4. i = k
        BY <2>6, <3>2, <3>3 DEF HaveIds
      <3>5. QED BY <3>3, <3>4
    <2>8. QED BY <2>2, <2>5, <2>7
  <1>10. ASSUME NEW l \in ToSet(all), Encloses(l, e)
         PROVE  \E k \in ToSet(all) : k.id = e.container /\ Encloses(k, e) /\ Extent(k) <= Extent(l)
    BY <1>7, <1>8, <1>10, NearestTakes
  <1>11. e.declaration.span[1] = n.start
    BY <1>1, <1>4
  <1>12. QED BY <1>9, <1>10, <1>11 DEF IsInTheNearest

LEMMA OwnedIsInTheNearest ==
  ASSUME TreesAreParsed, IdsAreGiven, NodesStand, NEW s, IsSymbol(s), s.id[1] # OfLambda,
         NEW o, o = Owned(s), NEW all, HasLambdas(all), OnlyLambdas(all)
  PROVE  IsInTheNearest(all, o)
PROOF
  <1>1. PICK span, around :
          /\ span = s.declaration.span
          /\ around = {m \in ToSet(Lambdas) : m.start <= span[1] /\ m.end >= span[2]}
    OBVIOUS
  <1>2. PICK c : c = SmallestLambda(around)
    OBVIOUS
  <1>3. o = IF s.id[1] # Local \/ IsTypeParameter(s) \/ around = {} THEN s ELSE [s EXCEPT !.container = c]
    BY <1>1, <1>2 DEF Owned
  <1>4. /\ o.id = s.id /\ o.declaration = s.declaration
        /\ s.id[1] = Local /\ ~ IsTypeParameter(s) /\ around # {} => o.container = c
    <2>1. s = [id |-> s.id, declaration |-> s.declaration, node |-> s.node, container |-> s.container]
      BY DEF IsSymbol, IsEntry
    <2>2. QED BY <1>3, <2>1
  <1>5. o.id[1] # OfLambda /\ (IsTypeParameter(o) <=> IsTypeParameter(s))
    BY <1>4 DEF IsTypeParameter
  <1>6. CASE s.id[1] # Local \/ IsTypeParameter(s)
    <2>1. \A l : ~ Encloses(l, o)
      BY <1>4, <1>5, <1>6 DEF Encloses
    <2>2. QED BY <1>5, <2>1 DEF IsInTheNearest
  <1>7. CASE s.id[1] = Local /\ ~ IsTypeParameter(s)
    <2>1. \A m \in ToSet(Lambdas) : IsNear(m, o) <=> m.start <= span[1] /\ m.end >= span[2]
      <3>1. ASSUME NEW m \in ToSet(Lambdas)
            PROVE  IsNear(m, o) <=> m.start <= span[1] /\ m.end >= span[2]
        <4>1. IsNear(m, o) <=> m.start <= span[1] /\ span[2] <= m.end
          BY <1>1, <1>4, <1>5, <1>7 DEF IsNear
        <4>2. span[2] <= m.end <=> m.end >= span[2]
          OBVIOUS
        <4>3. QED BY <4>1, <4>2
      <3>2. QED BY <3>1
    <2>2. around = {m \in ToSet(Lambdas) : IsNear(m, o)}
      BY <1>1, <2>1
    <2>3. around # {} => o.container = SmallestLambda(around)
      BY <1>2, <1>4, <1>7
    <2>4. ASSUME NEW l \in ToSet(all), Encloses(l, o)
          PROVE  \E k \in ToSet(all) : k.id = o.container /\ Encloses(k, o) /\ Extent(k) <= Extent(l)
      BY <2>2, <2>3, <2>4, NearestTakes
    <2>5. QED BY <1>5, <2>4 DEF IsInTheNearest
  <1>8. QED BY <1>6, <1>7
-----------------------------------------------------------------------------
(* The symbols with the lambdas: closed, with all that names can refer to and *)
(* with each lambda, each in the nearest lambda around it.                    *)
AllSymbols(list) ==
  /\ SymbolsStand(list)
  /\ \A s \in ToSet(list) : IsInTheNearest(list, s)
  /\ \A id \in SymbolsIn(input) : HasId(list, id)
  /\ \A n \in ToSet(Lambdas) : HasId(list, LambdaId(n))

LEMMA LambdaEntry ==
  \A n : PushedLambda(n).id = LambdaId(n) /\ PushedLambda(n).declaration.span = <<n.start, n.end>>
PROOF
  <1> TAKE n
  <1>1. PICK c : PushedLambda(n) = Entry(LambdaId(n), <<n.start, n.end>>, n.id, c)
    BY DEF PushedLambda
  <1>2. QED BY <1>1, EntryFacts

LEMMA SymbolsTakeLambdas ==
  ASSUME TreesAreParsed, IdsAreGiven, NodesStand, FirstSymbols(symbols), CollectLambdas
  PROVE  AllSymbols(symbols')
PROOF
  <1>1. PICK A, B, a, b :
          /\ A = [i \in DOMAIN symbols |-> Owned(symbols[i])]
          /\ B = [i \in DOMAIN Lambdas |-> PushedLambda(Lambdas[i])]
          /\ a = Len(symbols) /\ b = Len(Lambdas)
    OBVIOUS
  <1>2. PICK all : all = A \o B
    OBVIOUS
  <1>3. symbols' = ById(all)
    BY <1>1, <1>2 DEF CollectLambdas
  <1>4. /\ IsList(symbols) /\ Apart(symbols) /\ a \in Nat /\ DOMAIN symbols = 1..a
        /\ \A i \in 1..a : /\ IsSymbol(symbols[i]) /\ Contained(symbols, symbols[i])
                           /\ symbols[i].id[1] \in {InContract, Global, Local}
        /\ \A id \in SymbolsIn(input) : HasId(symbols, id)
    BY <1>1, ListFacts DEF FirstSymbols, SymbolsStand
  <1>5. \A i \in 1..a : symbols[i].id[1] # OfLambda
    BY <1>4 DEF InContract, Global, Local, OfLambda
  <1>6. /\ b \in Nat /\ DOMAIN Lambdas = 1..b
        /\ \A k \in 1..b : IsLambdaNode(Lambdas[k]) /\ Lambdas[k] \in ToSet(Lambdas)
        /\ \A k, l \in 1..b :
             Lambdas[k].start = Lambdas[l].start /\ Lambdas[k].end = Lambdas[l].end => k = l
    <2>1. b \in Nat /\ DOMAIN Lambdas = 1..b
      BY <1>1, LambdasAreApart
    <2>2. \A k \in 1..b : Lambdas[k] \in ToSet(Lambdas)
      BY <2>1 DEF ToSet
    <2>3. QED BY <2>1, <2>2, LambdasAreApart
  <1>7. /\ IsList(A) /\ Len(A) = a /\ DOMAIN A = 1..a /\ \A i \in 1..a : A[i] = Owned(symbols[i])
    <2>1. DOMAIN A = 1..a /\ A = [i \in 1..a |-> A[i]] /\ \A i \in 1..a : A[i] = Owned(symbols[i])
      BY <1>1, <1>4
    <2>2. QED BY <1>4, <2>1, FromTo
  <1>8. /\ IsList(B) /\ Len(B) = b /\ DOMAIN B = 1..b /\ \A k \in 1..b : B[k] = PushedLambda(Lambdas[k])
    <2>1. DOMAIN B = 1..b /\ B = [k \in 1..b |-> B[k]] /\ \A k \in 1..b : B[k] = PushedLambda(Lambdas[k])
      BY <1>1, <1>6
    <2>2. QED BY <1>6, <2>1, FromTo
  <1>9. Follows(all, A, a, B, b)
    <2>1. IsConcat(all, A, a, B, b)
      BY <1>2, <1>7, <1>8 DEF IsConcat
    <2>2. QED BY <2>1, ConcatFacts
  <1>10. /\ \A i \in 1..a : \E p \in DOMAIN all : all[p] = A[i]
         /\ \A k \in 1..b : \E p \in DOMAIN all : all[p] = B[k]
         /\ \A p \in DOMAIN all : (\E i \in 1..a : all[p] = A[i]) \/ \E k \in 1..b : all[p] = B[k]
    <2>1. ASSUME NEW i \in 1..a PROVE i \in DOMAIN all /\ all[i] = A[i]
      BY <1>9 DEF Follows
    <2>2. ASSUME NEW k \in 1..b PROVE a + k \in DOMAIN all /\ all[a + k] = B[k]
      BY <1>9 DEF Follows
    <2>3. ASSUME NEW p \in DOMAIN all, p \notin 1..a PROVE p - a \in 1..b /\ all[p] = B[p - a]
      BY <1>9, <2>3 DEF Follows
    <2>4. \A p \in DOMAIN all : (\E i \in 1..a : all[p] = A[i]) \/ \E k \in 1..b : all[p] = B[k]
      BY <2>1, <2>3
    <2>5. QED BY <2>1, <2>2, <2>4
  <1>11. HasLambdas(all)
    <2>1. ASSUME NEW n \in ToSet(Lambdas)
          PROVE  \E j \in DOMAIN all : all[j].id = LambdaId(n) /\ all[j].declaration.span = <<n.start, n.end>>
      <3>1. PICK k \in 1..b : n = Lambdas[k]
        BY <1>6 DEF ToSet
      <3>2. PICK p \in DOMAIN all : all[p] = PushedLambda(n)
        BY <1>8, <1>10, <3>1
      <3>3. QED BY <3>2, LambdaEntry
    <2>2. QED BY <2>1 DEF HasLambdas
  <1>12. ASSUME NEW i \in 1..a
         PROVE  /\ A[i].id = symbols[i].id /\ IsSymbol(A[i])
                /\ A[i] = symbols[i] \/ Contained(all, A[i])
                /\ symbols[i].id[1] # Local => A[i] = symbols[i]
    <2>1. PICK s, o : s = symbols[i] /\ o = Owned(s)
      OBVIOUS
    <2>2. o.id = s.id /\ IsSymbol(o) /\ (o = s \/ Contained(all, o))
      BY <1>4, <1>5, <1>11, <2>1, OwnedFacts
    <2>3. s.id[1] # Local => o = s
      BY <2>1 DEF Owned
    <2>4. A[i] = o
      BY <1>7, <2>1
    <2>5. QED BY <2>1, <2>2, <2>3, <2>4
  <1>13. ASSUME NEW id, HasId(symbols, id) PROVE HasId(all, id)
    <2>1. PICK i \in 1..a : symbols[i].id = id
      BY <1>4, <1>13 DEF HasId
    <2>2. QED BY <1>10, <1>12, <2>1 DEF HasId
  <1>14. ASSUME NEW i \in 1..a PROVE Contained(all, A[i])
    <2>1. CASE A[i] # symbols[i]
      BY <1>12, <2>1
    <2>2. CASE A[i] = symbols[i]
      <3>1. CASE symbols[i].container = None
        BY <2>2, <3>1 DEF Contained
      <3>2. CASE symbols[i].container # None
        <4>1. PICK j \in 1..a : symbols[j].id = symbols[i].container /\ IsAround(symbols[j], symbols[i])
          BY <1>4, <3>2 DEF Contained
        <4>2. symbols[j].id[1] # Local
          BY <1>5, <4>1 DEF IsAround
        <4>3. A[j] = symbols[j]
          BY <1>12, <4>2
        <4>4. PICK p \in DOMAIN all : all[p] = symbols[j]
          BY <1>10, <4>3
        <4>5. QED BY <2>2, <4>1, <4>4 DEF Contained
      <3>3. QED BY <3>1, <3>2
    <2>3. QED BY <2>1, <2>2
  <1>15. \A id \in SymbolsIn(input) : HasId(all, id)
    BY <1>4, <1>13
  <1>16. ASSUME NEW k \in 1..b
         PROVE  B[k].id = LambdaId(Lambdas[k]) /\ IsSymbol(B[k]) /\ Contained(all, B[k])
    <2>1. PICK n, e : n = Lambdas[k] /\ e = PushedLambda(n)
      OBVIOUS
    <2>2. n \in ToSet(Lambdas)
      BY <1>6, <2>1
    <2>3. e.id = LambdaId(n) /\ IsSymbol(e) /\ Contained(all, e)
      BY <1>11, <1>15, <2>1, <2>2, LambdaIsPushed
    <2>4. QED BY <1>8, <2>1, <2>3
  <1>17. Apart(all)
    <2>1. Apart(A)
      BY <1>4, <1>7, <1>12 DEF Apart
    <2>2. Apart(B)
      <3>1. ASSUME NEW k \in 1..b, NEW l \in 1..b, B[k].id = B[l].id PROVE k = l
        <4>1. PICK m, n : m = Lambdas[k] /\ n = Lambdas[l]
          OBVIOUS
        <4>2. <<OfLambda, m.start, m.end>> = <<OfLambda, n.start, n.end>>
          BY <1>16, <3>1, <4>1 DEF LambdaId
        <4>3. m.start = n.start /\ m.end = n.end
          BY <4>2
        <4>4. QED BY <1>6, <4>1, <4>3
      <3>2. QED BY <1>8, <3>1 DEF Apart
    <2>3. ASSUME NEW i \in 1..a, NEW k \in 1..b PROVE A[i].id # B[k].id
      <3>1. B[k].id[1] = OfLambda
        BY <1>6, <1>16, LambdaIdFacts
      <3>2. A[i].id[1] # OfLambda
        BY <1>5, <1>12
      <3>3. QED BY <3>1, <3>2
    <2>4. QED BY <1>2, <1>7, <1>8, <2>1, <2>2, <2>3, ConcatApart
  <1>18. SymbolsStand(all)
    <2>1. \A p \in DOMAIN all : IsSymbol(all[p]) /\ Contained(all, all[p])
      BY <1>10, <1>12, <1>14, <1>16
    <2>2. IsList(all)
      BY <1>9 DEF Follows
    <2>3. QED BY <1>17, <2>1, <2>2 DEF SymbolsStand
  <1>19. \A n \in ToSet(Lambdas) : HasId(all, LambdaId(n))
    BY <1>11 DEF HasLambdas, HasId
  <1>20. PICK sorted : sorted = ById(all)
    OBVIOUS
  <1>21. /\ SymbolsStand(sorted)
         /\ \A i \in DOMAIN all : \E k \in DOMAIN sorted : sorted[k] = all[i]
    BY <1>18, <1>20, SortedStands
  <1>22. \A id : HasId(all, id) => HasId(sorted, id)
    BY <1>21 DEF HasId
  <1>23. OnlyLambdas(all)
    <2>1. ASSUME NEW p \in DOMAIN all, all[p].id[1] = OfLambda
          PROVE  \E n \in ToSet(Lambdas) : all[p].declaration.span = <<n.start, n.end>>
      <3>1. \A i \in 1..a : all[p] # A[i]
        BY <1>5, <1>12, <2>1
      <3>2. PICK k \in 1..b : all[p] = PushedLambda(Lambdas[k])
        BY <1>8, <1>10, <3>1
      <3>3. QED BY <1>6, <3>2, LambdaEntry
    <2>2. QED BY <2>1 DEF OnlyLambdas
  <1>24. ASSUME NEW i \in 1..a PROVE IsInTheNearest(all, A[i])
    <2>1. PICK s, o : s = symbols[i] /\ o = Owned(s)
      OBVIOUS
    <2>2. IsInTheNearest(all, o)
      BY <1>4, <1>5, <1>11, <1>23, <2>1, OwnedIsInTheNearest
    <2>3. QED BY <1>7, <2>1, <2>2
  <1>25. ASSUME NEW k \in 1..b PROVE IsInTheNearest(all, B[k])
    <2>1. PICK n, e : n = Lambdas[k] /\ e = PushedLambda(n)
      OBVIOUS
    <2>2. n \in ToSet(Lambdas)
      BY <1>6, <2>1
    <2>3. IsInTheNearest(all, e)
      BY <1>11, <1>23, <2>1, <2>2, PushedIsInTheNearest
    <2>4. QED BY <1>8, <2>1, <2>3
  <1>26. \A s \in ToSet(all) : IsInTheNearest(all, s)
    BY <1>10, <1>24, <1>25 DEF ToSet
  <1>27. ToSet(sorted) = ToSet(all)
    <2>1. /\ \A p \in DOMAIN all : \E k \in DOMAIN sorted : sorted[k] = all[p]
          /\ \A k \in DOMAIN sorted : \E p \in DOMAIN all : sorted[k] = all[p]
      BY <1>18, <1>20, SortedStands
    <2>2. QED BY <2>1 DEF ToSet
  <1>28. \A s \in ToSet(sorted) : IsInTheNearest(sorted, s)
    BY <1>26, <1>27 DEF IsInTheNearest
  <1>29. AllSymbols(sorted)
    BY <1>15, <1>19, <1>21, <1>22, <1>28 DEF AllSymbols
  <1>30. QED BY <1>3, <1>20, <1>29
-----------------------------------------------------------------------------
(* The stages after the nodes; what the ids in use are; and that every graph  *)
(* is of a symbol, with the nodes and the locals of the snapshot.             *)
IdsAreKnown ==
  /\ frames = <<>>
  /\ symbolIds = {<<Global, d.id>> : d \in ToSet(AllGlobals)}
  /\ localIds = {<<Local, l.id>> : l \in ToSet(input.locals)}

GraphsAreClosed ==
  \A g \in graphs :
    /\ g.symbol \in SymbolIdsOf
    /\ \A h \in graphs : h.symbol = g.symbol => h = g
    /\ \A n \in ToSet(g.nodes) :
         n.ast \in NodeIdsOf \union {None} /\ n.reads \union n.writes \subseteq SymbolIdsOf

LEMMA HasIdIsId ==
  \A id : HasId(symbols, id) => id \in SymbolIdsOf
BY DEF HasId, SymbolIdsOf, ToSet

LEMMA KnownIds ==
  ASSUME IdsAreKnown
  PROVE  symbolIds \union localIds = SymbolsIn(input)
BY DEF IdsAreKnown, SymbolsIn, AllGlobals

LEMMA KnownIdsAreSymbols ==
  ASSUME IdsAreKnown, AllSymbols(symbols)
  PROVE  symbolIds \union localIds \subseteq SymbolIdsOf
BY KnownIds, HasIdIsId DEF AllSymbols

LEMMA GraphFacts ==
  ASSUME NEW symbol, NEW graph, NEW g, g = GraphOf(symbol, graph)
  PROVE  /\ g.symbol = symbol
         /\ \A n \in ToSet(g.nodes) : \E span, reads, writes :
              n.ast = NodeAt(span) /\ n.reads = Known(reads) /\ n.writes = Known(writes)
PROOF
  <1> DEFINE node(i) == [ast |-> NodeAt(graph[i].span),
                         reads |-> Known(graph[i].reads), writes |-> Known(graph[i].writes)]
             list == [i \in DOMAIN graph |-> node(i)]
  <1>1. g.symbol = symbol /\ g.nodes = list
    BY DEF GraphOf
  <1>2. ASSUME NEW n \in ToSet(list)
        PROVE \E span, reads, writes :
                n.ast = NodeAt(span) /\ n.reads = Known(reads) /\ n.writes = Known(writes)
    <2>1. PICK i \in DOMAIN graph : n = node(i)
      BY DEF ToSet
    <2>2. /\ n.ast = NodeAt(graph[i].span) /\ n.reads = Known(graph[i].reads)
          /\ n.writes = Known(graph[i].writes)
      BY <2>1
    <2>3. QED BY <2>2
  <1> HIDE DEF list
  <1>3. QED BY <1>1, <1>2

LEMMA GlobalsWithOneId ==
  ASSUME IdsAreGiven, IsInput(input), NEW d \in ToSet(AllGlobals), NEW e \in ToSet(AllGlobals), d.id = e.id
  PROVE  d = e
PROOF
  <1>1. HaveIds(AllGlobals)
    BY DEF IdsAreGiven, GivesIds, Declares, AllGlobals
  <1>2. QED BY <1>1 DEF HaveIds, ToSet

LEMMA GraphsAreCollected ==
  ASSUME TreesAreParsed, IdsAreGiven, NodesStand, IdsAreKnown, AllSymbols(symbols), CollectGraphs,
         NEW all, all = graphs'
  PROVE  \A g \in all :
           /\ g.symbol \in SymbolIdsOf
           /\ \A h \in all : h.symbol = g.symbol => h = g
           /\ \A n \in ToSet(g.nodes) :
                n.ast \in NodeIdsOf \union {None} /\ n.reads \union n.writes \subseteq SymbolIdsOf
PROOF
  <1>1. IsInput(input)
    BY DEF NodesStand
  <1>2. ASSUME NEW g \in all
        PROVE \/ \E d \in ToSet(AllGlobals) : g = GraphOf(<<Global, d.id>>, d.graph)
              \/ \E n \in ToSet(Lambdas) : g = GraphOf(LambdaId(n), input.ofLambda)
    <2>1. InScope
      BY DEF CollectGraphs
    <2>2. g \in {GraphOf(<<Global, d.id>>, d.graph) : d \in {d \in ToSet(AllGlobals) : d.graph # None}}
            \union {GraphOf(LambdaId(n), input.ofLambda) : n \in {n \in ToSet(Lambdas) : input.ofLambda # None}}
      BY <2>1 DEF CollectGraphs
    <2>3. QED BY <2>2
  <1>3. \A d \in ToSet(AllGlobals) : <<Global, d.id>> \in SymbolIdsOf
    BY KnownIdsAreSymbols DEF IdsAreKnown
  <1>4. \A n \in ToSet(Lambdas) : LambdaId(n) \in SymbolIdsOf /\ LambdaId(n)[1] = OfLambda
    BY HasIdIsId, LambdaFacts, LambdaIdFacts DEF AllSymbols
  <1>5. \A span : NodeAt(span) \in NodeIdsOf \union {None}
    BY NodesAreNamed DEF NodeAt, IdsAreKnown
  <1>6. \A l : Known(l) \subseteq SymbolIdsOf
    BY KnownIdsAreSymbols DEF Known
  <1>7. ASSUME NEW g \in all PROVE g.symbol \in SymbolIdsOf
    <2>1. CASE \E d \in ToSet(AllGlobals) : g = GraphOf(<<Global, d.id>>, d.graph)
      BY <1>3, <2>1, GraphFacts
    <2>2. CASE \E n \in ToSet(Lambdas) : g = GraphOf(LambdaId(n), input.ofLambda)
      BY <1>4, <2>2, GraphFacts
    <2>3. QED BY <1>2, <2>1, <2>2
  <1>8. ASSUME NEW g \in all, NEW n \in ToSet(g.nodes)
        PROVE n.ast \in NodeIdsOf \union {None} /\ n.reads \union n.writes \subseteq SymbolIdsOf
    <2>1. \E s, graph : g = GraphOf(s, graph)
      <3>1. CASE \E d \in ToSet(AllGlobals) : g = GraphOf(<<Global, d.id>>, d.graph)
        BY <3>1
      <3>2. CASE \E m \in ToSet(Lambdas) : g = GraphOf(LambdaId(m), input.ofLambda)
        BY <3>2
      <3>3. QED BY <1>2, <3>1, <3>2
    <2>4. PICK s, graph : g = GraphOf(s, graph)
      BY <2>1
    <2>2. PICK span, reads, writes : n.ast = NodeAt(span) /\ n.reads = Known(reads) /\ n.writes = Known(writes)
      BY <2>4, GraphFacts
    <2>3. QED BY <1>5, <1>6, <2>2
  <1>9. ASSUME NEW g \in all, NEW h \in all, h.symbol = g.symbol PROVE h = g
    <2>1. CASE \E d \in ToSet(AllGlobals) : g = GraphOf(<<Global, d.id>>, d.graph)
      <3>1. PICK d \in ToSet(AllGlobals) : g = GraphOf(<<Global, d.id>>, d.graph)
        BY <2>1
      <3>2. g.symbol = <<Global, d.id>>
        BY <3>1, GraphFacts
      <3>3. CASE \E e \in ToSet(AllGlobals) : h = GraphOf(<<Global, e.id>>, e.graph)
        <4>1. PICK e \in ToSet(AllGlobals) : h = GraphOf(<<Global, e.id>>, e.graph)
          BY <3>3
        <4>2. h.symbol = <<Global, e.id>>
          BY <4>1, GraphFacts
        <4>3. d.id = e.id
          BY <1>9, <3>2, <4>2
        <4>4. d = e
          BY <1>1, <4>3, GlobalsWithOneId
        <4>5. QED BY <3>1, <4>1, <4>4
      <3>4. CASE \E n \in ToSet(Lambdas) : h = GraphOf(LambdaId(n), input.ofLambda)
        <4>1. h.symbol[1] = OfLambda
          BY <1>4, <3>4, GraphFacts
        <4>2. QED BY <1>9, <3>2, <4>1 DEF Global, OfLambda
      <3>5. QED BY <1>2, <3>3, <3>4
    <2>2. CASE \E n \in ToSet(Lambdas) : g = GraphOf(LambdaId(n), input.ofLambda)
      <3>1. PICK n \in ToSet(Lambdas) : g = GraphOf(LambdaId(n), input.ofLambda)
        BY <2>2
      <3>2. g.symbol = LambdaId(n) /\ g.symbol[1] = OfLambda
        BY <1>4, <3>1, GraphFacts
      <3>3. CASE \E e \in ToSet(AllGlobals) : h = GraphOf(<<Global, e.id>>, e.graph)
        <4>1. PICK e : h.symbol = <<Global, e>>
          BY <3>3, GraphFacts
        <4>2. QED BY <1>9, <3>2, <4>1 DEF Global, OfLambda
      <3>4. CASE \E m \in ToSet(Lambdas) : h = GraphOf(LambdaId(m), input.ofLambda)
        <4>1. PICK m \in ToSet(Lambdas) : h = GraphOf(LambdaId(m), input.ofLambda)
          BY <3>4
        <4>2. h.symbol = LambdaId(m)
          BY <4>1, GraphFacts
        <4>3. QED BY <1>9, <3>1, <3>2, <4>1, <4>2
      <3>5. QED BY <1>2, <3>3, <3>4
    <2>3. QED BY <1>2, <2>1, <2>2
  <1>10. QED BY <1>7, <1>8, <1>9
-----------------------------------------------------------------------------
(* A reference has a symbol and a node of the snapshot, or none; and what a   *)
(* use is resolved to is a symbol.                                            *)
ReferencesAreClosed ==
  \A r \in ToSet(references) :
    r.symbol \in SymbolIdsOf \union {None} /\ r.node \in NodeIdsOf \union {None}

UsesAreClosed ==
  \A use \in DOMAIN uses : uses[use] # Unresolved => SymbolOf(uses[use]) # None

LEMMA ReferencesAreReported ==
  ASSUME TreesAreParsed, NodesStand, IdsAreKnown, AllSymbols(symbols), ReportUses,
         NEW all, all = references'
  PROVE  \A r \in ToSet(all) :
           r.symbol \in SymbolIdsOf \union {None} /\ r.node \in NodeIdsOf \union {None}
PROOF
  <1>1. PICK keys : keys = Uses!InKeyOrder
    OBVIOUS
  <1>2. all = [i \in DOMAIN keys |-> Reference(keys[i])]
    BY <1>1 DEF ReportUses
  <1>3. ASSUME NEW r \in ToSet(all)
        PROVE r.symbol \in SymbolIdsOf \union {None} /\ r.node \in NodeIdsOf \union {None}
    <2>1. PICK i \in DOMAIN keys : r = Reference(keys[i])
      BY <1>2 DEF ToSet
    <2>2. r.symbol = SymbolOf(uses[keys[i]]) /\ r.node = Syntax!NodeOf(Uses!SpanOf(keys[i]))
      BY <2>1 DEF Reference
    <2>3. SymbolOf(uses[keys[i]]) \in SymbolIdsOf \union {None}
      BY KnownIdsAreSymbols DEF SymbolOf
    <2>4. Syntax!NodeOf(Uses!SpanOf(keys[i])) \in NodeIdsOf \union {None}
      BY NodesAreNamed DEF IdsAreKnown
    <2>5. QED BY <2>2, <2>3, <2>4
  <1>4. QED BY <1>3

LEMMA AnswersAreTargets ==
  ASSUME UsesAreLists, IdsAreGiven, UsesStand, NEW key \in DOMAIN uses, uses[key] # Unresolved
  PROVE  uses[key] \in SymbolsIn(input)
PROOF
  <1>1. PICK own, read : Reads(own, read)
    BY DEF UsesStand
  <1>2. /\ own \in 0..Len(input.resolver) /\ \A b \in input.bodies : read[b] \in Nat /\ read[b] <= Len(b)
        /\ Settled(input, own, read, key, uses[key])
    BY <1>1 DEF Reads, Counts, AnswersStand
  <1>3. IsInput(input)
    BY DEF UsesStand
  <1>4. IsList(input.resolver) /\ \A b \in input.bodies : IsList(b)
    BY <1>3 DEF UsesAreLists, ListsItsUses
  <1>5. \A u \in UsesIn(input) : u.target \in SymbolsIn(input) \union {Unresolved}
    BY <1>3 DEF IdsAreGiven, GivesIds
  <1>6. CASE ResolverSays(input, own, key, uses[key])
    <2>1. PICK i \in 1..own : uses[key] = input.resolver[i].target
      BY <1>6 DEF ResolverSays
    <2>2. i \in DOMAIN input.resolver
      BY <1>2, <1>4, ListFacts
    <2>3. input.resolver[i] \in ToSet(input.resolver)
      BY <2>2 DEF ToSet
    <2>4. input.resolver[i] \in UsesIn(input)
      BY <2>3 DEF UsesIn
    <2>5. QED BY <1>5, <2>1, <2>4
  <1>7. CASE ABodyFinds(input, read, key, uses[key])
    <2>1. PICK b \in input.bodies : \E i \in 1..read[b] : uses[key] = b[i].target
      BY <1>7 DEF ABodyFinds
    <2>6. PICK i \in 1..read[b] : uses[key] = b[i].target
      BY <2>1
    <2>2. i \in DOMAIN b
      BY <1>2, <1>4, ListFacts
    <2>3. b[i] \in ToSet(b)
      BY <2>2 DEF ToSet
    <2>4. b[i] \in UsesIn(input)
      BY <2>3 DEF UsesIn
    <2>5. QED BY <1>5, <2>6, <2>4
  <1>8. QED BY <1>2, <1>6, <1>7 DEF Settled

LEMMA SymbolsAreSequences ==
  ASSUME IdsAreGiven, IsInput(input)
  PROVE  SymbolsIn(input) \subseteq Seq(Nat)
PROOF
  <1>1. HaveIds(AllOf(input.globals)) /\ HaveIds(input.locals)
    BY DEF IdsAreGiven, GivesIds, Declares
  <1>2. /\ \A d \in ToSet(AllOf(input.globals)) : d.id \in Nat
        /\ \A l \in ToSet(input.locals) : l.id \in Nat
    BY <1>1 DEF HaveIds, ToSet
  <1>3. \A n \in Nat : <<Global, n>> \in Seq(Nat) /\ <<Local, n>> \in Seq(Nat)
    BY DEF Global, Local
  <1>4. QED BY <1>2, <1>3 DEF SymbolsIn

LEMMA StandingUsesAreClosed ==
  ASSUME UsesAreLists, IdsAreGiven, UsesStand, IdsAreKnown
  PROVE  UsesAreClosed
PROOF
  <1> SUFFICES ASSUME NEW use \in DOMAIN uses, uses[use] # Unresolved
               PROVE  SymbolOf(uses[use]) # None
    BY DEF UsesAreClosed
  <1>1. uses[use] \in SymbolsIn(input)
    BY AnswersAreTargets
  <1>2. uses[use] \in Seq(Nat)
    BY <1>1, SymbolsAreSequences DEF UsesStand
  <1>3. SymbolOf(uses[use]) = uses[use]
    BY <1>1, KnownIds DEF SymbolOf
  <1>4. QED BY <1>2, <1>3, NoneAssumption
-----------------------------------------------------------------------------
(* A step of the conversion: what it does to the ids, the entries and the     *)
(* requests.                                                                  *)
Meets(t) == t \in Interned(input) /\ t \notin DOMAIN typeIds /\ typeIds' = Remembered(typeIds, t)
Adds(e, t) == t \in DOMAIN typeIds /\ types' = Append(types, e) /\ Unfolds(input, typeIds, e, t)

LEMMA ConvertDoes ==
  ASSUME TypesAreInterned, TableStands, Table!Convert
  PROVE  /\ \/ types' = types /\ (typeIds' = typeIds \/ \E t : Meets(t))
            \/ typeIds' = typeIds /\ \E e, t : Adds(e, t)
         /\ \/ requests' = requests
            \/ requests # <<>> /\ requests' = Tail(requests) /\ Head(requests) \in DOMAIN typeIds'
PROOF
  <1> DEFINE n == Len(converting)
             top == converting[n]
  <1>1. InternerIsClosed(input)
    BY InternersAreClosed DEF TableStands
  <1>2. /\ Stands(input, typeIds, types, converting)
        /\ requests \in Seq(Interned(input)) /\ IsInput(input)
    BY DEF TableStands
  <1>3. /\ converting \in Seq(Frames(input)) /\ n \in Nat /\ DOMAIN converting = 1..n
        /\ \A i \in DOMAIN converting : FrameStands(input, typeIds, converting[i])
    BY <1>2 DEF Stands, FramesStand
  <1>4. ASSUME converting # <<>>
        PROVE  /\ n \in DOMAIN converting /\ top \in Frames(input) /\ FrameStands(input, typeIds, top)
               /\ Table!Converting = top
    <2>1. n # 0
      BY <1>3, <1>4, EmptySeq
    <2>2. n \in DOMAIN converting
      BY <1>3, <2>1
    <2>3. QED BY <1>3, <2>2, TableOperands DEF Table!Converting
  <1>5. \A t, below : Table!Descend(t, below) => typeIds' = Remembered(typeIds, t)
    BY TableOperands DEF Table!Descend, Table!Remember, Table!NewId, Remembered
  <1>6. CASE Table!Request
    <2>1. /\ requests # <<>> /\ requests' = Tail(requests) /\ types' = types
      BY <1>6 DEF Table!Request
    <2>2. Head(requests) \in Interned(input)
      BY <1>2, <2>1, HeadTailProperties
    <2>3. CASE Head(requests) \in DOMAIN typeIds
      <3>1. typeIds' = typeIds
        BY <1>6, <2>3 DEF Table!Request
      <3>2. QED BY <2>1, <2>3, <3>1
    <2>4. CASE Head(requests) \notin DOMAIN typeIds
      <3>1. typeIds' = Remembered(typeIds, Head(requests))
        BY <1>5, <1>6, <2>4 DEF Table!Request
      <3>2. Meets(Head(requests))
        BY <2>2, <2>4, <3>1 DEF Meets
      <3>3. Head(requests) \in DOMAIN typeIds'
        BY <3>1 DEF Remembered
      <3>4. QED BY <2>1, <3>2, <3>3
    <2>5. QED BY <2>3, <2>4
  <1>7. CASE Table!ConvertKnown
    BY <1>7 DEF Table!ConvertKnown
  <1>8. CASE Table!ConvertNew
    <2>1. /\ converting # <<>> /\ Table!OperandsLeft /\ Table!Operand \notin DOMAIN typeIds
          /\ typeIds' = Remembered(typeIds, Table!Operand)
          /\ requests' = requests /\ types' = types
      BY <1>5, <1>8 DEF Table!ConvertNew
    <2>2. Table!Operand \in Interned(input)
      <3>1. top.type \in Interned(input) /\ top.done \in Seq(Nat) /\ Table!Converting = top
        BY <1>4, <2>1 DEF Frames
      <3>2. OperandsOf(input, top.type) \in Seq(Interned(input))
        BY <1>1, <3>1 DEF InternerIsClosed
      <3> HIDE DEF top
      <3>3. /\ Len(top.done) < Len(OperandsOf(input, top.type))
            /\ Table!Operand = OperandsOf(input, top.type)[Len(top.done) + 1]
        BY <2>1, <3>1, TableOperands DEF Table!OperandsLeft, Table!Operand
      <3>4. Len(top.done) + 1 \in 1..Len(OperandsOf(input, top.type))
        BY <3>1, <3>2, <3>3
      <3>5. QED BY <3>2, <3>3, <3>4
    <2>3. Meets(Table!Operand)
      BY <2>1, <2>2 DEF Meets
    <2>4. QED BY <2>1, <2>3
  <1>9. CASE Table!PushType
    <2>1. /\ converting # <<>> /\ ~ Table!OperandsLeft
          /\ requests' = requests /\ typeIds' = typeIds
      BY <1>9 DEF Table!PushType
    <2>2. top \in Frames(input) /\ FrameStands(input, typeIds, top) /\ Table!Converting = top
      BY <1>4, <2>1
    <2> HIDE DEF top
    <2>3. types' = Append(types, EntryOf(input, top))
      BY <1>9, <2>2 DEF Table!PushType, EntryOf
    <2>5. ~ Len(top.done) < Len(OperandsOf(input, top.type))
      BY <2>1, <2>2, TableOperands DEF Table!OperandsLeft
    <2>6. /\ input.interner[top.type].parts \in Seq(Interned(input))
          /\ input.interner[top.type].result \in Seq(Interned(input))
      <3>1. top.type \in Interned(input)
        BY <2>2 DEF Frames
      <3>2. QED BY <1>2, <3>1, InternersAreClosed
    <2>7. PICK file, ids, f, e :
            /\ file = input /\ ids = typeIds /\ f = top /\ e = EntryOf(input, top)
      OBVIOUS
    <2>8. Unfolds(file, ids, e, f.type)
      BY <1>1, <2>2, <2>5, <2>6, <2>7, DoneUnfolds
    <2>9. Adds(e, f.type)
      BY <2>2, <2>3, <2>7, <2>8 DEF Adds, FrameStands
    <2>10. QED BY <2>1, <2>9
  <1>10. QED BY <1>6, <1>7, <1>8, <1>9 DEF Table!Convert

(* Every entry is that of a type with an id.                                  *)
IsOfType(file, ids, e) == \E t \in DOMAIN ids : Unfolds(file, ids, e, t)
EntriesAreOfTypes == \A i \in DOMAIN types : IsOfType(input, typeIds, types[i])

LEMMA EntriesStayOfTypes ==
  ASSUME TypesAreInterned, TableStands, EntriesAreOfTypes, input' = input, Table!Convert
  PROVE  EntriesAreOfTypes' /\ DOMAIN typeIds \subseteq DOMAIN typeIds'
PROOF
  <1>0. IdsStand(input, typeIds) /\ IsList(types)
    BY DEF TableStands, Stands
  <1>1. CASE types' = types /\ typeIds' = typeIds
    BY <1>1 DEF EntriesAreOfTypes
  <1>2. CASE types' = types /\ \E t : Meets(t)
    <2>1. PICK t : Meets(t)
      BY <1>2
    <2>2. PICK file, ids, more : file = input /\ ids = typeIds /\ more = Remembered(ids, t)
      OBVIOUS
    <2>3. t \in Interned(file) /\ t \notin DOMAIN ids /\ IdsStand(file, ids) /\ typeIds' = more
      BY <1>0, <2>1, <2>2 DEF Meets
    <2>4. /\ DOMAIN more = DOMAIN ids \union {t}
          /\ \A e : \A u \in DOMAIN ids : Unfolds(file, ids, e, u) => Unfolds(file, more, e, u)
      BY <2>2, <2>3, MoreIds
    <2>5. \A e : IsOfType(file, ids, e) => IsOfType(file, more, e)
      BY <2>4 DEF IsOfType
    <2>6. \A i \in DOMAIN types' : IsOfType(input', typeIds', types'[i])
      BY <1>2, <2>2, <2>3, <2>5 DEF EntriesAreOfTypes
    <2>7. QED BY <2>2, <2>3, <2>4, <2>6 DEF EntriesAreOfTypes
  <1>3. CASE typeIds' = typeIds /\ \E e, t : Adds(e, t)
    <2>1. PICK e, t : Adds(e, t)
      BY <1>3
    <2>2. IsOfType(input, typeIds, e) /\ types' = Append(types, e)
      BY <2>1 DEF Adds, IsOfType
    <2>3. ASSUME NEW i \in DOMAIN types' PROVE IsOfType(input, typeIds, types'[i])
      <3>1. /\ DOMAIN types = 1..Len(types) /\ DOMAIN types' = 1..(Len(types) + 1) /\ Len(types) \in Nat
            /\ \A k \in 1..Len(types) : types'[k] = types[k]
            /\ types'[Len(types) + 1] = e
        BY <1>0, <2>2, AppendFacts
      <3>2. i \in DOMAIN types \/ i = Len(types) + 1
        BY <3>1
      <3>3. QED BY <2>2, <3>1, <3>2 DEF EntriesAreOfTypes
    <2>4. QED BY <1>3, <2>3 DEF EntriesAreOfTypes
  <1>4. QED BY <1>1, <1>2, <1>3, ConvertDoes

(* What is wanted was met or is requested.                                    *)
WantedIsMet == \A i \in DOMAIN Wanted : Wanted[i].type \in DOMAIN typeIds \union ToSet(requests)

LEMMA RequestsAreMet ==
  ASSUME TypesAreInterned, TableStands, Table!Convert, DOMAIN typeIds \subseteq DOMAIN typeIds'
  PROVE  DOMAIN typeIds \union ToSet(requests) \subseteq DOMAIN typeIds' \union ToSet(requests')
PROOF
  <1>1. CASE requests' = requests
    BY <1>1
  <1>2. CASE requests # <<>> /\ requests' = Tail(requests) /\ Head(requests) \in DOMAIN typeIds'
    <2>1. PICK s, T : s = requests /\ T = Interned(input) /\ s \in Seq(T)
      BY DEF TableStands
    <2>2. /\ s # <<>> /\ Len(s) \in Nat \ {0} /\ DOMAIN s = 1..Len(s)
          /\ DOMAIN Tail(s) = 1..(Len(s) - 1) /\ \A i \in 1..(Len(s) - 1) : Tail(s)[i] = s[i + 1]
      BY <1>2, <2>1, EmptySeq, HeadTailProperties
    <2>3. ASSUME NEW i \in DOMAIN s PROVE s[i] = Head(s) \/ s[i] \in ToSet(Tail(s))
      <3>1. CASE i = 1
        BY <2>2, <3>1 DEF Head
      <3>2. CASE i # 1
        <4>1. i - 1 \in 1..(Len(s) - 1) /\ (i - 1) + 1 = i
          BY <2>2, <3>2
        <4>2. i - 1 \in DOMAIN Tail(s) /\ Tail(s)[i - 1] = s[i]
          BY <2>2, <4>1
        <4>3. QED BY <4>2 DEF ToSet
      <3>3. QED BY <3>1, <3>2
    <2>4. \A t \in ToSet(s) : t = Head(s) \/ t \in ToSet(Tail(s))
      BY <2>3 DEF ToSet
    <2>5. QED BY <1>2, <2>1, <2>4
  <1>3. QED BY <1>1, <1>2, ConvertDoes

(* When all is converted, whatever names a type names an entry.               *)
LEMMA MetTypesHaveEntries ==
  ASSUME TableStands, converting = <<>>, NEW t \in DOMAIN typeIds
  PROVE  typeIds[t] \in TypeIdsOf
PROOF
  <1>1. HasEntry(input, typeIds, types, t)
    BY DEF TableStands, Stands, IsOn
  <1>2. PICK i \in DOMAIN types : Unfolds(input, typeIds, types[i], t)
    BY <1>1 DEF HasEntry
  <1>3. types[i].id = typeIds[t]
    BY <1>2 DEF Unfolds
  <1>4. QED BY <1>3 DEF TypeIdsOf, ToSet

TypesAreClosed == \A t \in ToSet(types) : ToSet(t.elements) \union ToSet(t.result) \subseteq TypeIdsOf
NodeTypesAreClosed == \A n \in DOMAIN nodeTypes : n \in NodeIdsOf /\ nodeTypes[n] \in TypeIdsOf

LEMMA ConvertedTypesAreClosed ==
  ASSUME TableStands, EntriesAreOfTypes, converting = <<>>
  PROVE  TypesAreClosed
PROOF
  <1>1. ASSUME NEW e \in ToSet(types) PROVE ToSet(e.elements) \union ToSet(e.result) \subseteq TypeIdsOf
    <2>1. PICK i \in DOMAIN types : e = types[i]
      BY DEF ToSet
    <2>2. PICK t \in DOMAIN typeIds : Unfolds(input, typeIds, e, t)
      BY <2>1 DEF EntriesAreOfTypes, IsOfType
    <2>3. PICK a, b, all, n, m : /\ a = e.elements /\ b = e.result /\ all = a \o b
                                 /\ n = Len(a) /\ m = Len(b)
      OBVIOUS
    <2>4. Follows(all, a, n, b, m)
      <3>1. a \in Seq(Nat) /\ b \in Seq(Nat)
        BY <2>2, <2>3 DEF Unfolds
      <3>2. IsList(a) /\ IsList(b)
        BY <3>1, ListsAre
      <3>3. QED BY <2>3, <3>2, ConcatFacts DEF IsConcat
    <2>5. \A k \in DOMAIN all : all[k] \in TypeIdsOf
      BY <2>2, <2>3, MetTypesHaveEntries DEF Unfolds
    <2>6. \A k \in 1..n : a[k] \in TypeIdsOf
      BY <2>4, <2>5 DEF Follows
    <2>7. \A k \in 1..m : b[k] \in TypeIdsOf
      <3>1. \A k \in 1..m : n + k \in DOMAIN all
        BY <2>4 DEF Follows
      <3>2. QED BY <2>4, <2>5, <3>1 DEF Follows
    <2>8. QED BY <2>3, <2>4, <2>6, <2>7 DEF Follows, ToSet
  <1>2. QED BY <1>1 DEF TypesAreClosed

LEMMA NodesGetTypes ==
  ASSUME TypesAreInterned, TreesAreParsed, NodesStand, TableStands, IdsAreKnown, WantedIsMet, Finish,
         NEW all, all = nodeTypes'
  PROVE  \A n \in DOMAIN all : n \in NodeIdsOf /\ all[n] \in TypeIdsOf
PROOF
  <1>1. /\ requests = <<>> /\ converting = <<>>
        /\ all = [n \in {Wanted[i].node : i \in DOMAIN Wanted} |->
                    typeIds[Wanted[Min({i \in DOMAIN Wanted : Wanted[i].node = n})].type]]
    BY DEF Finish, Table!Converted
  <1>2. PICK s : s = Wanted /\ s \in Seq(WantedOf(input))
    BY WantedIsOf DEF TableStands
  <1>3. DOMAIN s = 1..Len(s) /\ Len(s) \in Nat /\ \A i \in DOMAIN s : s[i] \in WantedOf(input)
    BY <1>2
  <1>4. \A i \in DOMAIN s : s[i].node \in NodeIdsOf
    BY <1>3, NodesAreNamed DEF WantedOf, IdsAreKnown
  <1>5. \A i \in DOMAIN s : s[i].type \in DOMAIN typeIds
    BY <1>1, <1>2 DEF WantedIsMet, ToSet
  <1>6. ASSUME NEW n \in DOMAIN all PROVE n \in NodeIdsOf /\ all[n] \in TypeIdsOf
    <2>1. PICK k \in DOMAIN s : n = s[k].node
      BY <1>1, <1>2
    <2>2. PICK S : S = {i \in DOMAIN s : s[i].node = n}
      OBVIOUS
    <2>3. S \in SUBSET Nat /\ S # {}
      BY <1>3, <2>1, <2>2
    <2>4. PICK m \in S : \A i \in S : m <= i
      BY <2>3, SmallestExists
    <2>5. Min(S) \in S
      BY <2>4 DEF Min
    <2>6. Min(S) \in DOMAIN s
      BY <2>2, <2>5
    <2>7. all[n] = typeIds[s[Min(S)].type]
      BY <1>1, <1>2, <2>2
    <2>8. QED BY <1>1, <1>4, <1>5, <2>1, <2>6, <2>7, MetTypesHaveEntries
  <1>7. QED BY <1>6
-----------------------------------------------------------------------------
(* What is there of the snapshot at each stage, and that it is closed so far. *)
PartsStand ==
  /\ stage # "nodes" => IdsAreKnown
  /\ stage = "lambdas" => FirstSymbols(symbols)
  /\ stage \in {"graphs", "uses", "types", "built"} => AllSymbols(symbols)
  /\ stage \in {"uses", "types", "built"} => GraphsAreClosed
  /\ stage \in {"types", "built"} => ReferencesAreClosed
  /\ stage = "types" => WantedIsMet
  /\ stage = "built" => converting = <<>> /\ NodeTypesAreClosed

Standing == NodesStand /\ TableStands /\ UsesStand /\ EntriesAreOfTypes /\ PartsStand

LEMMA SamePlaces ==
  ASSUME input' = input, nodes' = nodes
  PROVE  NodeIdsOf' = NodeIdsOf /\ Lambdas' = Lambdas /\ AllGlobals' = AllGlobals
BY DEF NodeIdsOf, Lambdas, AllGlobals

LEMMA FirstSymbolsNext ==
  ASSUME input' = input, nodes' = nodes, NEW list, list = symbols', FirstSymbols(list)
  PROVE  FirstSymbols(symbols)'
BY SamePlaces DEF FirstSymbols, SymbolsStand, IsSymbol

LEMMA AllSymbolsNext ==
  ASSUME input' = input, nodes' = nodes, NEW list, list = symbols', AllSymbols(list)
  PROVE  AllSymbols(symbols)'
BY SamePlaces DEF AllSymbols, SymbolsStand, IsSymbol, IsInTheNearest, Encloses, IsTypeParameter

LEMMA SymbolsStay ==
  ASSUME input' = input, nodes' = nodes, symbols' = symbols, AllSymbols(symbols)
  PROVE  AllSymbols(symbols)' /\ SymbolIdsOf' = SymbolIdsOf /\ NodeIdsOf' = NodeIdsOf
PROOF
  <1>1. AllSymbols(symbols)'
    <2>1. PICK list : list = symbols
      OBVIOUS
    <2>2. QED BY <2>1, AllSymbolsNext
  <1>2. QED BY <1>1, SamePlaces DEF SymbolIdsOf

LEMMA IdsStayKnown ==
  ASSUME input' = input, UNCHANGED <<frames, nodes, symbolIds, localIds>>, IdsAreKnown
  PROVE  IdsAreKnown'
BY SamePlaces DEF IdsAreKnown

LEMMA GraphsStayClosed ==
  ASSUME graphs' = graphs, NodeIdsOf' = NodeIdsOf, SymbolIdsOf' = SymbolIdsOf, GraphsAreClosed
  PROVE  GraphsAreClosed'
BY DEF GraphsAreClosed

LEMMA ReferencesStayClosed ==
  ASSUME references' = references, NodeIdsOf' = NodeIdsOf, SymbolIdsOf' = SymbolIdsOf, ReferencesAreClosed
  PROVE  ReferencesAreClosed'
BY DEF ReferencesAreClosed

LEMMA EntriesKeep ==
  ASSUME TypesAreInterned, TableStands, EntriesAreOfTypes, [Next]_vars
  PROVE  EntriesAreOfTypes'
PROOF
  <1>1. CASE ConvertTypes
    <2>1. input' = input /\ Table!Convert
      BY <1>1 DEF ConvertTypes
    <2>2. QED BY <2>1, EntriesStayOfTypes
  <1>2. CASE \/ CollectNode \/ CollectSymbols \/ CollectLambdas \/ CollectGraphs \/ ReadUses
             \/ ReportUses \/ Finish \/ UNCHANGED vars
    <2>1. input' = input /\ typeIds' = typeIds /\ types' = types
      BY <1>2 DEF CollectNode, CollectSymbols, CollectLambdas, CollectGraphs, ReadUses, ReportUses,
                  Finish, vars, walk, naming, merging, reported, table
    <2>2. QED BY <2>1 DEF EntriesAreOfTypes
  <1>3. QED BY <1>1, <1>2 DEF Next

LEMMA WantedStays ==
  ASSUME input' = input, nodeIds' = nodeIds
  PROVE  Wanted' = Wanted
BY DEF Wanted, AllGlobals, Syntax!ExactNode

(* The hypotheses together.                                                   *)
InputsAreGood == TypesAreInterned /\ TreesAreParsed /\ UsesAreLists /\ IdsAreGiven

LEMMA PartsKeepStanding ==
  ASSUME InputsAreGood, Standing, [Next]_vars
  PROVE  PartsStand'
PROOF
  <1>0. /\ TypesAreInterned /\ TreesAreParsed /\ UsesAreLists /\ IdsAreGiven
        /\ NodesStand /\ TableStands /\ UsesStand /\ EntriesAreOfTypes /\ PartsStand
    BY DEF InputsAreGood, Standing
  <1>1. CASE CollectNode
    <2>1. stage' = "nodes"
      BY <1>1 DEF CollectNode
    <2>2. QED BY <2>1 DEF PartsStand
  <1>2. CASE CollectSymbols
    <2>1. /\ input' = input /\ UNCHANGED <<frames, nodes>> /\ stage' = "lambdas" /\ frames = <<>>
      BY <1>2 DEF CollectSymbols, walk, Syntax!Walked
    <2>2. IdsAreKnown'
      BY <1>2, <2>1, SamePlaces DEF CollectSymbols, IdsAreKnown
    <2>3. PICK list : list = symbols'
      OBVIOUS
    <2>4. FirstSymbols(list)
      BY <1>0, <1>2, <2>3, SymbolsAreFirst
    <2>5. FirstSymbols(symbols)'
      BY <2>1, <2>3, <2>4, FirstSymbolsNext
    <2>6. QED BY <2>1, <2>2, <2>5 DEF PartsStand
  <1>3. CASE CollectLambdas
    <2>1. /\ input' = input /\ UNCHANGED <<frames, nodes, symbolIds, localIds>>
          /\ stage = "lambdas" /\ stage' = "graphs"
      BY <1>3 DEF CollectLambdas, walk
    <2>2. IdsAreKnown'
      BY <1>0, <2>1, IdsStayKnown DEF PartsStand
    <2>3. PICK list : list = symbols'
      OBVIOUS
    <2>4. FirstSymbols(symbols)
      BY <1>0, <2>1 DEF PartsStand
    <2>5. AllSymbols(list)
      BY <1>0, <1>3, <2>3, <2>4, SymbolsTakeLambdas
    <2>6. AllSymbols(symbols)'
      BY <2>1, <2>3, <2>5, AllSymbolsNext
    <2>7. QED BY <2>1, <2>2, <2>6 DEF PartsStand
  <1>4. CASE CollectGraphs
    <2>1. /\ input' = input /\ UNCHANGED <<frames, nodes, symbolIds, localIds>> /\ symbols' = symbols
          /\ stage = "graphs" /\ stage' = "uses"
      BY <1>4 DEF CollectGraphs, walk
    <2>2. AllSymbols(symbols) /\ IdsAreKnown
      BY <1>0, <2>1 DEF PartsStand
    <2>3. AllSymbols(symbols)' /\ SymbolIdsOf' = SymbolIdsOf /\ NodeIdsOf' = NodeIdsOf
      BY <2>1, <2>2, SymbolsStay
    <2>4. IdsAreKnown'
      BY <2>1, <2>2, IdsStayKnown
    <2>5. PICK all : all = graphs'
      OBVIOUS
    <2>6. \A g \in all :
            /\ g.symbol \in SymbolIdsOf
            /\ \A h \in all : h.symbol = g.symbol => h = g
            /\ \A n \in ToSet(g.nodes) :
                 n.ast \in NodeIdsOf \union {None} /\ n.reads \union n.writes \subseteq SymbolIdsOf
      BY <1>0, <1>4, <2>2, <2>5, GraphsAreCollected
    <2>7. GraphsAreClosed'
      BY <2>3, <2>5, <2>6 DEF GraphsAreClosed
    <2>8. QED BY <2>1, <2>3, <2>4, <2>7 DEF PartsStand
  <1>5. ASSUME input' = input, UNCHANGED <<frames, nodes, symbolIds, localIds>>, symbols' = symbols, graphs' = graphs,
               stage \in {"uses", "types", "built"}
        PROVE  /\ IdsAreKnown' /\ AllSymbols(symbols)' /\ GraphsAreClosed'
               /\ SymbolIdsOf' = SymbolIdsOf /\ NodeIdsOf' = NodeIdsOf
               /\ IdsAreKnown /\ AllSymbols(symbols)
    <2>1. AllSymbols(symbols) /\ IdsAreKnown /\ GraphsAreClosed
      BY <1>0, <1>5 DEF PartsStand
    <2>2. AllSymbols(symbols)' /\ SymbolIdsOf' = SymbolIdsOf /\ NodeIdsOf' = NodeIdsOf
      BY <1>5, <2>1, SymbolsStay
    <2>3. IdsAreKnown'
      BY <1>5, <2>1, IdsStayKnown
    <2>4. QED BY <1>5, <2>1, <2>2, <2>3, GraphsStayClosed
  <1>6. CASE ReadUses
    <2>1. /\ input' = input /\ UNCHANGED <<frames, nodes, symbolIds, localIds>> /\ symbols' = symbols
          /\ graphs' = graphs /\ stage = "uses" /\ stage' = "uses"
      BY <1>6 DEF ReadUses, walk, naming
    <2>2. QED BY <1>5, <2>1 DEF PartsStand
  <1>7. CASE ReportUses
    <2>1. /\ input' = input /\ UNCHANGED <<frames, nodes, symbolIds, localIds>> /\ symbols' = symbols
          /\ graphs' = graphs /\ nodeIds' = nodeIds /\ stage = "uses" /\ stage' = "types"
      BY <1>7 DEF ReportUses, walk, naming
    <2>2. /\ IdsAreKnown' /\ AllSymbols(symbols)' /\ GraphsAreClosed'
          /\ SymbolIdsOf' = SymbolIdsOf /\ NodeIdsOf' = NodeIdsOf
          /\ IdsAreKnown /\ AllSymbols(symbols)
      BY <1>5, <2>1
    <2>3. PICK all : all = references'
      OBVIOUS
    <2>4. \A r \in ToSet(all) :
            r.symbol \in SymbolIdsOf \union {None} /\ r.node \in NodeIdsOf \union {None}
      BY <1>0, <1>7, <2>2, <2>3, ReferencesAreReported
    <2>5. ReferencesAreClosed'
      BY <2>2, <2>3, <2>4 DEF ReferencesAreClosed
    <2>6. WantedIsMet'
      <3>1. Wanted' = Wanted
        BY <2>1, WantedStays
      <3>2. requests' = [i \in DOMAIN Wanted |-> Wanted[i].type]
        BY <1>7 DEF ReportUses
      <3>3. \A i \in DOMAIN Wanted : Wanted[i].type \in ToSet(requests')
        BY <3>2 DEF ToSet
      <3>4. QED BY <3>1, <3>3 DEF WantedIsMet
    <2>7. QED BY <2>1, <2>2, <2>5, <2>6 DEF PartsStand
  <1>8. CASE ConvertTypes
    <2>1. /\ input' = input /\ UNCHANGED <<frames, nodes, symbolIds, localIds>> /\ symbols' = symbols
          /\ graphs' = graphs /\ nodeIds' = nodeIds /\ references' = references
          /\ stage = "types" /\ stage' = "types"
      BY <1>8 DEF ConvertTypes, walk, naming, reported
    <2>2. /\ IdsAreKnown' /\ AllSymbols(symbols)' /\ GraphsAreClosed'
          /\ SymbolIdsOf' = SymbolIdsOf /\ NodeIdsOf' = NodeIdsOf
      BY <1>5, <2>1
    <2>3. ReferencesAreClosed'
      BY <1>0, <2>1, <2>2, ReferencesStayClosed DEF PartsStand
    <2>4. WantedIsMet'
      <3>1. Wanted' = Wanted
        BY <2>1, WantedStays
      <3>2. Table!Convert
        BY <1>8 DEF ConvertTypes
      <3>3. DOMAIN typeIds \subseteq DOMAIN typeIds'
        BY <1>0, <2>1, <3>2, EntriesStayOfTypes
      <3>4. DOMAIN typeIds \union ToSet(requests) \subseteq DOMAIN typeIds' \union ToSet(requests')
        BY <1>0, <3>2, <3>3, RequestsAreMet
      <3>5. WantedIsMet
        BY <1>0, <2>1 DEF PartsStand
      <3>6. QED BY <3>1, <3>4, <3>5 DEF WantedIsMet
    <2>5. QED BY <2>1, <2>2, <2>3, <2>4 DEF PartsStand
  <1>9. CASE Finish
    <2>1. /\ input' = input /\ UNCHANGED <<frames, nodes, symbolIds, localIds>> /\ symbols' = symbols
          /\ graphs' = graphs /\ references' = references /\ types' = types /\ converting' = converting
          /\ stage = "types" /\ stage' = "built" /\ converting = <<>>
      BY <1>9 DEF Finish, walk, naming, reported, table, Table!Converted
    <2>2. /\ IdsAreKnown' /\ AllSymbols(symbols)' /\ GraphsAreClosed'
          /\ SymbolIdsOf' = SymbolIdsOf /\ NodeIdsOf' = NodeIdsOf /\ IdsAreKnown
      BY <1>5, <2>1
    <2>3. ReferencesAreClosed'
      BY <1>0, <2>1, <2>2, ReferencesStayClosed DEF PartsStand
    <2>4. PICK all : all = nodeTypes'
      OBVIOUS
    <2>5. WantedIsMet
      BY <1>0, <2>1 DEF PartsStand
    <2>6. \A n \in DOMAIN all : n \in NodeIdsOf /\ all[n] \in TypeIdsOf
      BY <1>0, <1>9, <2>2, <2>4, <2>5, NodesGetTypes
    <2>7. TypeIdsOf' = TypeIdsOf
      BY <2>1 DEF TypeIdsOf
    <2>8. NodeTypesAreClosed'
      BY <2>2, <2>4, <2>6, <2>7 DEF NodeTypesAreClosed
    <2>9. QED BY <2>1, <2>2, <2>3, <2>8 DEF PartsStand
  <1>10. CASE UNCHANGED vars
    <2>1. /\ input' = input /\ stage' = stage /\ UNCHANGED <<frames, nodeIds, nodes, symbolIds, localIds>>
          /\ symbols' = symbols /\ graphs' = graphs /\ references' = references
          /\ requests' = requests /\ typeIds' = typeIds /\ types' = types /\ converting' = converting
          /\ nodeTypes' = nodeTypes
      BY <1>10 DEF vars, walk, naming, reported, table
    <2>2. stage # "nodes" => IdsAreKnown'
      BY <1>0, <2>1, IdsStayKnown DEF PartsStand
    <2>3. stage = "lambdas" => FirstSymbols(symbols)'
      <3>1. PICK list : list = symbols
        OBVIOUS
      <3>2. QED BY <1>0, <2>1, <3>1, FirstSymbolsNext DEF PartsStand
    <2>4. stage \in {"graphs", "uses", "types", "built"} => AllSymbols(symbols)'
      BY <1>0, <2>1, SymbolsStay DEF PartsStand
    <2>5. stage \in {"uses", "types", "built"} => GraphsAreClosed'
      BY <1>5, <2>1
    <2>6. stage \in {"types", "built"} => ReferencesAreClosed'
      BY <1>0, <1>5, <2>1, ReferencesStayClosed DEF PartsStand
    <2>7. stage = "types" => WantedIsMet'
      BY <1>0, <2>1, WantedStays DEF PartsStand, WantedIsMet
    <2>8. stage = "built" => converting' = <<>> /\ NodeTypesAreClosed'
      BY <1>0, <1>5, <2>1 DEF PartsStand, NodeTypesAreClosed, TypeIdsOf
    <2>9. QED BY <2>1, <2>2, <2>3, <2>4, <2>5, <2>6, <2>7, <2>8 DEF PartsStand
  <1>11. QED BY <1>1, <1>2, <1>3, <1>4, <1>6, <1>7, <1>8, <1>9, <1>10 DEF Next

LEMMA StandingAtFirst ==
  ASSUME InputsAreGood, Init
  PROVE  Standing
PROOF
  <1>1. NodesStand /\ TableStands /\ UsesStand
    BY NodesStandAtFirst, TableStandsAtFirst, UsesStandAtFirst DEF InputsAreGood
  <1>2. EntriesAreOfTypes /\ PartsStand
    BY DEF Init, Table!StartTable, EntriesAreOfTypes, PartsStand
  <1>3. QED BY <1>1, <1>2 DEF Standing

LEMMA StandingKeeps ==
  ASSUME InputsAreGood, Standing, [Next]_vars
  PROVE  Standing'
PROOF
  <1>0. /\ TypesAreInterned /\ TreesAreParsed /\ UsesAreLists
        /\ NodesStand /\ TableStands /\ UsesStand /\ EntriesAreOfTypes
    BY DEF InputsAreGood, Standing
  <1>1. NodesStand'
    BY <1>0, NodesKeepStanding
  <1>2. TableStands'
    BY <1>0, TableKeepsStanding
  <1>3. UsesStand'
    BY <1>0, UsesAlwaysKeepStanding
  <1>4. EntriesAreOfTypes'
    BY <1>0, EntriesKeep
  <1>5. PartsStand'
    BY PartsKeepStanding
  <1>6. QED BY <1>1, <1>2, <1>3, <1>4, <1>5 DEF Standing

LEMMA StandingSnapshotIsClosed ==
  ASSUME InputsAreGood, Standing
  PROVE  SnapshotIsClosed
PROOF
  <1> SUFFICES ASSUME stage = "built" PROVE SnapshotIsClosed
    BY DEF SnapshotIsClosed, Built
  <1>1. /\ TreesAreParsed /\ UsesAreLists /\ IdsAreGiven
        /\ NodesStand /\ TableStands /\ UsesStand /\ EntriesAreOfTypes
        /\ IdsAreKnown /\ AllSymbols(symbols) /\ GraphsAreClosed /\ ReferencesAreClosed
        /\ converting = <<>> /\ NodeTypesAreClosed
    BY DEF InputsAreGood, Standing, PartsStand
  <1>2. Syntax!NodesFormTheTree
    BY <1>1, StandingNodesFormTheTree
  <1>3. SymbolsStand(symbols)
    BY <1>1 DEF AllSymbols
  <1>4. /\ Cardinality(SymbolIdsOf) = Len(symbols)
        /\ \A s \in ToSet(symbols) :
             /\ s.node \in NodeIdsOf \union {None} /\ s.container \in SymbolIdsOf \union {None}
             /\ \A c \in ToSet(symbols) : s.container = c.id => IsAround(c, s)
             /\ IsInTheNearest(symbols, s)
    BY <1>1, <1>3, StandingSymbolsAreClosed DEF AllSymbols
  <1>5. UsesAreClosed
    BY <1>1, StandingUsesAreClosed
  <1>6. TypesAreClosed
    BY <1>1, ConvertedTypesAreClosed
  <1>7. QED BY <1>1, <1>2, <1>4, <1>5, <1>6
            DEF SnapshotIsClosed, GraphsAreClosed, ReferencesAreClosed, UsesAreClosed, TypesAreClosed,
                NodeTypesAreClosed

(* A snapshot is closed, whatever the file is: every id that one of its parts *)
(* mentions is that of one entry, so that no query ends at nothing            *)
(* (SnapshotBuilder.build).                                                   *)
THEOREM SnapshotIsAlwaysClosed ==
  ASSUME TypesAreInterned, TreesAreParsed, UsesAreLists, IdsAreGiven
  PROVE  Spec => []SnapshotIsClosed
PROOF
  <1>1. InputsAreGood
    BY DEF InputsAreGood
  <1>2. Init => Standing
    BY <1>1, StandingAtFirst
  <1>3. Standing /\ [Next]_vars => Standing'
    BY <1>1, StandingKeeps
  <1>4. Standing => SnapshotIsClosed
    BY <1>1, StandingSnapshotIsClosed
  <1>5. QED BY <1>2, <1>3, <1>4, PTL DEF Spec
-----------------------------------------------------------------------------
(* Positions have the order of the boundaries they stand for.                 *)
LEMMA PlaceOfBoundary ==
  ASSUME NEW source, IsText(source), NEW B, NEW U, Measures(source, B, U), NEW k \in 0..Len(source)
  PROVE  /\ B[k] \in Nat
         /\ Position(source, B[k]) =
              [line |-> Cardinality(Newlines(source, k)), character |-> U[k] - U[LineStart(source, k)]]
         /\ Cardinality(Newlines(source, k)) \in Nat /\ U[k] - U[LineStart(source, k)] \in Int
PROOF
  <1>1. PICK m : m = Len(source)
    OBVIOUS
  <1>2. /\ m \in Nat /\ B \in [0..m -> Nat] /\ U \in [0..m -> Nat]
        /\ \A a, b \in 0..m : a < b => B[a] < B[b]
    BY <1>1 DEF IsText, IsList, Measures
  <1>3. k \in 0..m /\ k \in Nat /\ B[k] \in Nat
    BY <1>1, <1>2
  <1>4. PICK n : n = Reached(source, B[k])
    OBVIOUS
  <1>5. /\ n \in 0..m /\ B[n] <= B[k] /\ \A l \in 0..m : B[l] <= B[k] => l <= n
        /\ Position(source, B[k]) =
             [line |-> Cardinality(Newlines(source, n)), character |-> U[n] - U[LineStart(source, n)]]
    BY <1>1, <1>3, <1>4, ReachedFacts
  <1>6. n = k
    <2>1. B[n] \in Nat /\ k <= n
      BY <1>2, <1>3, <1>5
    <2>2. ~ (k < n)
      BY <1>2, <1>3, <1>5, <2>1
    <2>3. QED BY <1>3, <1>5, <2>1, <2>2
  <1>7. LineStart(source, k) \in 0..m /\ Cardinality(Newlines(source, k)) \in Nat
    BY <1>2, <1>3, LineFacts
  <1>8. U[k] - U[LineStart(source, k)] \in Int
    BY <1>2, <1>3, <1>7
  <1>9. QED BY <1>3, <1>5, <1>6, <1>7, <1>8

LEMMA PlacesAreApart ==
  ASSUME NEW source, IsText(source), NEW a \in Boundaries(source), NEW b \in Boundaries(source)
  PROVE  /\ a \in Nat /\ b \in Nat
         /\ NotAfter(Position(source, a), Position(source, b)) <=> a <= b
PROOF
  <1>1. PICK B, U : Measures(source, B, U)
    BY TextsAreMeasured DEF CanBeMeasured
  <1>2. PICK m : m = Len(source)
    OBVIOUS
  <1>3. /\ m \in Nat /\ B \in [0..m -> Nat]
        /\ \A i, j \in 0..m : i < j => B[i] < B[j]
        /\ \A n \in 0..m : Bytes(Before(source, n)) = B[n]
    <2>1. \A n \in 0..m : Bytes(Before(source, n)) = B[n]
      BY <1>1, <1>2, PrefixFacts
    <2>2. QED BY <1>1, <1>2, <2>1 DEF IsText, IsList, Measures
  <1>4. PICK i \in 0..m : a = B[i]
    BY <1>2, <1>3 DEF Boundaries
  <1>5. PICK j \in 0..m : b = B[j]
    BY <1>2, <1>3 DEF Boundaries
  <1>6. PICK rowI, unitI : rowI = Cardinality(Newlines(source, i)) /\ unitI = U[i] - U[LineStart(source, i)]
    OBVIOUS
  <1>7. PICK rowJ, unitJ : rowJ = Cardinality(Newlines(source, j)) /\ unitJ = U[j] - U[LineStart(source, j)]
    OBVIOUS
  <1>8. /\ a \in Nat /\ Position(source, a) = [line |-> rowI, character |-> unitI]
        /\ rowI \in Nat /\ unitI \in Int
    BY <1>1, <1>2, <1>4, <1>6, PlaceOfBoundary
  <1>9. /\ b \in Nat /\ Position(source, b) = [line |-> rowJ, character |-> unitJ]
        /\ rowJ \in Nat /\ unitJ \in Int
    BY <1>1, <1>2, <1>5, <1>7, PlaceOfBoundary
  <1>10. NotAfter(Position(source, a), Position(source, b)) <=> rowI < rowJ \/ (rowI = rowJ /\ unitI <= unitJ)
    BY <1>8, <1>9 DEF NotAfter
  <1>11. CASE i <= j
    <2>1. j \in 0..Len(source) /\ i \in 0..j
      BY <1>2, <1>3, <1>11
    <2>2. rowI < rowJ \/ (rowI = rowJ /\ unitI <= unitJ)
      BY <1>1, <1>6, <1>7, <2>1, PlacesInOrder
    <2>3. a <= b
      <3>1. i = j \/ i < j
        BY <1>3, <1>11
      <3>2. CASE i = j
        BY <1>4, <1>5, <1>8, <3>2
      <3>3. CASE i < j
        BY <1>3, <1>4, <1>5, <1>8, <1>9, <3>3
      <3>4. QED BY <3>1, <3>2, <3>3
    <2>4. QED BY <1>8, <1>9, <1>10, <2>2, <2>3
  <1>12. CASE j < i
    <2>1. i \in 0..Len(source) /\ j \in 0..i
      BY <1>2, <1>3, <1>12
    <2>2. /\ rowJ < rowI \/ (rowJ = rowI /\ unitJ <= unitI)
          /\ ~ (rowJ = rowI /\ unitJ = unitI)
      <3>1. i # j
        BY <1>3, <1>12
      <3>2. QED BY <1>1, <1>6, <1>7, <2>1, <3>1, PlacesInOrder
    <2>3. ~ (rowI < rowJ \/ (rowI = rowJ /\ unitI <= unitJ))
      BY <1>8, <1>9, <2>2
    <2>4. ~ (a <= b)
      BY <1>3, <1>4, <1>5, <1>8, <1>9, <1>12
    <2>5. QED BY <1>8, <1>9, <1>10, <2>3, <2>4
  <1>13. QED BY <1>3, <1>11, <1>12
-----------------------------------------------------------------------------
(* The keys of uses: those that were read, finitely many, each of a word.     *)
WordsAreUsed == \A file : IsInput(file) => UsesAreWords(file)

AreKeys(S) == S \subseteq Nat \X Nat \X Nat
KeyIsBefore(k, l) ==
  k[1] < l[1] \/ (k[1] = l[1] /\ k[2] < l[2]) \/ (k[1] = l[1] /\ k[2] = l[2] /\ k[3] < l[3])

InTheirOrder(keys, n, S) ==
  /\ n \in Nat /\ DOMAIN keys = 1..n /\ \A i \in 1..n : keys[i] \in S
  /\ \A k \in S : \E i \in 1..n : keys[i] = k
  /\ \A i, j \in 1..n : i < j <=> KeyIsBefore(keys[i], keys[j])

LEMMA KeysAreInOrder ==
  ASSUME NEW S, IsFiniteSet(S), AreKeys(S), S = DOMAIN uses,
         NEW keys, keys = Uses!InKeyOrder
  PROVE  \E n : InTheirOrder(keys, n, S)
PROOF
  <1> DEFINE below == [x \in S |-> {y \in S : KeyIsBefore(y, x)}]
             n == Cardinality(S)
  <1>1. keys = [i \in 1..n |-> CHOOSE x \in S : Cardinality({y \in S : KeyIsBefore(y, x)}) = i - 1]
    BY DEF Uses!InKeyOrder, Uses!InOrder, Uses!KeyBefore, KeyIsBefore, Uses!Cardinality, Cardinality
  <1>2. \A x \in S : below[x] = {y \in S : KeyIsBefore(y, x)}
    OBVIOUS
  <1>3. keys = [i \in 1..n |-> CHOOSE x \in S : Cardinality(below[x]) = i - 1]
    <2> DEFINE at(i) == CHOOSE x \in S : Cardinality({y \in S : KeyIsBefore(y, x)}) = i - 1
               place(i) == CHOOSE x \in S : Cardinality(below[x]) = i - 1
    <2>1. ASSUME NEW i \in 1..n PROVE at(i) = place(i)
      <3> HIDE DEF below
      <3>1. \A x : x \in S /\ Cardinality({y \in S : KeyIsBefore(y, x)}) = i - 1
                   <=> x \in S /\ Cardinality(below[x]) = i - 1
        BY <1>2
      <3>2. QED BY <3>1
    <2>2. keys = [i \in 1..n |-> at(i)]
      BY <1>1
    <2> HIDE DEF at, place
    <2>3. keys = [i \in 1..n |-> place(i)]
      BY <2>1, <2>2
    <2>4. QED BY <2>3 DEF place
  <1>4. \A x \in S : x[1] \in Nat /\ x[2] \in Nat /\ x[3] \in Nat /\ x = <<x[1], x[2], x[3]>>
    BY DEF AreKeys
  <1>5. IsOrder(S, below)
    <2>1. below \in [S -> SUBSET S]
      OBVIOUS
    <2>2. \A x \in S : ~ KeyIsBefore(x, x)
      BY <1>4 DEF KeyIsBefore
    <2>3. \A x, y \in S : x # y => KeyIsBefore(x, y) \/ KeyIsBefore(y, x)
      <3>1. ASSUME NEW x \in S, NEW y \in S, ~ KeyIsBefore(x, y), ~ KeyIsBefore(y, x) PROVE x = y
        <4>1. x[1] = y[1] /\ x[2] = y[2] /\ x[3] = y[3]
          BY <1>4, <3>1 DEF KeyIsBefore
        <4>2. QED BY <1>4, <4>1
      <3>2. QED BY <3>1
    <2>4. \A x, y, z \in S : KeyIsBefore(x, y) /\ KeyIsBefore(y, z) => KeyIsBefore(x, z)
      BY <1>4 DEF KeyIsBefore
    <2>5. \A x, y \in S : x \in below[y] <=> KeyIsBefore(x, y)
      OBVIOUS
    <2> HIDE DEF below
    <2>6. \A x, y \in S : x \in below[y] => below[x] \subseteq below[y]
      BY <2>1, <2>4, <2>5
    <2>7. QED BY <2>1, <2>2, <2>3, <2>5, <2>6 DEF IsOrder
  <1>6. \A x, y \in S : x \in below[y] <=> KeyIsBefore(x, y)
    OBVIOUS
  <1>7. PICK m, f, b : m = n /\ f = keys /\ b = below
    OBVIOUS
  <1>8. Sorts(f, S, b, m) /\ IsOrder(S, b)
    BY <1>3, <1>5, <1>7 DEF Sorts
  <1>9. /\ m \in Nat /\ f \in [1..m -> S] /\ \A x \in S : \E i \in 1..m : f[i] = x
        /\ \A i, j \in 1..m : i < j <=> f[i] \in b[f[j]]
    BY <1>8, Sorted
  <1> HIDE DEF below, n
  <1>10. InTheirOrder(f, m, S)
    BY <1>6, <1>7, <1>9 DEF InTheirOrder
  <1>11. QED BY <1>7, <1>10

LEMMA KeysAreOfUses ==
  ASSUME UsesAreLists, UsesStand, NEW key \in DOMAIN uses
  PROVE  \E u \in UsesIn(input) : key = <<u.start, u.end, u.name>>
PROOF
  <1>1. PICK own, read : Reads(own, read)
    BY DEF UsesStand
  <1>2. /\ own \in 0..Len(input.resolver) /\ \A b \in input.bodies : read[b] \in Nat /\ read[b] <= Len(b)
        /\ IsSeen(input, own, read, key)
    BY <1>1 DEF Reads, Counts, AnswersStand
  <1>3. IsInput(input)
    BY DEF UsesStand
  <1>4. IsList(input.resolver) /\ \A b \in input.bodies : IsList(b)
    BY <1>3 DEF UsesAreLists, ListsItsUses
  <1>5. CASE \E i \in 1..own : Uses!Key(input.resolver[i]) = key
    <2>1. PICK i \in 1..own : Uses!Key(input.resolver[i]) = key
      BY <1>5
    <2>2. i \in DOMAIN input.resolver
      BY <1>2, <1>4, ListFacts
    <2>3. input.resolver[i] \in UsesIn(input)
      BY <2>2 DEF UsesIn, ToSet
    <2>4. QED BY <2>1, <2>3 DEF Uses!Key
  <1>6. CASE \E b \in input.bodies : \E i \in 1..read[b] : Uses!Key(b[i]) = key
    <2>1. PICK b \in input.bodies : \E i \in 1..read[b] : Uses!Key(b[i]) = key
      BY <1>6
    <2>2. PICK i \in 1..read[b] : Uses!Key(b[i]) = key
      BY <2>1
    <2>3. i \in DOMAIN b
      BY <1>2, <1>4, ListFacts
    <2>4. b[i] \in UsesIn(input)
      BY <2>3 DEF UsesIn, ToSet
    <2>5. QED BY <2>2, <2>4 DEF Uses!Key
  <1>7. QED BY <1>2, <1>5, <1>6 DEF IsSeen

KeysAreApart(S) ==
  /\ AreKeys(S)
  /\ \A k, l \in S : (k[1] = l[1] /\ k[2] = l[2]) \/ k[2] < l[1] \/ l[2] < k[1]
  /\ \A k \in S : k[1] \in Boundaries(input.source) /\ k[2] \in Boundaries(input.source) /\ k[1] <= k[2]

LEMMA KeysAreWords ==
  ASSUME UsesAreLists, SourcesAreTexts, WordsAreUsed, UsesStand, NEW S, S = DOMAIN uses
  PROVE  KeysAreApart(S)
PROOF
  <1>1. IsInput(input)
    BY DEF UsesStand
  <1>2. UsesAreWords(input) /\ IsText(input.source)
    BY <1>1 DEF WordsAreUsed, SourcesAreTexts
  <1>3. \A u \in UsesIn(input) :
          /\ u.start \in Boundaries(input.source) /\ u.end \in Boundaries(input.source) /\ u.start <= u.end
          /\ u.name \in Nat /\ u.start \in Nat /\ u.end \in Nat
    BY <1>2, PlacesAreApart DEF UsesAreWords
  <1>4. \A u, v \in UsesIn(input) : (u.start = v.start /\ u.end = v.end) \/ u.end < v.start \/ v.end < u.start
    BY <1>2 DEF UsesAreWords
  <1>5. \A k \in S : \E u \in UsesIn(input) : k = <<u.start, u.end, u.name>>
    BY KeysAreOfUses
  <1>6. AreKeys(S)
    BY <1>3, <1>5 DEF AreKeys
  <1>7. ASSUME NEW k \in S
        PROVE  k[1] \in Boundaries(input.source) /\ k[2] \in Boundaries(input.source) /\ k[1] <= k[2]
    <2>1. PICK u \in UsesIn(input) : k = <<u.start, u.end, u.name>>
      BY <1>5
    <2>2. QED BY <1>3, <2>1
  <1>8. ASSUME NEW k \in S, NEW l \in S
        PROVE  (k[1] = l[1] /\ k[2] = l[2]) \/ k[2] < l[1] \/ l[2] < k[1]
    <2>1. PICK u \in UsesIn(input) : k = <<u.start, u.end, u.name>>
      BY <1>5
    <2>2. PICK v \in UsesIn(input) : l = <<v.start, v.end, v.name>>
      BY <1>5
    <2>3. QED BY <1>4, <2>1, <2>2
  <1>9. QED BY <1>6, <1>7, <1>8 DEF KeysAreApart
-----------------------------------------------------------------------------
(* The reports, as they were made of the uses.                                *)
ReferencesOfUses == [i \in DOMAIN Uses!InKeyOrder |-> Reference(Uses!InKeyOrder[i])]
Placed(all) == Rising({i \in DOMAIN all : all[i].node # None})
ResolutionsOf(all) ==
  [k \in DOMAIN Placed(all) |-> [node |-> all[Placed(all)[k]].node, symbol |-> all[Placed(all)[k]].symbol]]

ReportsStand ==
  /\ IsFiniteSet(DOMAIN uses)
  /\ stage \in {"types", "built"} => references = ReferencesOfUses /\ resolutions = ResolutionsOf(references)

LEMMA SameReferences ==
  ASSUME input' = input, UNCHANGED <<nodeIds, nodes, symbolIds, localIds, uses>>
  PROVE  ReferencesOfUses' = ReferencesOfUses
BY DEF ReferencesOfUses, Reference, Location, SymbolOf, Syntax!NodeOf, Syntax!ExactNode,
       Syntax!SmallestNode, Syntax!Size, Uses!InKeyOrder, Uses!InOrder, Uses!SpanOf

LEMMA ReportsStandAtFirst ==
  ASSUME Init
  PROVE  ReportsStand
PROOF
  <1>1. DOMAIN uses = {} /\ stage = "nodes"
    BY DEF Init, Uses!StartReading
  <1>2. QED BY <1>1, FS_EmptySet DEF ReportsStand

LEMMA ReportsKeepStanding ==
  ASSUME ReportsStand, [Next]_vars
  PROVE  ReportsStand'
PROOF
  <1>1. IsFiniteSet(DOMAIN uses')
    <2>1. CASE ReadUses
      <3>1. CASE Uses!ReadUse
        <4>1. \/ uses' = uses
              \/ DOMAIN uses' = DOMAIN uses \union {Uses!Key(Head(reading))}
          BY <3>1 DEF Uses!ReadUse
        <4>2. QED BY <4>1, FS_AddElement DEF ReportsStand
      <3>2. CASE Uses!OpenBody
        BY <3>2 DEF Uses!OpenBody, ReportsStand
      <3>3. QED BY <2>1, <3>1, <3>2 DEF ReadUses, Uses!Read
    <2>2. CASE \/ CollectNode \/ CollectSymbols \/ CollectLambdas \/ CollectGraphs
               \/ ReportUses \/ ConvertTypes \/ Finish \/ UNCHANGED vars
      <3>1. uses' = uses
        BY <2>2 DEF CollectNode, CollectSymbols, CollectLambdas, CollectGraphs, ReportUses, ConvertTypes,
                    Finish, vars, merging
      <3>2. QED BY <3>1 DEF ReportsStand
    <2>3. QED BY <2>1, <2>2 DEF Next
  <1>2. CASE ReportUses
    <2>1. input' = input /\ UNCHANGED <<nodeIds, nodes, symbolIds, localIds, uses>>
      BY <1>2 DEF ReportUses, walk, naming, merging
    <2>2. ReferencesOfUses' = ReferencesOfUses
      BY <2>1, SameReferences
    <2>3. references' = ReferencesOfUses
      BY <1>2 DEF ReportUses, ReferencesOfUses
    <2>4. resolutions' = ResolutionsOf(references')
      BY <1>2 DEF ReportUses, ResolutionsOf, Placed
    <2>5. QED BY <1>1, <2>2, <2>3, <2>4 DEF ReportsStand
  <1>3. CASE ConvertTypes \/ Finish \/ UNCHANGED vars
    <2>1. /\ input' = input /\ UNCHANGED <<nodeIds, nodes, symbolIds, localIds, uses>>
          /\ references' = references /\ resolutions' = resolutions
          /\ stage' \in {"types", "built"} => stage \in {"types", "built"}
      BY <1>3 DEF ConvertTypes, Finish, vars, walk, naming, merging, reported
    <2>2. ReferencesOfUses' = ReferencesOfUses
      BY <2>1, SameReferences
    <2>3. QED BY <1>1, <2>1, <2>2 DEF ReportsStand
  <1>4. CASE CollectNode \/ CollectSymbols \/ CollectLambdas \/ CollectGraphs \/ ReadUses
    <2>1. stage' \notin {"types", "built"}
      BY <1>4 DEF CollectNode, CollectSymbols, CollectLambdas, CollectGraphs, ReadUses
    <2>2. QED BY <1>1, <2>1 DEF ReportsStand
  <1>5. QED BY <1>2, <1>3, <1>4 DEF Next
-----------------------------------------------------------------------------
(* The references, of the keys in their order.                                *)
IsReportOf(keys, n, refs) ==
  /\ InTheirOrder(keys, n, DOMAIN uses) /\ DOMAIN refs = 1..n
  /\ \A i \in 1..n : refs[i] = Reference(keys[i])

LEMMA ReportFacts ==
  ASSUME IsFiniteSet(DOMAIN uses), AreKeys(DOMAIN uses), NEW refs, refs = ReferencesOfUses
  PROVE  \E keys, n : IsReportOf(keys, n, refs)
PROOF
  <1>1. PICK keys, S : keys = Uses!InKeyOrder /\ S = DOMAIN uses
    OBVIOUS
  <1>2. PICK n : InTheirOrder(keys, n, S)
    BY <1>1, KeysAreInOrder
  <1>3. DOMAIN keys = 1..n
    BY <1>2 DEF InTheirOrder
  <1>4. refs = [i \in 1..n |-> Reference(keys[i])]
    BY <1>1, <1>3 DEF ReferencesOfUses
  <1>5. IsReportOf(keys, n, refs)
    BY <1>1, <1>2, <1>4 DEF IsReportOf
  <1>6. QED BY <1>5

Spot(key) == <<key[1], key[2]>>

LEMMA ReferenceFacts ==
  ASSUME NEW key, NEW r, r = Reference(key)
  PROVE  /\ r.location = Location(Spot(key)) /\ r.location.span = Spot(key)
         /\ r.location.start = Position(input.source, key[1]) /\ r.location.end = Position(input.source, key[2])
         /\ r.symbol = SymbolOf(uses[key]) /\ r.node = Syntax!NodeOf(Spot(key))
PROOF
  <1>1. Uses!SpanOf(key) = Spot(key)
    BY DEF Uses!SpanOf, Spot
  <1>2. r.location = Location(Spot(key)) /\ r.symbol = SymbolOf(uses[key]) /\ r.node = Syntax!NodeOf(Spot(key))
    BY <1>1 DEF Reference
  <1>3. Spot(key)[1] = key[1] /\ Spot(key)[2] = key[2]
    BY DEF Spot
  <1>4. QED BY <1>2, <1>3 DEF Location

(* Of the keys with one span the last is the one that counts.                 *)
IsLastThere(keys, n, i) == \A j \in 1..n : j > i => Spot(keys[j]) # Spot(keys[i])

LEMMA LastKeyCounts ==
  ASSUME NEW keys, NEW n, InTheirOrder(keys, n, DOMAIN uses), NEW i \in 1..n, IsLastThere(keys, n, i),
         NEW span, span = Spot(keys[i])
  PROVE  Uses!ResolvedBySpan(span) = uses[keys[i]]
PROOF
  <1> DEFINE there == {k \in DOMAIN uses : Spot(k) = span}
             counts(k) == k \in there /\ \A l \in there \ {k} : KeyIsBefore(l, k)
  <1>0. /\ n \in Nat /\ keys[i] \in DOMAIN uses
        /\ \A k \in DOMAIN uses : \E j \in 1..n : keys[j] = k
        /\ \A j, k \in 1..n : j < k <=> KeyIsBefore(keys[j], keys[k])
    BY DEF InTheirOrder
  <1>1. Uses!ResolvedBySpan(span) =
          IF there = {} THEN Unresolved ELSE uses[CHOOSE k \in there : \A l \in there \ {k} : KeyIsBefore(l, k)]
    BY DEF Uses!ResolvedBySpan, Uses!SpanOf, Uses!KeyBefore, KeyIsBefore, Spot
  <1>2. keys[i] \in there
    BY <1>0
  <1>3. counts(keys[i])
    <2>1. ASSUME NEW l \in there \ {keys[i]} PROVE KeyIsBefore(l, keys[i])
      <3>1. PICK j \in 1..n : keys[j] = l
        BY <1>0
      <3>2. j # i /\ ~ (j > i)
        BY <2>1, <3>1 DEF IsLastThere
      <3>3. j < i
        BY <1>0, <3>2
      <3>4. QED BY <1>0, <3>1, <3>3
    <2>2. QED BY <1>2, <2>1
  <1>4. ASSUME NEW k, counts(k) PROVE k = keys[i]
    <2> SUFFICES ASSUME k # keys[i] PROVE FALSE
      OBVIOUS
    <2>1. KeyIsBefore(keys[i], k) /\ k \in there
      BY <1>2, <1>4
    <2>2. PICK j \in 1..n : keys[j] = k
      BY <1>0, <2>1
    <2>3. i < j
      BY <1>0, <2>1, <2>2
    <2>4. QED BY <1>0, <2>1, <2>2, <2>3 DEF IsLastThere
  <1>5. (CHOOSE k \in there : \A l \in there \ {k} : KeyIsBefore(l, k)) = keys[i]
    <2>1. PICK c : c = CHOOSE k \in there : \A l \in there \ {k} : KeyIsBefore(l, k)
      OBVIOUS
    <2>2. counts(c)
      BY <1>3, <2>1
    <2>3. QED BY <1>4, <2>1, <2>2
  <1>6. QED BY <1>1, <1>2, <1>5

(* Where a use is the last of its node, asking by node gives its symbol.      *)
LEMMA LastOfNodeCounts ==
  ASSUME NEW refs, NEW n \in Nat, DOMAIN refs = 1..n, NEW i \in 1..n, refs[i].node # None,
         \A j \in 1..n : j > i => refs[j].node # refs[i].node,
         resolutions = ResolutionsOf(refs)
  PROVE  Resolve(refs[i].node) = refs[i].symbol
PROOF
  <1> DEFINE P == {j \in 1..n : refs[j].node # None}
  <1>1. IsFiniteSet(P) /\ P \in SUBSET Nat
    BY FS_Interval, FS_Subset
  <1>2. PICK f, m, Q : f = Rising(Q) /\ m = Cardinality(Q) /\ Q = P
    OBVIOUS
  <1>3. /\ m \in Nat /\ f \in [1..m -> Q] /\ \A x \in Q : \E k \in 1..m : f[k] = x
        /\ \A k, l \in 1..m : k < l <=> f[k] < f[l]
    <2>1. IsFiniteSet(Q) /\ Q \in SUBSET Nat
      BY <1>1, <1>2
    <2>2. f = Rising(Q) /\ m = Cardinality(Q)
      BY <1>2
    <2>3. QED BY <2>1, <2>2, RisingFacts
  <1>4. resolutions = [k \in 1..m |-> [node |-> refs[f[k]].node, symbol |-> refs[f[k]].symbol]]
    <2>1. Placed(refs) = f
      BY <1>2 DEF Placed
    <2>2. QED BY <1>3, <2>1 DEF ResolutionsOf
  <1>5. \A k \in 1..m : resolutions[k].node = refs[f[k]].node /\ resolutions[k].symbol = refs[f[k]].symbol
    BY <1>4
  <1>6. DOMAIN resolutions = 1..m
    BY <1>4
  <1>7. PICK there : there = {k \in DOMAIN resolutions : resolutions[k].node = refs[i].node}
    OBVIOUS
  <1>8. PICK p \in 1..m : f[p] = i
    BY <1>2, <1>3
  <1>9. p \in there
    BY <1>5, <1>6, <1>7, <1>8
  <1>10. ASSUME NEW k \in there PROVE k <= p
    <2>1. k \in 1..m /\ refs[f[k]].node = refs[i].node /\ f[k] \in 1..n
      BY <1>2, <1>3, <1>5, <1>6, <1>7
    <2>2. ~ (f[k] > i)
      BY <2>1
    <2>3. ~ (p < k)
      BY <1>3, <1>8, <2>1, <2>2
    <2>4. QED BY <2>1, <2>3
  <1>11. Max(there) \in there /\ \A k \in there : k <= Max(there)
    <2>1. there \in SUBSET (0..m) /\ there # {}
      BY <1>3, <1>6, <1>7, <1>9
    <2>2. QED BY <1>3, <2>1, MaxFacts
  <1>12. Max(there) = p
    <2>1. there \subseteq Nat
      BY <1>3, <1>6, <1>7
    <2>2. Max(there) <= p /\ p <= Max(there) /\ Max(there) \in Nat /\ p \in Nat
      BY <1>9, <1>10, <1>11, <2>1
    <2>3. QED BY <2>2
  <1>13. Resolve(refs[i].node) = resolutions[p].symbol
    BY <1>7, <1>9, <1>12 DEF Resolve
  <1>14. QED BY <1>5, <1>8, <1>13

(* At both ends of a name, only what has its span is found.                   *)
LEMMA OnlyThatIsCovered ==
  ASSUME IsText(input.source), NEW S, KeysAreApart(S), NEW k \in S, NEW l \in S,
         NEW p, p \in {k[1], k[2]}, NEW location, location = Location(Spot(l))
  PROVE  Covers(location, Position(input.source, p)) <=> Spot(l) = Spot(k)
PROOF
  <1>1. /\ k[1] \in Boundaries(input.source) /\ k[2] \in Boundaries(input.source) /\ k[1] <= k[2]
        /\ l[1] \in Boundaries(input.source) /\ l[2] \in Boundaries(input.source) /\ l[1] <= l[2]
        /\ (k[1] = l[1] /\ k[2] = l[2]) \/ k[2] < l[1] \/ l[2] < k[1]
    BY DEF KeysAreApart
  <1>2. k[1] \in Nat /\ k[2] \in Nat /\ l[1] \in Nat /\ l[2] \in Nat
    BY <1>1, PlacesAreApart
  <1>3. location.start = Position(input.source, l[1]) /\ location.end = Position(input.source, l[2])
    BY DEF Location, Spot
  <1>4. /\ NotAfter(Position(input.source, l[1]), Position(input.source, p)) <=> l[1] <= p
        /\ NotAfter(Position(input.source, p), Position(input.source, l[2])) <=> p <= l[2]
    BY <1>1, PlacesAreApart
  <1>5. Covers(location, Position(input.source, p)) <=> l[1] <= p /\ p <= l[2]
    BY <1>3, <1>4 DEF Covers, ContainsPosition
  <1>6. Spot(l) = Spot(k) <=> l[1] = k[1] /\ l[2] = k[2]
    BY DEF Spot
  <1>7. QED BY <1>1, <1>2, <1>5, <1>6

LEMMA QueriesOfReportAgree ==
  ASSUME IsText(input.source), KeysAreApart(DOMAIN uses),
         NEW keys, NEW n, IsReportOf(keys, n, references), resolutions = ResolutionsOf(references),
         NEW i \in 1..n, NEW use, use = references[i],
         NEW asked, asked = SymbolOf(Uses!ResolvedBySpan(use.location.span)),
         NEW others, others = (1..n) \ {i}
  PROVE  /\ (use.node # None /\ \A j \in others : j > i => references[j].node # use.node) =>
              Resolve(use.node) = asked
         /\ (\A j \in others : references[j].location # use.location) => use.symbol = asked
         /\ ((\A j \in others : references[j].location # use.location) /\ use.symbol # None) =>
              \A position \in {use.location.start, use.location.end} : SymbolAt(position) = use.symbol
         /\ \A s : use \in ReferencesOf(s) <=> s = use.symbol
PROOF
  <1>0. /\ InTheirOrder(keys, n, DOMAIN uses) /\ n \in Nat /\ DOMAIN references = 1..n
        /\ \A j \in 1..n : keys[j] \in DOMAIN uses
    BY DEF IsReportOf, InTheirOrder
  <1>1. ASSUME NEW j \in 1..n
        PROVE  /\ references[j].location = Location(Spot(keys[j]))
               /\ references[j].location.span = Spot(keys[j])
               /\ references[j].location.start = Position(input.source, keys[j][1])
               /\ references[j].location.end = Position(input.source, keys[j][2])
               /\ references[j].symbol = SymbolOf(uses[keys[j]])
               /\ references[j].node = Syntax!NodeOf(Spot(keys[j]))
    <2>1. references[j] = Reference(keys[j])
      BY DEF IsReportOf
    <2>2. QED BY <2>1, ReferenceFacts
  <1>2. ASSUME IsLastThere(keys, n, i) PROVE asked = use.symbol
    <2>1. PICK span : span = Spot(keys[i])
      OBVIOUS
    <2>2. Uses!ResolvedBySpan(span) = uses[keys[i]]
      BY <1>0, <1>2, <2>1, LastKeyCounts
    <2>3. QED BY <1>1, <2>1, <2>2
  <1>3. ASSUME use.node # None, \A j \in others : j > i => references[j].node # use.node
        PROVE  Resolve(use.node) = asked
    <2>1. \A j \in 1..n : j > i => references[j].node # references[i].node
      BY <1>0, <1>3
    <2>2. IsLastThere(keys, n, i)
      <3>1. ASSUME NEW j \in 1..n, j > i, Spot(keys[j]) = Spot(keys[i]) PROVE FALSE
        BY <1>1, <2>1, <3>1
      <3>2. QED BY <3>1 DEF IsLastThere
    <2>3. PICK refs : refs = references
      OBVIOUS
    <2>4. Resolve(refs[i].node) = refs[i].symbol
      BY <1>0, <1>3, <2>1, <2>3, LastOfNodeCounts
    <2>5. QED BY <1>2, <2>2, <2>3, <2>4
  <1>4. ASSUME \A j \in others : references[j].location # use.location
        PROVE  \A j \in others : Spot(keys[j]) # Spot(keys[i])
    BY <1>1, <1>4
  <1>5. ASSUME \A j \in others : references[j].location # use.location
        PROVE  use.symbol = asked
    <2>1. IsLastThere(keys, n, i)
      BY <1>0, <1>4, <1>5 DEF IsLastThere
    <2>2. QED BY <1>2, <2>1
  <1>6. ASSUME \A j \in others : references[j].location # use.location, use.symbol # None,
               NEW position \in {use.location.start, use.location.end}
        PROVE  SymbolAt(position) = use.symbol
    <2>1. PICK p \in {keys[i][1], keys[i][2]} : position = Position(input.source, p)
      BY <1>1, <1>6
    <2>2. PICK used : used = {j \in DOMAIN references : Covers(references[j].location, position)}
      OBVIOUS
    <2>3. ASSUME NEW j \in 1..n PROVE j \in used <=> j = i
      <3>1. PICK S, k, l, location : /\ S = DOMAIN uses /\ k = keys[i] /\ l = keys[j]
                                     /\ location = references[j].location
        OBVIOUS
      <3>2. k \in S /\ l \in S /\ p \in {k[1], k[2]} /\ location = Location(Spot(l))
        BY <1>0, <1>1, <3>1
      <3>3. Covers(location, Position(input.source, p)) <=> Spot(l) = Spot(k)
        BY <3>1, <3>2, OnlyThatIsCovered
      <3>4. Spot(l) = Spot(k) <=> j = i
        BY <1>4, <1>6, <3>1
      <3>5. QED BY <1>0, <2>1, <2>2, <3>1, <3>3, <3>4
    <2>4. used = {i}
      BY <1>0, <2>2, <2>3
    <2>5. Min(used) = i
      BY <1>0, <2>4 DEF Min
    <2>6. QED BY <1>6, <2>2, <2>4, <2>5 DEF SymbolAt
  <1>7. \A s : use \in ReferencesOf(s) <=> s = use.symbol
    BY <1>0 DEF ReferencesOf, ToSet
  <1>8. QED BY <1>3, <1>5, <1>6, <1>7

LEMMA StandingQueriesAgree ==
  ASSUME SourcesAreTexts, WordsAreUsed, UsesAreLists, UsesStand, ReportsStand
  PROVE  QueriesAgree
PROOF
  <1> SUFFICES ASSUME stage = "built" PROVE QueriesAgree
    BY DEF QueriesAgree, Built
  <1>1. references = ReferencesOfUses /\ resolutions = ResolutionsOf(references) /\ IsFiniteSet(DOMAIN uses)
    BY DEF ReportsStand
  <1>2. KeysAreApart(DOMAIN uses)
    <2>1. PICK S : S = DOMAIN uses
      OBVIOUS
    <2>2. QED BY <2>1, KeysAreWords
  <1>3. IsText(input.source)
    BY DEF UsesStand, SourcesAreTexts
  <1>4. PICK keys, n : IsReportOf(keys, n, references)
    <2>1. PICK refs : refs = references
      OBVIOUS
    <2>2. \E keys, n : IsReportOf(keys, n, refs)
      BY <1>1, <1>2, <2>1, ReportFacts DEF KeysAreApart
    <2>3. QED BY <2>1, <2>2
  <1>5. DOMAIN references = 1..n
    BY <1>4 DEF IsReportOf
  <1> SUFFICES ASSUME NEW i \in DOMAIN references
      PROVE  LET use == references[i]
                 asked == SymbolOf(Uses!ResolvedBySpan(use.location.span))
                 others == DOMAIN references \ {i}
                 alone == \A j \in others : references[j].location # use.location
             IN  /\ (use.node # None /\ \A j \in others : j > i => references[j].node # use.node) =>
                      Resolve(use.node) = asked
                 /\ alone => use.symbol = asked
                 /\ (alone /\ use.symbol # None) =>
                      \A position \in {use.location.start, use.location.end} : SymbolAt(position) = use.symbol
                 /\ \A s \in symbolIds \union localIds : use \in ReferencesOf(s) <=> s = use.symbol
    BY DEF QueriesAgree
  <1>6. PICK use, asked, others : /\ use = references[i]
                                  /\ asked = SymbolOf(Uses!ResolvedBySpan(use.location.span))
                                  /\ others = (1..n) \ {i}
    OBVIOUS
  <1>7. /\ (use.node # None /\ \A j \in others : j > i => references[j].node # use.node) =>
             Resolve(use.node) = asked
        /\ (\A j \in others : references[j].location # use.location) => use.symbol = asked
        /\ ((\A j \in others : references[j].location # use.location) /\ use.symbol # None) =>
             \A position \in {use.location.start, use.location.end} : SymbolAt(position) = use.symbol
        /\ \A s : use \in ReferencesOf(s) <=> s = use.symbol
    BY <1>1, <1>2, <1>3, <1>4, <1>5, <1>6, QueriesOfReportAgree
  <1>8. QED BY <1>5, <1>6, <1>7

(* The ways to ask for a name agree, whatever the uses are: by node, by       *)
(* position and by symbol (resolve, symbolAt, references of the facade, over  *)
(* what collect_references_and_calls reports).                                *)
THEOREM QueriesAlwaysAgree ==
  ASSUME SourcesAreTexts, WordsAreUsed, UsesAreLists
  PROVE  Spec => []QueriesAgree
PROOF
  <1>1. Init => UsesStand /\ ReportsStand
    BY UsesStandAtFirst, ReportsStandAtFirst
  <1>2. UsesStand /\ ReportsStand /\ [Next]_vars => (UsesStand /\ ReportsStand)'
    BY UsesAlwaysKeepStanding, ReportsKeepStanding
  <1>3. UsesStand /\ ReportsStand => QueriesAgree
    BY StandingQueriesAgree
  <1>4. QED BY <1>1, <1>2, <1>3, PTL DEF Spec
=============================================================================
