---------------------------- MODULE ProjectProofs ----------------------------
(* What holds of a project for every input and every snapshot: the analyzer   *)
(* and the facade read a path in one way, so that every file of the project   *)
(* is found under the spelling it was given under; and the walks of the       *)
(* facade over a tree of any size.                                            *)
EXTENDS Project, Naturals, Sequences, FiniteSetTheorems, SequenceTheorems,
        WellFoundedInduction, TLAPS

(* There is a least natural number in a set that has any.                     *)
LEMMA LeastNatural ==
  ASSUME NEW T \in SUBSET Nat, T # {}
  PROVE  \E n \in T : \A m \in T : n <= m
PROOF
  <1>1. PICK n \in T : \A m \in T : ~ (<<m, n>> \in OpToRel(<, Nat))
    BY WFMin, NatLessThanWellFounded
  <1>2. \A m \in T : ~ (m < n)
    BY <1>1 DEF OpToRel
  <1>3. QED BY <1>2

(* A value that is computed step by step, from base on.                       *)
Iterates(g, V, base, N, move) ==
  /\ g \in [0..N -> V] /\ g[0] = base
  /\ \A n \in 1..N : g[n] = move[n][g[n - 1]]

LEMMA IterationExists ==
  ASSUME NEW V, NEW base \in V, NEW N \in Nat, NEW move \in [1..N -> [V -> V]]
  PROVE  \E g : Iterates(g, V, base, N, move)
PROOF
  <1> DEFINE Computes(g, m) ==
               g \in [0..m -> V] /\ g[0] = base /\ \A n \in 1..m : g[n] = move[n][g[n - 1]]
             Bad == {m \in 0..N : ~ \E g : Computes(g, m)}
  <1>1. 0 \notin Bad
    <2>1. Computes([n \in 0..0 |-> base], 0)
      OBVIOUS
    <2>2. QED BY <2>1
  <1>2. ASSUME NEW m \in 0..N, m # N, m \notin Bad PROVE m + 1 \notin Bad
    <2>1. PICK h : Computes(h, m)
      BY <1>2
    <2> DEFINE g == [n \in 0..(m + 1) |-> IF n <= m THEN h[n] ELSE move[m + 1][h[m]]]
    <2>2. m + 1 \in 1..N /\ h[m] \in V
      BY <1>2, <2>1
    <2>3. move[m + 1][h[m]] \in V
      BY <2>2
    <2>4. g \in [0..(m + 1) -> V] /\ g[0] = base
      BY <1>2, <2>1, <2>3
    <2>5. ASSUME NEW n \in 1..(m + 1) PROVE g[n] = move[n][g[n - 1]]
      <3>1. CASE n <= m
        BY <2>1, <3>1
      <3>2. CASE n = m + 1
        <4>1. g[n] = move[m + 1][h[m]] /\ g[n - 1] = h[m]
          BY <1>2, <3>2
        <4>2. QED BY <3>2, <4>1
      <3>3. QED BY <1>2, <3>1, <3>2
    <2>6. Computes(g, m + 1)
      BY <2>4, <2>5
    <2>7. QED BY <2>6
  <1>3. Bad = {}
    <2>1. ASSUME Bad # {} PROVE FALSE
      <3>1. PICK m \in Bad : \A k \in Bad : m <= k
        <4>1. Bad \in SUBSET Nat
          OBVIOUS
        <4> HIDE DEF Bad
        <4>2. QED BY <2>1, <4>1, LeastNatural
      <3>2. m \in 0..N
        OBVIOUS
      <3> HIDE DEF Bad
      <3>3. m # 0
        BY <1>1
      <3>4. m - 1 \in 0..N /\ m - 1 # N /\ (m - 1) + 1 = m /\ ~ (m <= m - 1)
        BY <3>2, <3>3
      <3>5. m - 1 \notin Bad
        BY <3>1, <3>4
      <3>6. QED BY <1>2, <3>1, <3>4, <3>5
    <2>2. QED BY <2>1
  <1>4. \E g : Computes(g, N)
    <2>1. N \in 0..N
      OBVIOUS
    <2>2. N \notin Bad
      <3> HIDE DEF Bad
      <3>1. QED BY <1>3
    <2>3. QED BY <2>1, <2>2
  <1>5. QED BY <1>4 DEF Iterates

(* Whatever satisfies the equations of such a computation has their values.   *)
LEMMA IterationTyped ==
  ASSUME NEW V, NEW base \in V, NEW N \in Nat, NEW h, h[0] = base,
         NEW move \in [1..N -> [V -> V]],
         \A n \in 1..N : h[n - 1] \in V => h[n] = move[n][h[n - 1]]
  PROVE  \A n \in 0..N : h[n] \in V
PROOF
  <1> DEFINE Bad == {n \in 0..N : h[n] \notin V}
  <1>1. ASSUME Bad # {} PROVE FALSE
    <2>1. PICK n \in Bad : \A m \in Bad : n <= m
      <3>1. Bad \in SUBSET Nat
        OBVIOUS
      <3> HIDE DEF Bad
      <3>2. QED BY <1>1, <3>1, LeastNatural
    <2>2. n \in 1..N /\ n - 1 \in 0..N /\ ~ (n <= n - 1)
      OBVIOUS
    <2>3. h[n - 1] \in V
      BY <2>1, <2>2
    <2>4. h[n] = move[n][h[n - 1]]
      BY <2>2, <2>3
    <2>5. QED BY <2>1, <2>2, <2>3, <2>4
  <1>2. QED BY <1>1

(* How many of the numbers up to n are in a set.                              *)
Count(S, n) == Cardinality({i \in 1..n : i \in S})

LEMMA CountFacts ==
  ASSUME NEW S, NEW n \in Nat
  PROVE  /\ Count(S, n) \in Nat
         /\ Count(S, 0) = 0
         /\ n # 0 => Count(S, n) = Count(S, n - 1) + (IF n \in S THEN 1 ELSE 0)
PROOF
  <1>1. \A m \in Nat : IsFiniteSet({i \in 1..m : i \in S})
    <2>1. ASSUME NEW m \in Nat PROVE IsFiniteSet({i \in 1..m : i \in S})
      <3>1. IsFiniteSet(1..m)
        BY FS_Interval
      <3>2. {i \in 1..m : i \in S} \in SUBSET (1..m)
        OBVIOUS
      <3>3. QED BY <3>1, <3>2, FS_Subset
    <2>2. QED BY <2>1
  <1>2. Count(S, n) \in Nat
    BY <1>1, FS_CardinalityType DEF Count
  <1>3. Count(S, 0) = 0
    <2>1. {i \in 1..0 : i \in S} = {}
      OBVIOUS
    <2>2. QED BY <2>1, FS_EmptySet DEF Count
  <1>4. ASSUME n # 0 PROVE Count(S, n) = Count(S, n - 1) + (IF n \in S THEN 1 ELSE 0)
    <2> DEFINE before == {i \in 1..(n - 1) : i \in S}
    <2>1. IsFiniteSet(before) /\ Cardinality(before) \in Nat
      <3>1. n - 1 \in Nat
        BY <1>4
      <3>2. QED BY <1>1, <3>1, FS_CardinalityType
    <2>2. CASE n \in S
      <3>1. {i \in 1..n : i \in S} = before \union {n} /\ n \notin before
        BY <1>4, <2>2
      <3>2. Cardinality(before \union {n}) = Cardinality(before) + 1
        <4> HIDE DEF before
        <4>1. QED BY <2>1, <3>1, FS_AddElement
      <3>3. Count(S, n - 1) = Cardinality(before) /\ Count(S, n) = Cardinality(before \union {n})
        BY <3>1 DEF Count
      <3> HIDE DEF before
      <3>4. QED BY <2>2, <3>2, <3>3
    <2>3. CASE n \notin S
      <3>1. {i \in 1..n : i \in S} = before
        BY <1>4, <2>3
      <3>2. Count(S, n - 1) = Cardinality(before) /\ Count(S, n) = Cardinality(before)
        BY <3>1 DEF Count
      <3> HIDE DEF before
      <3>3. QED BY <2>1, <2>3, <3>2
    <2>4. QED BY <2>2, <2>3
  <1>5. QED BY <1>2, <1>3, <1>4
-----------------------------------------------------------------------------
(* Logical paths. One component after the other, as the two functions take    *)
(* them.                                                                      *)
AnalyzerStep(path, part) ==
  IF path = Refused THEN Refused
  ELSE CASE part = Here -> path
         [] part = Up -> IF path = <<>> THEN Refused ELSE SubSeq(path, 1, Len(path) - 1)
         [] OTHER -> Append(path, part)

FacadeStep(path, part) ==
  CASE part = Here -> path
    [] part = Up -> IF path = <<>> THEN <<>> ELSE SubSeq(path, 1, Len(path) - 1)
    [] OTHER -> Append(path, part)

LEMMA StepsTyped ==
  ASSUME NEW P, NEW part \in P
  PROVE  /\ \A path \in Seq(P) \union {Refused} : AnalyzerStep(path, part) \in Seq(P) \union {Refused}
         /\ \A path \in Seq(P) : FacadeStep(path, part) \in Seq(P)
PROOF
  <1>1. ASSUME NEW path \in Seq(P), path # <<>> PROVE SubSeq(path, 1, Len(path) - 1) \in Seq(P)
    <2>1. Len(path) \in Nat /\ Len(path) # 0
      BY <1>1, EmptySeq
    <2>2. \A i \in 1..(Len(path) - 1) : path[i] \in P
      BY <2>1, ElementOfSeq
    <2>3. 1 \in Int /\ Len(path) - 1 \in Int
      BY <2>1
    <2>4. QED BY <2>2, <2>3, SubSeqProperties
  <1>2. \A path \in Seq(P) : Append(path, part) \in Seq(P)
    OBVIOUS
  <1>3. <<>> \in Seq(P)
    OBVIOUS
  <1>4. ASSUME NEW path \in Seq(P) PROVE FacadeStep(path, part) \in Seq(P)
    <2>1. CASE part = Here
      BY <2>1 DEF FacadeStep
    <2>2. CASE part # Here /\ part = Up
      BY <2>2, <1>1, <1>3 DEF FacadeStep
    <2>3. CASE part # Here /\ part # Up
      BY <2>3, <1>2 DEF FacadeStep
    <2>4. QED BY <2>1, <2>2, <2>3
  <1>5. ASSUME NEW path \in Seq(P) \union {Refused}
        PROVE  AnalyzerStep(path, part) \in Seq(P) \union {Refused}
    <2>1. CASE path = Refused
      BY <2>1 DEF AnalyzerStep
    <2>2. CASE path # Refused /\ part = Here
      BY <2>2 DEF AnalyzerStep
    <2>3. CASE path # Refused /\ part # Here /\ part = Up
      BY <2>3, <1>1 DEF AnalyzerStep
    <2>4. CASE path # Refused /\ part # Here /\ part # Up
      BY <2>4, <1>2 DEF AnalyzerStep
    <2>5. QED BY <2>1, <2>2, <2>3, <2>4
  <1>6. QED BY <1>4, <1>5

(* The paths that normalize_path has after each component.                    *)
AnalyzerPaths(P, parts, f) ==
  /\ f[0] = <<>> /\ Validation!Normalize(parts) = f[Len(parts)]
  /\ \A n \in 0..Len(parts) : f[n] \in Seq(P) \union {Refused}
  /\ \A n \in 1..Len(parts) : f[n] = AnalyzerStep(f[n - 1], parts[n])

LEMMA AnalyzerHasPaths ==
  ASSUME NEW P, NEW parts \in Seq(P)
  PROVE  \E f : AnalyzerPaths(P, parts, f)
PROOF
  <1> DEFINE V == Seq(P) \union {Refused}
             N == Len(parts)
             move == [n \in 1..N |-> [path \in V |-> AnalyzerStep(path, parts[n])]]
             iter == CHOOSE path : path = [n \in 0..N |->
               IF n = 0 THEN <<>>
               ELSE IF path[n - 1] = Refused THEN Refused
               ELSE CASE parts[n] = Here -> path[n - 1]
                      [] parts[n] = Up -> IF path[n - 1] = <<>> THEN Refused
                                          ELSE SubSeq(path[n - 1], 1, Len(path[n - 1]) - 1)
                      [] OTHER -> Append(path[n - 1], parts[n])]
  <1>1. N \in Nat /\ \A n \in 1..N : parts[n] \in P
    OBVIOUS
  <1>2. <<>> \in V
    OBVIOUS
  <1>3. move \in [1..N -> [V -> V]]
    <2>1. \A n \in 1..N : \A path \in V : AnalyzerStep(path, parts[n]) \in V
      BY <1>1, StepsTyped
    <2> HIDE DEF V, N
    <2>2. QED BY <2>1
  <1>4. PICK g : Iterates(g, V, <<>>, N, move)
    <2> HIDE DEF V, N, move
    <2>1. QED BY <1>1, <1>2, <1>3, IterationExists
  <1>5. \A n \in 1..N : g[n] = AnalyzerStep(g[n - 1], parts[n])
    <2> HIDE DEF V
    <2>1. \A n \in 1..N : n - 1 \in 0..N
      BY <1>1
    <2>2. QED BY <1>4, <2>1 DEF Iterates
  <1>6. g = [n \in 0..N |->
               IF n = 0 THEN <<>>
               ELSE IF g[n - 1] = Refused THEN Refused
               ELSE CASE parts[n] = Here -> g[n - 1]
                      [] parts[n] = Up -> IF g[n - 1] = <<>> THEN Refused
                                          ELSE SubSeq(g[n - 1], 1, Len(g[n - 1]) - 1)
                      [] OTHER -> Append(g[n - 1], parts[n])]
    <2> HIDE DEF V, move
    <2>1. \A n \in 0..N : n = 0 \/ n \in 1..N
      BY <1>1
    <2> HIDE DEF N
    <2>2. QED BY <1>4, <1>5, <2>1 DEF AnalyzerStep, Iterates
  <1>7. iter = [n \in 0..N |->
               IF n = 0 THEN <<>>
               ELSE IF iter[n - 1] = Refused THEN Refused
               ELSE CASE parts[n] = Here -> iter[n - 1]
                      [] parts[n] = Up -> IF iter[n - 1] = <<>> THEN Refused
                                          ELSE SubSeq(iter[n - 1], 1, Len(iter[n - 1]) - 1)
                      [] OTHER -> Append(iter[n - 1], parts[n])]
    <2> HIDE DEF V, N, move
    <2>1. QED BY <1>6
  <1>8. Validation!Normalize(parts) = iter[N]
    BY DEF Validation!Normalize, Validation!FileSystemRoot, Validation!Front
  <1> HIDE DEF iter
  <1>9. iter[0] = <<>> /\ \A n \in 1..N : iter[n] = AnalyzerStep(iter[n - 1], parts[n])
    <2>1. 0 \in 0..N /\ \A n \in 1..N : n \in 0..N /\ n # 0
      BY <1>1
    <2> HIDE DEF N
    <2>2. QED BY <1>7, <2>1 DEF AnalyzerStep
  <1>10. \A n \in 0..N : iter[n] \in V
    <2>1. \A n \in 1..N : iter[n - 1] \in V => iter[n] = move[n][iter[n - 1]]
      <3> HIDE DEF V
      <3>1. QED BY <1>9
    <2> HIDE DEF V, N, move
    <2>2. QED BY <1>1, <1>2, <1>3, <1>9, <2>1, IterationTyped
  <1>11. QED BY <1>8, <1>9, <1>10 DEF AnalyzerPaths

(* The paths that normalizePath has after each component.                     *)
FacadePaths(P, parts, path, f) ==
  /\ f[0] = <<>> /\ path = f[Len(parts)]
  /\ \A n \in 0..Len(parts) : f[n] \in Seq(P)
  /\ \A n \in 1..Len(parts) : f[n] = FacadeStep(f[n - 1], parts[n])

LEMMA FacadeHasPaths ==
  ASSUME NEW P, NEW top, NEW spelling, Validation!Components(top, spelling) \in Seq(P)
  PROVE  \E f : FacadePaths(P, Validation!Components(top, spelling),
                            Validation!LookupPath(top, spelling), f)
PROOF
  <1> DEFINE parts == Validation!Components(top, spelling)
             V == Seq(P)
             N == Len(parts)
             move == [n \in 1..N |-> [path \in V |-> FacadeStep(path, parts[n])]]
             iter == CHOOSE path : path = [n \in 0..N |->
               IF n = 0 THEN <<>>
               ELSE CASE parts[n] = Here -> path[n - 1]
                      [] parts[n] = Up -> IF path[n - 1] = <<>> THEN <<>>
                                          ELSE SubSeq(path[n - 1], 1, Len(path[n - 1]) - 1)
                      [] OTHER -> Append(path[n - 1], parts[n])]
  <1>1. N \in Nat /\ \A n \in 1..N : parts[n] \in P
    <2> HIDE DEF parts
    <2>1. parts \in Seq(P)
      BY DEF parts
    <2>2. QED BY <2>1
  <1>2. <<>> \in V
    OBVIOUS
  <1>3. Validation!LookupPath(top, spelling) = iter[N]
    BY DEF Validation!LookupPath, Validation!Front
  <1> HIDE DEF parts
  <1>4. move \in [1..N -> [V -> V]]
    <2>1. \A n \in 1..N : \A path \in V : FacadeStep(path, parts[n]) \in V
      BY <1>1, StepsTyped
    <2> HIDE DEF V, N
    <2>2. QED BY <2>1
  <1>5. PICK g : Iterates(g, V, <<>>, N, move)
    <2> HIDE DEF V, N, move
    <2>1. QED BY <1>1, <1>2, <1>4, IterationExists
  <1>6. \A n \in 1..N : g[n] = FacadeStep(g[n - 1], parts[n])
    <2> HIDE DEF V
    <2>1. \A n \in 1..N : n - 1 \in 0..N
      BY <1>1
    <2>2. QED BY <1>5, <2>1 DEF Iterates
  <1>7. g = [n \in 0..N |->
               IF n = 0 THEN <<>>
               ELSE CASE parts[n] = Here -> g[n - 1]
                      [] parts[n] = Up -> IF g[n - 1] = <<>> THEN <<>>
                                          ELSE SubSeq(g[n - 1], 1, Len(g[n - 1]) - 1)
                      [] OTHER -> Append(g[n - 1], parts[n])]
    <2> HIDE DEF V, move
    <2>1. \A n \in 0..N : n = 0 \/ n \in 1..N
      BY <1>1
    <2> HIDE DEF N
    <2>2. QED BY <1>5, <1>6, <2>1 DEF FacadeStep, Iterates
  <1>8. iter = [n \in 0..N |->
               IF n = 0 THEN <<>>
               ELSE CASE parts[n] = Here -> iter[n - 1]
                      [] parts[n] = Up -> IF iter[n - 1] = <<>> THEN <<>>
                                          ELSE SubSeq(iter[n - 1], 1, Len(iter[n - 1]) - 1)
                      [] OTHER -> Append(iter[n - 1], parts[n])]
    <2> HIDE DEF V, N, move
    <2>1. QED BY <1>7
  <1> HIDE DEF iter
  <1>9. iter[0] = <<>> /\ \A n \in 1..N : iter[n] = FacadeStep(iter[n - 1], parts[n])
    <2>1. 0 \in 0..N /\ \A n \in 1..N : n \in 0..N /\ n # 0
      BY <1>1
    <2> HIDE DEF N
    <2>2. QED BY <1>8, <2>1 DEF FacadeStep
  <1>10. \A n \in 0..N : iter[n] \in V
    <2>1. \A n \in 1..N : iter[n - 1] \in V => iter[n] = move[n][iter[n - 1]]
      <3> HIDE DEF V
      <3>1. QED BY <1>9
    <2> HIDE DEF V, N, move
    <2>2. QED BY <1>1, <1>2, <1>4, <1>9, <2>1, IterationTyped
  <1>11. FacadePaths(P, parts, Validation!LookupPath(top, spelling), iter)
    BY <1>3, <1>9, <1>10 DEF FacadePaths
  <1>12. QED BY <1>11 DEF parts

(* A path the analyzer accepts never left the root of the file system.        *)
LEMMA AcceptedThroughout ==
  ASSUME NEW P, NEW parts \in Seq(P), NEW f, AnalyzerPaths(P, parts, f), f[Len(parts)] # Refused
  PROVE  \A n \in 0..Len(parts) : f[n] # Refused /\ f[n] \in Seq(P)
PROOF
  <1> DEFINE N == Len(parts)
             Gone == {k \in 0..N : f[N - k] = Refused}
  <1>1. N \in Nat
    OBVIOUS
  <1>2. ASSUME Gone # {} PROVE FALSE
    <2>1. PICK k \in Gone : \A j \in Gone : k <= j
      <3>1. Gone \in SUBSET Nat
        OBVIOUS
      <3> HIDE DEF Gone
      <3>2. QED BY <1>2, <3>1, LeastNatural
    <2>2. k \in 0..N /\ f[N - k] = Refused
      BY <2>1
    <2>3. k # 0
      BY <1>1, <2>2
    <2>4. k - 1 \in 0..N /\ ~ (k <= k - 1) /\ N - (k - 1) = (N - k) + 1 /\ (N - k) + 1 \in 1..N
      BY <1>1, <2>2, <2>3
    <2>5. f[(N - k) + 1] # Refused
      BY <2>1, <2>4
    <2>6. f[(N - k) + 1] = AnalyzerStep(f[((N - k) + 1) - 1], parts[(N - k) + 1])
      BY <2>4 DEF AnalyzerPaths
    <2>7. ((N - k) + 1) - 1 = N - k
      BY <1>1, <2>2
    <2>8. QED BY <2>2, <2>5, <2>6, <2>7 DEF AnalyzerStep
  <1>3. \A n \in 0..N : N - n \in 0..N /\ N - (N - n) = n
    BY <1>1
  <1>4. \A n \in 0..N : f[n] # Refused
    BY <1>2, <1>3
  <1>5. QED BY <1>4 DEF AnalyzerPaths

(* What the analyzer accepts the facade reads in the same way.                *)
LEMMA ReadAlike ==
  ASSUME NEW P, NEW parts \in Seq(P), NEW f, AnalyzerPaths(P, parts, f), f[Len(parts)] # Refused,
         NEW path, NEW g, FacadePaths(P, parts, path, g)
  PROVE  path = f[Len(parts)]
PROOF
  <1> DEFINE N == Len(parts)
             Apart == {n \in 0..N : f[n] # g[n]}
  <1>1. N \in Nat
    OBVIOUS
  <1>2. ASSUME Apart # {} PROVE FALSE
    <2>1. PICK n \in Apart : \A m \in Apart : n <= m
      <3>1. Apart \in SUBSET Nat
        OBVIOUS
      <3> HIDE DEF Apart
      <3>2. QED BY <1>2, <3>1, LeastNatural
    <2>2. n \in 0..N /\ f[n] # g[n]
      BY <2>1
    <2>3. n # 0
      BY <2>2 DEF AnalyzerPaths, FacadePaths
    <2>4. n \in 1..N /\ n - 1 \in 0..N /\ ~ (n <= n - 1)
      BY <1>1, <2>2, <2>3
    <2>5. f[n - 1] = g[n - 1]
      BY <2>1, <2>4
    <2>6. f[n - 1] # Refused /\ f[n] # Refused
      BY <2>2, <2>4, AcceptedThroughout
    <2>7. f[n] = AnalyzerStep(f[n - 1], parts[n]) /\ g[n] = FacadeStep(g[n - 1], parts[n])
      BY <2>4 DEF AnalyzerPaths, FacadePaths
    <2>8. AnalyzerStep(f[n - 1], parts[n]) = FacadeStep(f[n - 1], parts[n])
      BY <2>6, <2>7 DEF AnalyzerStep, FacadeStep
    <2>9. QED BY <2>2, <2>5, <2>7, <2>8
  <1>3. N \in 0..N
    BY <1>1
  <1>4. f[N] = g[N]
    BY <1>2, <1>3
  <1>5. QED BY <1>4 DEF FacadePaths

(* An instance has definitions of its own, which say the same.                *)
LEMMA SizesAgree == \A S : Validation!Cardinality(S) = Cardinality(S)
BY DEF Validation!Cardinality, Cardinality

(* A path that is accepted has at every component more names than "..".       *)
LEMMA NeverClimbs ==
  ASSUME NEW P, NEW parts \in Seq(P), NEW f, AnalyzerPaths(P, parts, f), f[Len(parts)] # Refused
  PROVE  ~ Validation!Climbs(parts)
PROOF
  <1> DEFINE N == Len(parts)
             Ups == {i \in 1..N : parts[i] = Up}
             Names == {i \in 1..N : parts[i] \notin {Up, Here}}
             Short == {n \in 0..N : Count(Names, n) # Count(Ups, n) + Len(f[n])}
  <1>1. N \in Nat /\ DOMAIN parts = 1..N
    OBVIOUS
  <1>2. \A n \in 0..N : f[n] # Refused /\ f[n] \in Seq(P) /\ Len(f[n]) \in Nat
    BY AcceptedThroughout
  <1>3. ASSUME Short # {} PROVE FALSE
    <2>1. PICK n \in Short : \A m \in Short : n <= m
      <3>1. Short \in SUBSET Nat
        OBVIOUS
      <3> HIDE DEF Short
      <3>2. QED BY <1>3, <3>1, LeastNatural
    <2>2. n \in 0..N /\ Count(Names, n) # Count(Ups, n) + Len(f[n])
      BY <2>1
    <2>3. n # 0
      <3>1. Len(f[0]) = 0
        BY DEF AnalyzerPaths
      <3>2. Count(Names, 0) = 0 /\ Count(Ups, 0) = 0
        BY CountFacts
      <3>3. QED BY <2>2, <3>1, <3>2
    <2>4. n \in 1..N /\ n - 1 \in 0..N /\ ~ (n <= n - 1) /\ n \in Nat /\ n - 1 \in Nat
      BY <1>1, <2>2, <2>3
    <2>5. Count(Names, n - 1) = Count(Ups, n - 1) + Len(f[n - 1])
      BY <2>1, <2>4
    <2>6. /\ Count(Names, n) = Count(Names, n - 1) + (IF n \in Names THEN 1 ELSE 0)
          /\ Count(Ups, n) = Count(Ups, n - 1) + (IF n \in Ups THEN 1 ELSE 0)
          /\ Count(Names, n - 1) \in Nat /\ Count(Ups, n - 1) \in Nat
      <3> HIDE DEF Names, Ups
      <3>1. QED BY <2>3, <2>4, CountFacts
    <2>7. f[n] = AnalyzerStep(f[n - 1], parts[n])
      BY <2>4 DEF AnalyzerPaths
    <2>8. /\ f[n - 1] # Refused /\ f[n - 1] \in Seq(P) /\ Len(f[n - 1]) \in Nat
          /\ f[n] # Refused /\ parts[n] \in P
      BY <1>2, <2>2, <2>4
    <2>9. CASE parts[n] = Here
      <3>1. n \notin Names /\ n \notin Ups
        BY <2>9, ComponentsAssumption
      <3>2. f[n] = f[n - 1]
        BY <2>7, <2>8, <2>9, ComponentsAssumption DEF AnalyzerStep
      <3> HIDE DEF Names, Ups
      <3>3. QED BY <2>2, <2>5, <2>6, <2>8, <3>1, <3>2
    <2>10. CASE parts[n] = Up
      <3>1. n \notin Names /\ n \in Ups
        BY <2>4, <2>10
      <3>2. f[n - 1] # <<>> /\ f[n] = SubSeq(f[n - 1], 1, Len(f[n - 1]) - 1)
        BY <2>7, <2>8, <2>10, ComponentsAssumption DEF AnalyzerStep
      <3>3. Len(f[n - 1]) # 0
        BY <2>8, <3>2, EmptySeq
      <3>4. Len(f[n]) = Len(f[n - 1]) - 1
        <4>1. 1 \in Int /\ Len(f[n - 1]) - 1 \in Int /\ 1 <= Len(f[n - 1])
          BY <2>8, <3>3
        <4>2. \A i \in 1..(Len(f[n - 1]) - 1) : f[n - 1][i] \in P
          BY <2>8, <4>1, ElementOfSeq
        <4>3. QED BY <2>8, <3>2, <4>1, <4>2, SubSeqProperties
      <3> HIDE DEF Names, Ups
      <3>5. QED BY <2>2, <2>5, <2>6, <2>8, <3>1, <3>3, <3>4
    <2>11. CASE parts[n] \notin {Up, Here}
      <3>1. n \in Names /\ n \notin Ups
        BY <2>4, <2>11
      <3>2. f[n] = Append(f[n - 1], parts[n])
        BY <2>7, <2>8, <2>11 DEF AnalyzerStep
      <3>3. Len(f[n]) = Len(f[n - 1]) + 1
        BY <2>8, <3>2
      <3> HIDE DEF Names, Ups
      <3>4. QED BY <2>2, <2>5, <2>6, <2>8, <3>1, <3>3
    <2>12. QED BY <2>9, <2>10, <2>11
  <1>4. ASSUME NEW n \in 1..N
        PROVE  ~ (Cardinality({i \in 1..n : parts[i] = Up})
                    > Cardinality({i \in 1..n : parts[i] \notin {Up, Here}}))
    <2>1. n \in 0..N /\ n \in Nat
      BY <1>1
    <2>2. Count(Names, n) = Count(Ups, n) + Len(f[n])
      BY <1>3, <2>1
    <2>3. Count(Names, n) \in Nat /\ Count(Ups, n) \in Nat
      <3> HIDE DEF Names, Ups
      <3>1. QED BY <2>1, CountFacts
    <2>4. /\ {i \in 1..n : parts[i] = Up} = {i \in 1..n : i \in Ups}
          /\ {i \in 1..n : parts[i] \notin {Up, Here}} = {i \in 1..n : i \in Names}
      BY <1>1
    <2>5. /\ Cardinality({i \in 1..n : parts[i] = Up}) = Count(Ups, n)
          /\ Cardinality({i \in 1..n : parts[i] \notin {Up, Here}}) = Count(Names, n)
      BY <2>4 DEF Count
    <2> HIDE DEF Names, Ups
    <2>6. QED BY <1>2, <2>1, <2>2, <2>3, <2>5
  <1>5. ASSUME Validation!Climbs(parts) PROVE FALSE
    <2>1. PICK n \in DOMAIN parts :
            Cardinality({i \in 1..n : parts[i] = Up})
              > Cardinality({i \in 1..n : parts[i] \notin {Up, Here}})
      BY <1>5, SizesAgree DEF Validation!Climbs
    <2>2. n \in 1..N
      BY <1>1
    <2>3. QED BY <1>4, <2>1, <2>2
  <1>6. QED BY <1>5

(* What the analyzer accepts is legal, and the facade finds it.               *)
LEMMA AcceptedIsFound ==
  ASSUME NEW P, NEW top \in Seq(P), NEW spelling \in SpelledWith(P),
         Validation!LogicalPath(top, spelling) # Refused
  PROVE  /\ Validation!LogicalPath(top, spelling) \in Seq(P)
         /\ Validation!LookupPath(top, spelling) = Validation!LogicalPath(top, spelling)
         /\ ~ Validation!Illegal(top, spelling)
PROOF
  <1> DEFINE parts == Validation!Components(top, spelling)
  <1>1. parts \in Seq(P)
    <2>1. spelling.parts \in Seq(P)
      BY DEF SpelledWith
    <2>2. top \o spelling.parts \in Seq(P)
      BY <2>1, ConcatProperties
    <2>3. QED BY <2>1, <2>2 DEF Validation!Components
  <1>2. spelling.blank \in BOOLEAN /\ ~ spelling.blank
        /\ Validation!LogicalPath(top, spelling) = Validation!Normalize(parts)
    BY DEF Validation!LogicalPath, SpelledWith
  <1>3. PICK g : FacadePaths(P, parts, Validation!LookupPath(top, spelling), g)
    BY <1>1, FacadeHasPaths
  <1> HIDE DEF parts
  <1>4. PICK f : AnalyzerPaths(P, parts, f)
    BY <1>1, AnalyzerHasPaths
  <1>5. Validation!Normalize(parts) = f[Len(parts)] /\ f[Len(parts)] # Refused
    BY <1>2, <1>4 DEF AnalyzerPaths
  <1>6. Len(parts) \in 0..Len(parts)
    BY <1>1
  <1>7. f[Len(parts)] \in Seq(P)
    BY <1>1, <1>4, <1>5, <1>6, AcceptedThroughout
  <1>8. Validation!LookupPath(top, spelling) = f[Len(parts)]
    BY <1>1, <1>3, <1>4, <1>5, ReadAlike
  <1>9. ~ Validation!Climbs(parts)
    BY <1>1, <1>4, <1>5, NeverClimbs
  <1>10. ~ Validation!Illegal(top, spelling)
    BY <1>2, <1>9 DEF Validation!Illegal, parts
  <1>11. QED BY <1>2, <1>5, <1>7, <1>8, <1>10
-----------------------------------------------------------------------------
(* The steps of the validation that come from a step on.                      *)
FromMappings == {"mappings", "built"}
FromPresence == {"presence"} \union FromMappings
FromEntrypoints == {"entrypoints"} \union FromPresence
FromFiles == {"files"} \union FromEntrypoints
FromActon == {"acton"} \union FromFiles
FromStdlib == {"stdlib"} \union FromActon

Path(spelling) == Validation!LogicalPath(root, spelling)
Accepted(spelling) == Path(spelling) # Refused

(* The list but its first n elements, which were read.                        *)
Left(list, n) == SubSeq(list, n + 1, Len(list))

(* The first n files were inserted, no two of them under one path.            *)
Inserted(n) ==
  /\ files = {Path(input.files[i]) : i \in 1..n}
  /\ IsFiniteSet(files) /\ Cardinality(files) = n
  /\ \A i \in 1..n : Accepted(input.files[i])
  /\ \A i, j \in 1..n : Path(input.files[i]) = Path(input.files[j]) => i = j

(* What holds when the call is in one of its steps: everything that was read  *)
(* in the steps before it was accepted under the root as it is now.           *)
RootIsRead(P) ==
  step \in FromStdlib =>
    /\ root = Validation!LogicalPath(Validation!FileSystemRoot, input.root)
    /\ root \in Seq(P)

LibrariesAreRead ==
  /\ step \in {"root", "stdlib"} => libraries = {}
  /\ step \in FromActon => (input.stdlib # Missing => Accepted(input.stdlib))
  /\ step \in FromFiles => (input.acton # Missing => Accepted(input.acton))
  /\ step = "acton" => libraries = {Path(s) : s \in {input.stdlib} \ {Missing}}
  /\ step \in FromFiles => libraries = {Path(s) : s \in {input.stdlib, input.acton} \ {Missing}}

FilesAreRead ==
  /\ step \in {"root", "stdlib", "acton"} => files = {}
  /\ step = "files" => \E n \in 0..Len(input.files) : Inserted(n) /\ todo = Left(input.files, n)
  /\ step \in FromEntrypoints => Inserted(Len(input.files))

Entrypoints == {Path(input.entrypoints[i]) : i \in 1..Len(input.entrypoints)}

EntrypointsAreRead ==
  /\ step \in {"root", "stdlib", "acton", "files"} => roots = {}
  /\ step = "entrypoints" =>
       \E n \in 0..Len(input.entrypoints) :
         /\ todo = Left(input.entrypoints, n)
         /\ \A i \in 1..n : Accepted(input.entrypoints[i])
         /\ roots = {Path(input.entrypoints[i]) : i \in 1..n}
  /\ step \in FromPresence =>
       /\ \A i \in 1..Len(input.entrypoints) : Accepted(input.entrypoints[i])
       /\ roots # {}
       /\ input.entrypoints = <<>> => roots = Validation!DefaultRoots
       /\ input.entrypoints # <<>> => roots = Entrypoints
  /\ step \in FromMappings => roots \subseteq files

MappingsAreRead ==
  /\ step = "mappings" =>
       \E n \in 0..Len(input.mappings) :
         /\ todo = Left(input.mappings, n)
         /\ \A i \in 1..n : Accepted(input.mappings[i])
  /\ step = "built" => \A i \in 1..Len(input.mappings) : Accepted(input.mappings[i])

(* The inductive invariant of the validation.                                 *)
InputIsRead(P) ==
  /\ input \in Inputs
  /\ RootIsRead(P)
  /\ LibrariesAreRead
  /\ FilesAreRead
  /\ EntrypointsAreRead
  /\ MappingsAreRead

LEMMA LeftFacts ==
  ASSUME NEW S, NEW list \in Seq(S), NEW n \in 0..Len(list)
  PROVE  /\ Left(list, 0) = list
         /\ Left(list, n) = <<>> => n = Len(list)
         /\ Left(list, n) # <<>> =>
              /\ n + 1 \in 1..Len(list)
              /\ Head(Left(list, n)) = list[n + 1]
              /\ Tail(Left(list, n)) = Left(list, n + 1)
PROOF
  <1> DEFINE N == Len(list)
             rest == Left(list, n)
  <1>1. N \in Nat /\ n \in Nat /\ n <= N /\ \A i \in 1..N : list[i] \in S
    OBVIOUS
  <1>2. \A m \in 0..N :
          /\ Left(list, m) \in Seq(S) /\ Len(Left(list, m)) = N - m
          /\ \A i \in 1..(N - m) : Left(list, m)[i] = list[m + i]
    <2>1. ASSUME NEW m \in 0..N
          PROVE  /\ Left(list, m) \in Seq(S) /\ Len(Left(list, m)) = N - m
                 /\ \A i \in 1..(N - m) : Left(list, m)[i] = list[m + i]
      <3>1. m + 1 \in Int /\ N \in Int
        BY <1>1
      <3>2. \A i \in (m + 1)..N : list[i] \in S
        BY <1>1
      <3>3. Left(list, m) = SubSeq(list, m + 1, N)
        BY DEF Left
      <3>4. /\ SubSeq(list, m + 1, N) \in Seq(S)
            /\ Len(SubSeq(list, m + 1, N)) = IF m + 1 <= N + 1 THEN N - (m + 1) + 1 ELSE 0
            /\ \A i \in 1..(N - (m + 1) + 1) : SubSeq(list, m + 1, N)[i] = list[(m + 1) + i - 1]
        BY <1>1, <3>1, <3>2, SubSeqProperties
      <3>5. QED BY <1>1, <3>3, <3>4
    <2>2. QED BY <2>1
  <1>3. Left(list, 0) = list
    <2>1. 0 \in 0..N
      BY <1>1
    <2>2. Left(list, 0) \in Seq(S) /\ Len(Left(list, 0)) = N
          /\ \A i \in 1..N : Left(list, 0)[i] = list[i]
      BY <1>1, <1>2, <2>1
    <2> HIDE DEF N
    <2>3. QED BY <2>2, SeqEqual DEF N
  <1>4. rest \in Seq(S) /\ Len(rest) = N - n /\ \A i \in 1..(N - n) : rest[i] = list[n + i]
    BY <1>2
  <1>5. ASSUME rest = <<>> PROVE n = N
    <2> HIDE DEF N, rest
    <2>1. Len(rest) = 0
      BY <1>5
    <2>2. QED BY <1>1, <1>4, <2>1
  <1>6. ASSUME rest # <<>>
        PROVE  n + 1 \in 1..N /\ Head(rest) = list[n + 1] /\ Tail(rest) = Left(list, n + 1)
    <2> HIDE DEF N, rest
    <2>1. Len(rest) # 0
      BY <1>4, <1>6, EmptySeq
    <2>2. n + 1 \in 1..N /\ n + 1 \in 0..N /\ 1 \in 1..(N - n)
      BY <1>1, <1>4, <2>1
    <2>3. Head(rest) = list[n + 1]
      <3>1. Head(rest) = rest[1]
        BY <1>4, <1>6
      <3>2. QED BY <1>4, <2>2, <3>1
    <2>4. /\ Tail(rest) \in Seq(S) /\ Len(Tail(rest)) = Len(rest) - 1
          /\ \A i \in 1..Len(Tail(rest)) : Tail(rest)[i] = rest[i + 1]
      BY <1>4, <1>6, HeadTailProperties
    <2>5. Left(list, n + 1) \in Seq(S) /\ Len(Left(list, n + 1)) = N - (n + 1)
          /\ \A i \in 1..(N - (n + 1)) : Left(list, n + 1)[i] = list[(n + 1) + i]
      BY <1>2, <2>2
    <2>6. Len(Tail(rest)) = N - (n + 1) /\ N - (n + 1) \in Nat
      BY <1>1, <1>4, <2>2, <2>4
    <2>7. ASSUME NEW i \in 1..(N - (n + 1)) PROVE Tail(rest)[i] = Left(list, n + 1)[i]
      <3>1. i + 1 \in 1..(N - n) /\ n + (i + 1) = (n + 1) + i
        BY <1>1
      <3>2. Tail(rest)[i] = rest[i + 1]
        BY <2>4, <2>6
      <3>3. rest[i + 1] = list[(n + 1) + i]
        BY <1>4, <3>1
      <3>4. QED BY <2>5, <3>2, <3>3
    <2>8. Tail(rest) = Left(list, n + 1)
      BY <2>4, <2>5, <2>6, <2>7, SeqEqual
    <2>9. QED BY <2>2, <2>3, <2>8
  <1>7. QED BY <1>3, <1>5, <1>6

LEMMA InputTyped ==
  ASSUME NEW P, InputsAreSpelled(P), input \in Inputs
  PROVE  /\ input.root \in SpelledWith(P)
         /\ input.files \in Seq(SpelledWith(P)) /\ input.entrypoints \in Seq(SpelledWith(P))
         /\ input.mappings \in Seq(SpelledWith(P))
         /\ input.stdlib \in SpelledWith(P) \union {Missing}
         /\ input.acton \in SpelledWith(P) \union {Missing}
         /\ Refused \notin Seq(P) /\ <<>> \in Seq(P)
BY DEF InputsAreSpelled

(* The order of the steps, as they follow each other.                         *)
LEMMA StepsInOrder ==
  Validation!After("stdlib") = "acton" /\ Validation!After("acton") = "files"
PROOF
  <1>1. ASSUME NEW s, NEW n \in 2..3, s = (IF n = 2 THEN "stdlib" ELSE "acton")
        PROVE  Validation!After(s) = IF n = 2 THEN "acton" ELSE "files"
    <2> DEFINE I == {i \in 1..Len(Validation!Steps) : Validation!Steps[i] = s}
    <2>1. I = {n}
      BY <1>1 DEF Validation!Steps
    <2>2. Validation!Min(I) = n
      <3> HIDE DEF I
      <3>1. (CHOOSE x \in I : \A y \in I : x <= y) \in I
        BY <2>1
      <3>2. QED BY <2>1, <3>1 DEF Validation!Min
    <2>3. Validation!SelectInSeq(Validation!Steps, LAMBDA t : t = s) = n
      <3>1. I # {}
        BY <2>1
      <3>2. QED BY <2>2, <3>1, Zenon DEF Validation!SelectInSeq
    <2>4. Validation!After(s) = Validation!Steps[n + 1]
      BY <2>3, Zenon DEF Validation!After
    <2>5. QED BY <1>1, <2>4 DEF Validation!Steps
  <1>2. Validation!After("stdlib") = "acton"
    BY <1>1
  <1>3. Validation!After("acton") = "files"
    BY <1>1
  <1>4. QED BY <1>2, <1>3

(* A step that fails leaves nothing to be shown.                              *)
LEMMA FailureKeeps ==
  ASSUME NEW P, InputIsRead(P), step' = "failed", UNCHANGED input
  PROVE  InputIsRead(P)'
PROOF
  <1> USE DEF FromStdlib, FromActon, FromFiles, FromEntrypoints, FromPresence, FromMappings
  <1>1. input' \in Inputs
    BY DEF InputIsRead
  <1>2. RootIsRead(P)' /\ LibrariesAreRead' /\ FilesAreRead' /\ EntrypointsAreRead' /\ MappingsAreRead'
    BY DEF RootIsRead, LibrariesAreRead, FilesAreRead, EntrypointsAreRead, MappingsAreRead
  <1>3. QED BY <1>1, <1>2 DEF InputIsRead

LEMMA RootKeeps ==
  ASSUME NEW P, InputsAreSpelled(P), InputIsRead(P), Validation!NormalizeRoot
  PROVE  InputIsRead(P)'
PROOF
  <1> DEFINE path == Validation!LogicalPath(Validation!FileSystemRoot, input.root)
  <1> USE DEF FromStdlib, FromActon, FromFiles, FromEntrypoints, FromPresence, FromMappings
  <1>1. CASE path = Refused
    BY <1>1, FailureKeeps DEF Validation!NormalizeRoot, Validation!Fail
  <1>2. CASE path # Refused
    <2>1. /\ step = "root" /\ step' = "stdlib" /\ root' = path
          /\ UNCHANGED <<input, todo, libraries, files, roots>>
      BY <1>2 DEF Validation!NormalizeRoot
    <2>2. input' \in Inputs
      BY <2>1 DEF InputIsRead
    <2>3. path \in Seq(P)
      BY <1>2, <2>1, InputTyped, AcceptedIsFound DEF InputIsRead, Validation!FileSystemRoot
    <2>4. RootIsRead(P)'
      BY <2>1, <2>3 DEF RootIsRead
    <2>5. LibrariesAreRead'
      BY <2>1 DEF InputIsRead, LibrariesAreRead
    <2>6. FilesAreRead'
      BY <2>1 DEF InputIsRead, FilesAreRead
    <2>7. EntrypointsAreRead' /\ MappingsAreRead'
      BY <2>1 DEF InputIsRead, EntrypointsAreRead, MappingsAreRead
    <2>8. QED BY <2>2, <2>4, <2>5, <2>6, <2>7 DEF InputIsRead
  <1>3. QED BY <1>1, <1>2

(* What follows while the root and what was read before stay as they are.     *)
LEMMA PathsStay ==
  ASSUME UNCHANGED <<input, root>>
  PROVE  /\ \A s : Path(s)' = Path(s)
         /\ \A s : Accepted(s)' <=> Accepted(s)
         /\ UNCHANGED files => \A n : Inserted(n)' <=> Inserted(n)
PROOF
  <1>1. \A s : Path(s)' = Path(s)
    BY DEF Path
  <1>2. \A s : Accepted(s)' <=> Accepted(s)
    BY DEF Path, Accepted
  <1>3. UNCHANGED files => \A n : Inserted(n)' <=> Inserted(n)
    BY DEF Path, Accepted, Inserted
  <1>4. QED BY <1>1, <1>2, <1>3

LEMMA LibraryKeeps ==
  ASSUME NEW P, InputsAreSpelled(P), InputIsRead(P),
         Validation!NormalizeStdlib \/ Validation!NormalizeActon
  PROVE  InputIsRead(P)'
PROOF
  <1> USE DEF FromStdlib, FromActon, FromFiles, FromEntrypoints, FromPresence, FromMappings
  <1> DEFINE spelling == IF step = "stdlib" THEN input.stdlib ELSE input.acton
  <1>1. (step = "stdlib" \/ step = "acton") /\ Validation!NormalizeLibrary(spelling)
    BY DEF Validation!NormalizeStdlib, Validation!NormalizeActon
  <1>2. CASE spelling # Missing /\ Path(spelling) = Refused
    BY <1>1, <1>2, FailureKeeps DEF Validation!NormalizeLibrary, Validation!Fail, Path
  <1>3. CASE spelling = Missing \/ Path(spelling) # Refused
    <2>1. /\ libraries' = IF spelling = Missing THEN libraries ELSE libraries \union {Path(spelling)}
          /\ step' = Validation!After(step)
          /\ todo' = IF step = "acton" THEN input.files ELSE <<>>
          /\ UNCHANGED <<input, root, files, roots>>
      BY <1>1, <1>3 DEF Validation!NormalizeLibrary, Path
    <2>2. /\ step = "stdlib" => step' = "acton"
          /\ step = "acton" => step' = "files"
      BY <2>1, StepsInOrder
    <2>3. input' \in Inputs
      BY <2>1 DEF InputIsRead
    <2>4. RootIsRead(P)'
      BY <1>1, <2>1, <2>2 DEF InputIsRead, RootIsRead
    <2>5. \A s : (Path(s)' = Path(s)) /\ (Accepted(s)' <=> Accepted(s))
      BY <2>1, PathsStay
    <2>6. LibrariesAreRead'
      <3>1. CASE step = "stdlib"
        <4>1. libraries = {} /\ step' = "acton" /\ spelling = input.stdlib
          BY <2>2, <3>1 DEF InputIsRead, LibrariesAreRead
        <4>2. input.stdlib # Missing => Accepted(input.stdlib)
          BY <1>3, <4>1 DEF Accepted
        <4>3. libraries' = {Path(s) : s \in {input.stdlib} \ {Missing}}
          BY <2>1, <4>1
        <4>4. QED BY <2>1, <2>5, <4>1, <4>2, <4>3 DEF LibrariesAreRead, Path, Accepted
      <3>2. CASE step = "acton"
        <4>1. /\ libraries = {Path(s) : s \in {input.stdlib} \ {Missing}}
              /\ step' = "files" /\ spelling = input.acton
              /\ input.stdlib # Missing => Accepted(input.stdlib)
          BY <2>2, <3>2 DEF InputIsRead, LibrariesAreRead
        <4>2. input.acton # Missing => Accepted(input.acton)
          BY <1>3, <4>1 DEF Accepted
        <4>3. libraries' = {Path(s) : s \in {input.stdlib, input.acton} \ {Missing}}
          BY <2>1, <4>1
        <4>4. QED BY <2>1, <2>5, <4>1, <4>2, <4>3 DEF LibrariesAreRead, Path, Accepted
      <3>3. QED BY <1>1, <3>1, <3>2
    <2>7. files' = {} /\ roots' = {}
      BY <1>1, <2>1 DEF InputIsRead, FilesAreRead, EntrypointsAreRead
    <2>8. FilesAreRead'
      <3>1. CASE step = "stdlib"
        BY <2>2, <2>7, <3>1 DEF FilesAreRead
      <3>2. CASE step = "acton"
        <4>1. input.files \in Seq(SpelledWith(P))
          BY <2>1, InputTyped DEF InputIsRead
        <4>2. 0 \in 0..Len(input.files) /\ todo' = Left(input.files, 0)
          <5>1. 0 \in 0..Len(input.files)
            BY <4>1
          <5>2. Left(input.files, 0) = input.files
            BY <4>1, <5>1, LeftFacts
          <5>3. QED BY <2>1, <3>2, <5>1, <5>2
        <4>3. Inserted(0)'
          BY <2>1, <2>7, FS_EmptySet DEF Inserted
        <4>4. step' = "files" /\ input' = input
          BY <2>1, <2>2, <3>2
        <4>5. QED BY <4>2, <4>3, <4>4 DEF FilesAreRead, Left
      <3>3. QED BY <1>1, <3>1, <3>2
    <2>9. EntrypointsAreRead' /\ MappingsAreRead'
      BY <1>1, <2>2, <2>7 DEF EntrypointsAreRead, MappingsAreRead
    <2>10. QED BY <2>3, <2>4, <2>6, <2>8, <2>9 DEF InputIsRead
  <1>4. QED BY <1>2, <1>3

LEMMA InsertKeeps ==
  ASSUME NEW P, InputsAreSpelled(P), InputIsRead(P), Validation!InsertFile
  PROVE  InputIsRead(P)'
PROOF
  <1> USE DEF FromStdlib, FromActon, FromFiles, FromEntrypoints, FromPresence, FromMappings
  <1> DEFINE path == Path(Head(todo))
  <1>1. step = "files" /\ todo # <<>>
    BY DEF Validation!InsertFile
  <1>2. CASE path = Refused \/ path \in files
    BY <1>2, FailureKeeps DEF Validation!InsertFile, Validation!Fail, Path
  <1>3. CASE path # Refused /\ path \notin files
    <2>1. /\ files' = files \union {path} /\ todo' = Tail(todo)
          /\ UNCHANGED <<input, step, root, libraries, roots>>
      BY <1>3 DEF Validation!InsertFile, Path
    <2>2. input.files \in Seq(SpelledWith(P))
      BY InputTyped DEF InputIsRead
    <2>3. PICK n \in 0..Len(input.files) : Inserted(n) /\ todo = Left(input.files, n)
      BY <1>1 DEF InputIsRead, FilesAreRead
    <2>4. /\ n + 1 \in 1..Len(input.files) /\ Head(todo) = input.files[n + 1]
          /\ Tail(todo) = Left(input.files, n + 1)
      BY <1>1, <2>2, <2>3, LeftFacts
    <2>5. n \in Nat /\ n + 1 \in 0..Len(input.files) /\ \A i \in 1..(n + 1) : i \in 1..n \/ i = n + 1
      BY <2>2, <2>3, <2>4
    <2>6. \A s : Path(s)' = Path(s)
      BY <2>1, PathsStay
    <2>7. Inserted(n + 1)'
      <3>1. /\ files = {Path(input.files[i]) : i \in 1..n}
            /\ IsFiniteSet(files) /\ Cardinality(files) = n
            /\ \A i \in 1..n : Path(input.files[i]) # Refused
            /\ \A i, j \in 1..n : Path(input.files[i]) = Path(input.files[j]) => i = j
        BY <2>3 DEF Inserted, Accepted
      <3>2. IsFiniteSet(files') /\ Cardinality(files') = n + 1
        BY <1>3, <2>1, <3>1, FS_AddElement
      <3>3. files' = {Path(input.files[i]) : i \in 1..(n + 1)}
        <4>1. \A i \in 1..n : i \in 1..(n + 1)
          BY <2>5
        <4>2. n + 1 \in 1..(n + 1)
          BY <2>5
        <4> HIDE DEF path
        <4>3. path = Path(input.files[n + 1])
          BY <2>4 DEF path
        <4>4. QED BY <2>1, <2>5, <3>1, <4>1, <4>2, <4>3
      <3>4. \A i \in 1..(n + 1) : Path(input.files[i]) # Refused
        BY <1>3, <2>4, <2>5, <3>1
      <3>5. \A i, j \in 1..(n + 1) : Path(input.files[i]) = Path(input.files[j]) => i = j
        <4>1. \A i \in 1..n : Path(input.files[i]) \in files
          BY <3>1
        <4>2. \A i \in 1..n : Path(input.files[i]) # Path(input.files[n + 1])
          BY <1>3, <2>4, <4>1
        <4>3. QED BY <2>5, <3>1, <4>2
      <3>6. input' = input
        BY <2>1
      <3>7. QED BY <2>6, <3>2, <3>3, <3>4, <3>5, <3>6 DEF Inserted, Accepted, Path
    <2>8. FilesAreRead'
      <3>1. todo' = Left(input.files, n + 1)' /\ n + 1 \in 0..Len(input'.files) /\ step' = "files"
        BY <1>1, <2>1, <2>4, <2>5 DEF Left
      <3>2. QED BY <2>7, <3>1 DEF FilesAreRead
    <2>9. input' \in Inputs /\ RootIsRead(P)'
      BY <2>1 DEF InputIsRead, RootIsRead
    <2>10. LibrariesAreRead'
      BY <2>1 DEF InputIsRead, LibrariesAreRead, Accepted, Path
    <2>11. EntrypointsAreRead' /\ MappingsAreRead'
      BY <1>1, <2>1 DEF InputIsRead, EntrypointsAreRead, MappingsAreRead
    <2>12. QED BY <2>8, <2>9, <2>10, <2>11 DEF InputIsRead
  <1>4. QED BY <1>2, <1>3

LEMMA FilesReadKeeps ==
  ASSUME NEW P, InputsAreSpelled(P), InputIsRead(P), Validation!FilesRead
  PROVE  InputIsRead(P)'
PROOF
  <1> USE DEF FromStdlib, FromActon, FromFiles, FromEntrypoints, FromPresence, FromMappings
  <1>1. /\ step = "files" /\ todo = <<>> /\ step' = "entrypoints" /\ todo' = input.entrypoints
        /\ UNCHANGED <<input, root, libraries, files, roots>>
    BY DEF Validation!FilesRead
  <1>2. input.files \in Seq(SpelledWith(P)) /\ input.entrypoints \in Seq(SpelledWith(P))
    BY InputTyped DEF InputIsRead
  <1>3. PICK n \in 0..Len(input.files) : Inserted(n) /\ todo = Left(input.files, n)
    BY <1>1 DEF InputIsRead, FilesAreRead
  <1>4. n = Len(input.files)
    BY <1>1, <1>2, <1>3, LeftFacts
  <1>5. FilesAreRead'
    <2>1. Inserted(n)'
      BY <1>1, <1>3, PathsStay
    <2>2. Inserted(Len(input.files))'
      BY <1>1, <1>4, <2>1 DEF Inserted, Accepted, Path
    <2>3. QED BY <1>1, <2>2 DEF FilesAreRead
  <1>6. input' \in Inputs /\ RootIsRead(P)'
    BY <1>1 DEF InputIsRead, RootIsRead
  <1>7. LibrariesAreRead'
    BY <1>1 DEF InputIsRead, LibrariesAreRead, Accepted, Path
  <1>8. EntrypointsAreRead'
    <2>1. 0 \in 0..Len(input.entrypoints) /\ Left(input.entrypoints, 0) = input.entrypoints
      <3>1. 0 \in 0..Len(input.entrypoints)
        BY <1>2
      <3>2. QED BY <1>2, <3>1, LeftFacts
    <2>2. roots' = {}
      BY <1>1 DEF InputIsRead, EntrypointsAreRead
    <2>3. QED BY <1>1, <2>1, <2>2 DEF EntrypointsAreRead, Left
  <1>9. MappingsAreRead'
    BY <1>1 DEF MappingsAreRead
  <1>10. QED BY <1>5, <1>6, <1>7, <1>8, <1>9 DEF InputIsRead

(* What only the steps after the files may disturb.                           *)
LEMMA EarlierStays ==
  ASSUME NEW P, InputIsRead(P), UNCHANGED <<input, root, libraries, files>>,
         step \in FromEntrypoints, step' \in FromEntrypoints
  PROVE  input' \in Inputs /\ RootIsRead(P)' /\ LibrariesAreRead' /\ FilesAreRead'
PROOF
  <1> USE DEF FromStdlib, FromActon, FromFiles, FromEntrypoints, FromPresence, FromMappings
  <1>1. input' \in Inputs
    BY DEF InputIsRead
  <1>2. RootIsRead(P)'
    BY DEF InputIsRead, RootIsRead
  <1>3. LibrariesAreRead'
    BY DEF InputIsRead, LibrariesAreRead, Accepted, Path
  <1>4. FilesAreRead'
    <2>1. Inserted(Len(input.files))
      BY DEF InputIsRead, FilesAreRead
    <2>2. Inserted(Len(input.files))'
      BY <2>1 DEF Inserted, Accepted, Path
    <2>3. QED BY <2>2 DEF FilesAreRead
  <1>5. QED BY <1>1, <1>2, <1>3, <1>4

LEMMA EntrypointKeeps ==
  ASSUME NEW P, InputsAreSpelled(P), InputIsRead(P), Validation!AddEntrypoint
  PROVE  InputIsRead(P)'
PROOF
  <1> USE DEF FromEntrypoints, FromPresence, FromMappings
  <1> DEFINE path == Path(Head(todo))
  <1>1. step = "entrypoints" /\ todo # <<>>
    BY DEF Validation!AddEntrypoint
  <1>2. CASE path = Refused
    BY <1>2, FailureKeeps DEF Validation!AddEntrypoint, Validation!Fail, Path
  <1>3. CASE path # Refused
    <2>1. /\ roots' = roots \union {path} /\ todo' = Tail(todo)
          /\ UNCHANGED <<input, step, root, libraries, files>>
      BY <1>3 DEF Validation!AddEntrypoint, Path
    <2>2. input.entrypoints \in Seq(SpelledWith(P))
      BY InputTyped DEF InputIsRead
    <2>3. PICK n \in 0..Len(input.entrypoints) :
            /\ todo = Left(input.entrypoints, n)
            /\ \A i \in 1..n : Accepted(input.entrypoints[i])
            /\ roots = {Path(input.entrypoints[i]) : i \in 1..n}
      BY <1>1 DEF InputIsRead, EntrypointsAreRead
    <2>4. /\ n + 1 \in 1..Len(input.entrypoints) /\ Head(todo) = input.entrypoints[n + 1]
          /\ Tail(todo) = Left(input.entrypoints, n + 1)
      BY <1>1, <2>2, <2>3, LeftFacts
    <2>5. /\ n + 1 \in 0..Len(input.entrypoints) /\ n + 1 \in 1..(n + 1)
          /\ \A i \in 1..(n + 1) : i \in 1..n \/ i = n + 1
          /\ \A i \in 1..n : i \in 1..(n + 1)
      BY <2>2, <2>3, <2>4
    <2>6. \A i \in 1..(n + 1) : Accepted(input.entrypoints[i])
      BY <1>3, <2>3, <2>4, <2>5 DEF Accepted
    <2>7. roots' = {Path(input.entrypoints[i]) : i \in 1..(n + 1)}
      <3>1. path = Path(input.entrypoints[n + 1])
        BY <2>4
      <3> HIDE DEF path
      <3>2. QED BY <2>1, <2>3, <2>5, <3>1
    <2>8. EntrypointsAreRead'
      <3>1. /\ todo' = Left(input.entrypoints, n + 1)'
            /\ n + 1 \in 0..Len(input'.entrypoints) /\ step' = "entrypoints"
        BY <1>1, <2>1, <2>4, <2>5 DEF Left
      <3>2. /\ \A i \in 1..(n + 1) : Accepted(input.entrypoints[i])'
            /\ roots' = {Path(input.entrypoints[i])' : i \in 1..(n + 1)}
        BY <2>1, <2>6, <2>7 DEF Accepted, Path
      <3>3. QED BY <3>1, <3>2 DEF EntrypointsAreRead
    <2>9. MappingsAreRead'
      BY <1>1, <2>1 DEF MappingsAreRead
    <2>10. QED BY <1>1, <2>1, <2>8, <2>9, EarlierStays DEF InputIsRead
  <1>4. QED BY <1>2, <1>3

LEMMA EntrypointsReadKeeps ==
  ASSUME NEW P, InputsAreSpelled(P), InputIsRead(P), Validation!EntrypointsRead
  PROVE  InputIsRead(P)'
PROOF
  <1> USE DEF FromEntrypoints, FromPresence, FromMappings
  <1> DEFINE chosen == IF roots = {} THEN Validation!DefaultRoots ELSE roots
  <1>1. step = "entrypoints" /\ todo = <<>>
    BY DEF Validation!EntrypointsRead
  <1>2. CASE chosen = {}
    BY <1>2, FailureKeeps DEF Validation!EntrypointsRead, Validation!Fail
  <1>3. CASE chosen # {}
    <2>1. /\ roots' = chosen /\ step' = "presence"
          /\ UNCHANGED <<input, todo, root, libraries, files>>
      BY <1>3 DEF Validation!EntrypointsRead
    <2>2. input.entrypoints \in Seq(SpelledWith(P))
      BY InputTyped DEF InputIsRead
    <2>3. PICK n \in 0..Len(input.entrypoints) :
            /\ todo = Left(input.entrypoints, n)
            /\ \A i \in 1..n : Accepted(input.entrypoints[i])
            /\ roots = {Path(input.entrypoints[i]) : i \in 1..n}
      BY <1>1 DEF InputIsRead, EntrypointsAreRead
    <2>4. n = Len(input.entrypoints)
      BY <1>1, <2>2, <2>3, LeftFacts
    <2>5. input.entrypoints = <<>> => roots' = Validation!DefaultRoots
      <3>1. ASSUME input.entrypoints = <<>> PROVE roots = {}
        <4>1. n = 0
          BY <2>4, <3>1
        <4>2. QED BY <2>3, <4>1
      <3>2. QED BY <2>1, <3>1
    <2>6. Validation!DefaultRoots' = Validation!DefaultRoots /\ Entrypoints' = Entrypoints
      BY <2>1 DEF Validation!DefaultRoots, Entrypoints, Path
    <2>7. \A i \in 1..Len(input.entrypoints) : Accepted(input.entrypoints[i])'
      BY <2>1, <2>3, <2>4 DEF Accepted, Path
    <2>8. input.entrypoints # <<>> => roots' = Entrypoints
      <3>1. ASSUME input.entrypoints # <<>> PROVE roots' = Entrypoints
        <4>1. roots = Entrypoints
          BY <2>3, <2>4 DEF Entrypoints
        <4>2. 1 \in 1..Len(input.entrypoints)
          BY <2>2, <3>1, EmptySeq
        <4>3. Entrypoints # {}
          BY <4>2 DEF Entrypoints
        <4>4. QED BY <2>1, <4>1, <4>3
      <3>2. QED BY <3>1
    <2>9. EntrypointsAreRead' /\ MappingsAreRead'
      BY <1>3, <2>1, <2>5, <2>6, <2>7, <2>8 DEF EntrypointsAreRead, MappingsAreRead
    <2>10. QED BY <1>1, <2>1, <2>9, EarlierStays DEF InputIsRead
  <1>4. QED BY <1>2, <1>3

(* The steps that follow keep the entrypoints.                                *)
LEMMA EntrypointsStay ==
  ASSUME NEW P, InputIsRead(P), UNCHANGED <<input, root, libraries, files, roots>>,
         step \in FromPresence, step' \in FromPresence,
         step' \in FromMappings => roots \subseteq files
  PROVE  EntrypointsAreRead'
PROOF
  <1> USE DEF FromEntrypoints, FromPresence, FromMappings
  <1>1. /\ \A i \in 1..Len(input.entrypoints) : Accepted(input.entrypoints[i])
        /\ roots # {}
        /\ input.entrypoints = <<>> => roots = Validation!DefaultRoots
        /\ input.entrypoints # <<>> => roots = Entrypoints
    BY DEF InputIsRead, EntrypointsAreRead
  <1>2. \A i \in 1..Len(input.entrypoints) : Accepted(input.entrypoints[i])'
    BY <1>1 DEF Accepted, Path
  <1>3. Validation!DefaultRoots' = Validation!DefaultRoots /\ Entrypoints' = Entrypoints
    BY DEF Validation!DefaultRoots, Entrypoints, Path
  <1>4. QED BY <1>1, <1>2, <1>3 DEF EntrypointsAreRead

LEMMA PresenceKeeps ==
  ASSUME NEW P, InputsAreSpelled(P), InputIsRead(P), Validation!CheckPresence
  PROVE  InputIsRead(P)'
PROOF
  <1> USE DEF FromEntrypoints, FromPresence, FromMappings
  <1>1. CASE ~ roots \subseteq files
    BY <1>1, FailureKeeps DEF Validation!CheckPresence, Validation!Fail
  <1>2. CASE roots \subseteq files
    <2>1. /\ step = "presence" /\ step' = "mappings" /\ todo' = input.mappings
          /\ UNCHANGED <<input, root, libraries, files, roots>>
      BY <1>2 DEF Validation!CheckPresence
    <2>2. input.mappings \in Seq(SpelledWith(P))
      BY InputTyped DEF InputIsRead
    <2>3. 0 \in 0..Len(input.mappings) /\ Left(input.mappings, 0) = input.mappings
      <3>1. 0 \in 0..Len(input.mappings)
        BY <2>2
      <3>2. QED BY <2>2, <3>1, LeftFacts
    <2>4. MappingsAreRead'
      BY <2>1, <2>3 DEF MappingsAreRead, Left
    <2>5. EntrypointsAreRead'
      BY <1>2, <2>1, EntrypointsStay
    <2>6. QED BY <2>1, <2>4, <2>5, EarlierStays DEF InputIsRead
  <1>3. QED BY <1>1, <1>2

LEMMA MappingKeeps ==
  ASSUME NEW P, InputsAreSpelled(P), InputIsRead(P),
         Validation!MapImport \/ Validation!BuildProject
  PROVE  InputIsRead(P)'
PROOF
  <1> USE DEF FromEntrypoints, FromPresence, FromMappings
  <1>1. step = "mappings"
    BY DEF Validation!MapImport, Validation!BuildProject
  <1>2. input.mappings \in Seq(SpelledWith(P))
    BY InputTyped DEF InputIsRead
  <1>3. PICK n \in 0..Len(input.mappings) :
          todo = Left(input.mappings, n) /\ \A i \in 1..n : Accepted(input.mappings[i])
    BY <1>1 DEF InputIsRead, MappingsAreRead
  <1>4. roots \subseteq files
    BY <1>1 DEF InputIsRead, EntrypointsAreRead
  <1>5. CASE Validation!MapImport /\ Path(Head(todo)) = Refused
    BY <1>5, FailureKeeps DEF Validation!MapImport, Validation!Fail, Path
  <1>6. CASE Validation!MapImport /\ Path(Head(todo)) # Refused
    <2>1. /\ todo # <<>> /\ todo' = Tail(todo)
          /\ UNCHANGED <<input, step, root, libraries, files, roots>>
      BY <1>6 DEF Validation!MapImport, Path
    <2>2. /\ n + 1 \in 1..Len(input.mappings) /\ Head(todo) = input.mappings[n + 1]
          /\ Tail(todo) = Left(input.mappings, n + 1)
      BY <1>2, <1>3, <2>1, LeftFacts
    <2>3. /\ n + 1 \in 0..Len(input.mappings)
          /\ \A i \in 1..(n + 1) : i \in 1..n \/ i = n + 1
      BY <1>2, <1>3, <2>2
    <2>4. \A i \in 1..(n + 1) : Accepted(input.mappings[i])'
      BY <1>3, <1>6, <2>1, <2>2, <2>3 DEF Accepted, Path
    <2>5. MappingsAreRead'
      <3>1. /\ todo' = Left(input.mappings, n + 1)'
            /\ n + 1 \in 0..Len(input'.mappings) /\ step' = "mappings"
        BY <1>1, <2>1, <2>2, <2>3 DEF Left
      <3>2. QED BY <2>4, <3>1 DEF MappingsAreRead
    <2>6. EntrypointsAreRead'
      BY <1>1, <1>4, <2>1, EntrypointsStay
    <2>7. QED BY <1>1, <2>1, <2>5, <2>6, EarlierStays DEF InputIsRead
  <1>7. CASE Validation!BuildProject
    <2>1. /\ todo = <<>> /\ step' = "built"
          /\ UNCHANGED <<input, todo, root, libraries, files, roots>>
      BY <1>7 DEF Validation!BuildProject
    <2>2. n = Len(input.mappings)
      BY <1>2, <1>3, <2>1, LeftFacts
    <2>3. \A i \in 1..Len(input.mappings) : Accepted(input.mappings[i])'
      BY <1>3, <2>1, <2>2 DEF Accepted, Path
    <2>4. MappingsAreRead'
      BY <2>1, <2>3 DEF MappingsAreRead
    <2>5. EntrypointsAreRead'
      BY <1>1, <1>4, <2>1, EntrypointsStay
    <2>6. QED BY <1>1, <2>1, <2>4, <2>5, EarlierStays DEF InputIsRead
  <1>8. QED BY <1>5, <1>6, <1>7

(* The validation of an input, one path after the other.                      *)
THEOREM InputRead ==
  ASSUME NEW P, InputsAreSpelled(P)
  PROVE  Spec => []InputIsRead(P)
PROOF
  <1>1. Init => InputIsRead(P)
    <2>1. ASSUME Init PROVE InputIsRead(P)
      <3>1. /\ input \in Inputs /\ step = "root" /\ libraries = {} /\ files = {} /\ roots = {}
        BY <2>1 DEF Init, Validation!Init
      <3>2. /\ RootIsRead(P) /\ LibrariesAreRead /\ FilesAreRead /\ EntrypointsAreRead
            /\ MappingsAreRead
        BY <3>1 DEF RootIsRead, LibrariesAreRead, FilesAreRead, EntrypointsAreRead,
           MappingsAreRead, FromStdlib, FromActon, FromFiles, FromEntrypoints, FromPresence,
           FromMappings
      <3>3. QED BY <3>1, <3>2 DEF InputIsRead
    <2>2. QED BY <2>1
  <1>2. ASSUME InputIsRead(P), UNCHANGED validation PROVE InputIsRead(P)'
    <2>1. UNCHANGED <<input, step, todo, root, libraries, files, roots>>
      BY <1>2 DEF validation
    <2>2. input' \in Inputs /\ RootIsRead(P)'
      BY <1>2, <2>1 DEF InputIsRead, RootIsRead
    <2>3. LibrariesAreRead'
      BY <1>2, <2>1 DEF InputIsRead, LibrariesAreRead, Accepted, Path
    <2>4. FilesAreRead'
      <3>1. \A n : Inserted(n)' <=> Inserted(n)
        BY <2>1, PathsStay
      <3>2. \A n : Left(input.files, n)' = Left(input.files, n)
        BY <2>1 DEF Left
      <3>3. FilesAreRead
        BY <1>2 DEF InputIsRead
      <3>4. Inserted(Len(input.files))' <=> Inserted(Len(input.files))
        BY <2>1 DEF Inserted, Accepted, Path
      <3>5. QED BY <2>1, <3>1, <3>2, <3>3, <3>4 DEF FilesAreRead
    <2>5. EntrypointsAreRead'
      <3>1. CASE step \in FromPresence
        BY <1>2, <2>1, <3>1, EntrypointsStay
           DEF InputIsRead, EntrypointsAreRead, FromPresence, FromMappings
      <3>2. CASE step = "entrypoints"
        <4>1. PICK n \in 0..Len(input.entrypoints) :
                /\ todo = Left(input.entrypoints, n)
                /\ \A i \in 1..n : Accepted(input.entrypoints[i])
                /\ roots = {Path(input.entrypoints[i]) : i \in 1..n}
          BY <1>2, <3>2 DEF InputIsRead, EntrypointsAreRead
        <4>2. /\ todo' = Left(input.entrypoints, n)' /\ n \in 0..Len(input'.entrypoints)
              /\ \A i \in 1..n : Accepted(input.entrypoints[i])'
              /\ roots' = {Path(input.entrypoints[i])' : i \in 1..n}
          BY <2>1, <4>1 DEF Accepted, Path, Left
        <4>3. QED
          BY <2>1, <3>2, <4>2 DEF EntrypointsAreRead, FromPresence, FromMappings
      <3>3. CASE step \notin FromPresence /\ step # "entrypoints"
        BY <1>2, <2>1, <3>3 DEF InputIsRead, EntrypointsAreRead, FromPresence, FromMappings
      <3>4. QED BY <3>1, <3>2, <3>3
    <2>6. MappingsAreRead'
      BY <1>2, <2>1 DEF InputIsRead, MappingsAreRead, Accepted, Path, Left
    <2>7. QED BY <2>2, <2>3, <2>4, <2>5, <2>6 DEF InputIsRead
  <1>3. InputIsRead(P) /\ [Next]_vars => InputIsRead(P)'
    <2> SUFFICES ASSUME InputIsRead(P), [Next]_vars PROVE InputIsRead(P)'
      OBVIOUS
    <2>1. CASE Validation!NormalizeRoot
      BY <2>1, RootKeeps
    <2>2. CASE Validation!NormalizeStdlib \/ Validation!NormalizeActon
      BY <2>2, LibraryKeeps
    <2>3. CASE Validation!InsertFile
      BY <2>3, InsertKeeps
    <2>4. CASE Validation!NoFiles
      BY <2>4, FailureKeeps DEF Validation!NoFiles, Validation!Fail
    <2>5. CASE Validation!FilesRead
      BY <2>5, FilesReadKeeps
    <2>6. CASE Validation!AddEntrypoint
      BY <2>6, EntrypointKeeps
    <2>7. CASE Validation!EntrypointsRead
      BY <2>7, EntrypointsReadKeeps
    <2>8. CASE Validation!CheckPresence
      BY <2>8, PresenceKeeps
    <2>9. CASE Validation!MapImport \/ Validation!BuildProject
      BY <2>9, MappingKeeps
    <2>10. CASE Validation!BuildFails
      BY <2>10, FailureKeeps DEF Validation!BuildFails, Validation!Fail
    <2>11. CASE UNCHANGED validation
      BY <2>11, <1>2
    <2>12. QED
      BY <2>1, <2>2, <2>3, <2>4, <2>5, <2>6, <2>7, <2>8, <2>9, <2>10, <2>11
         DEF Next, Validate, Uses, Validation!Next, vars
  <1>4. QED BY <1>1, <1>3, PTL DEF Spec

(* What is indexed are given files, the entrypoints among them. Nothing is    *)
(* done to a project once it is built.                                        *)
IndexIsRead == step = "built" => roots \subseteq indexed /\ indexed \subseteq files

THEOREM IndexRead == Spec => []IndexIsRead
PROOF
  <1>1. Init => IndexIsRead
    BY DEF Init, Validation!Init, IndexIsRead
  <1>2. IndexIsRead /\ [Next]_vars => IndexIsRead'
    <2> SUFFICES ASSUME IndexIsRead, [Next]_vars PROVE IndexIsRead'
      OBVIOUS
    <2>1. CASE Validation!NormalizeRoot
      BY <2>1 DEF Validation!NormalizeRoot, Validation!Fail, IndexIsRead
    <2>2. CASE Validation!NormalizeStdlib \/ Validation!NormalizeActon
      <3>1. step' \in {"failed", Validation!After(step)} /\ step \in {"stdlib", "acton"}
        BY <2>2
           DEF Validation!NormalizeStdlib, Validation!NormalizeActon, Validation!NormalizeLibrary,
               Validation!Fail
      <3>2. step' # "built"
        BY <3>1, StepsInOrder
      <3>3. QED BY <3>2 DEF IndexIsRead
    <2>3. CASE Validation!InsertFile \/ Validation!NoFiles \/ Validation!FilesRead
      BY <2>3
         DEF Validation!InsertFile, Validation!NoFiles, Validation!FilesRead, Validation!Fail,
             IndexIsRead
    <2>4. CASE Validation!AddEntrypoint \/ Validation!EntrypointsRead \/ Validation!CheckPresence
      BY <2>4
         DEF Validation!AddEntrypoint, Validation!EntrypointsRead, Validation!CheckPresence,
             Validation!Fail, IndexIsRead
    <2>5. CASE Validation!MapImport \/ Validation!BuildFails
      BY <2>5 DEF Validation!MapImport, Validation!BuildFails, Validation!Fail, IndexIsRead
    <2>6. CASE Validation!BuildProject
      BY <2>6 DEF Validation!BuildProject, IndexIsRead
    <2>7. CASE UNCHANGED validation
      BY <2>7 DEF validation, IndexIsRead
    <2>8. QED
      BY <2>1, <2>2, <2>3, <2>4, <2>5, <2>6, <2>7
         DEF Next, Validate, Uses, Validation!Next, vars
  <1>3. QED BY <1>1, <1>2, PTL DEF Spec

(* To the facade no two files of an accepted input are one, each spelling     *)
(* names the file it named to the analyzer, if that was indexed, and each     *)
(* indexed file and each entrypoint is found.                                 *)
THEOREM IndexedFilesFound ==
  ASSUME NEW P, InputsAreSpelled(P)
  PROVE  Spec => []IndexedFilesAreFound
PROOF
  <1>1. ASSUME InputIsRead(P), IndexIsRead, step = "built"
        PROVE  Validation!IndexedFilesAreFound
    <2>1. /\ Inserted(Len(input.files)) /\ root \in Seq(P)
          /\ \A i \in 1..Len(input.entrypoints) : Accepted(input.entrypoints[i])
          /\ input.entrypoints # <<>> => roots = Entrypoints
      BY <1>1 DEF InputIsRead, FilesAreRead, EntrypointsAreRead, RootIsRead, FromStdlib,
         FromActon, FromFiles, FromEntrypoints, FromPresence, FromMappings
    <2>2. /\ input.files \in Seq(SpelledWith(P)) /\ input.entrypoints \in Seq(SpelledWith(P))
          /\ DOMAIN input.files = 1..Len(input.files)
          /\ DOMAIN input.entrypoints = 1..Len(input.entrypoints)
      BY <1>1, InputTyped DEF InputIsRead
    <2>3. \A i \in 1..Len(input.files) :
            Validation!LookupPath(root, input.files[i]) = Path(input.files[i])
      BY <2>1, <2>2, AcceptedIsFound DEF Inserted, Accepted, Path
    <2>4. \A i \in 1..Len(input.entrypoints) :
            Validation!LookupPath(root, input.entrypoints[i]) = Path(input.entrypoints[i])
      BY <2>1, <2>2, AcceptedIsFound DEF Accepted, Path
    <2>5. \A i, j \in 1..Len(input.files) :
            Validation!LookupPath(root, input.files[i])
              = Validation!LookupPath(root, input.files[j]) => i = j
      BY <2>1, <2>3 DEF Inserted
    <2>6. \A i \in 1..Len(input.files) :
            Validation!FileAt(input.files[i])
              = {Validation!LogicalPath(root, input.files[i])} \intersect indexed
      BY <2>3 DEF Validation!FileAt, Path
    <2>7. ASSUME NEW path \in indexed
          PROVE  \E i \in 1..Len(input.files) : Validation!FileAt(input.files[i]) = {path}
      <3>1. path \in files
        BY <1>1, <2>7 DEF IndexIsRead
      <3>2. PICK i \in 1..Len(input.files) : path = Path(input.files[i])
        BY <2>1, <3>1 DEF Inserted
      <3>3. Validation!FileAt(input.files[i]) = {path}
        BY <2>3, <2>7, <3>2 DEF Validation!FileAt
      <3>4. QED BY <3>3
    <2>8. ASSUME NEW i \in 1..Len(input.entrypoints)
          PROVE  Validation!FileAt(input.entrypoints[i]) # {}
      <3>1. input.entrypoints # <<>>
        BY <2>2, <2>8
      <3>2. Path(input.entrypoints[i]) \in indexed
        BY <1>1, <2>1, <2>8, <3>1 DEF IndexIsRead, Entrypoints
      <3>3. QED BY <2>4, <2>8, <3>2 DEF Validation!FileAt
    <2>9. QED BY <2>2, <2>5, <2>6, <2>7, <2>8 DEF Validation!IndexedFilesAreFound
  <1>2. InputIsRead(P) /\ IndexIsRead => IndexedFilesAreFound
    BY <1>1 DEF IndexedFilesAreFound, Validation!IndexedFilesAreFound
  <1>3. QED BY <1>2, InputRead, IndexRead, PTL

(* The analysis starts from given files, and where it chooses them itself     *)
(* from none that lies in a library, however the library's root is spelled.   *)
THEOREM RootsAreOwn ==
  ASSUME NEW P, InputsAreSpelled(P)
  PROVE  Spec => []RootsAreOwnFiles
PROOF
  <1>1. ASSUME InputIsRead(P), step = "built" PROVE RootsAreOwnFiles
    <2> USE DEF FromStdlib, FromActon, FromFiles, FromEntrypoints, FromPresence, FromMappings
    <2>1. root \in Seq(P)
      BY <1>1 DEF InputIsRead, RootIsRead
    <2>2. /\ roots # {} /\ roots \subseteq files
          /\ input.entrypoints = <<>> => roots = Validation!DefaultRoots
      BY <1>1 DEF InputIsRead, EntrypointsAreRead
    <2>3. ASSUME NEW library \in {input.stdlib, input.acton} \ {Missing}
          PROVE  Validation!LookupPath(root, library) \in libraries
      <3>1. library \in SpelledWith(P)
        BY <1>1, InputTyped DEF InputIsRead
      <3>2. Accepted(library) /\ Path(library) \in libraries
        BY <1>1 DEF InputIsRead, LibrariesAreRead
      <3>3. Validation!LookupPath(root, library) = Path(library)
        BY <2>1, <3>1, <3>2, AcceptedIsFound DEF Accepted, Path
      <3>4. QED BY <3>2, <3>3
    <2>4. ASSUME input.entrypoints = <<>>, NEW path \in roots,
                 NEW library \in {input.stdlib, input.acton} \ {Missing}
          PROVE  ~ Validation!IsPrefix(Validation!LookupPath(root, library), path)
      BY <2>2, <2>3, <2>4 DEF Validation!DefaultRoots
    <2>5. QED BY <2>2, <2>4 DEF RootsAreOwnFiles, Validation!RootsAreOwnFiles
  <1>2. InputIsRead(P) => RootsAreOwnFiles
    BY <1>1 DEF RootsAreOwnFiles, Validation!RootsAreOwnFiles
  <1>3. QED BY <1>2, InputRead, PTL

(* An input is accepted only if none of its paths is blank or climbs above    *)
(* the file system in any of its parts.                                       *)
THEOREM IllegalRefused ==
  ASSUME NEW P, InputsAreSpelled(P)
  PROVE  Spec => []IllegalPathsAreRefused
PROOF
  <1>1. ASSUME InputIsRead(P), step = "built" PROVE IllegalPathsAreRefused
    <2> USE DEF FromStdlib, FromActon, FromFiles, FromEntrypoints, FromPresence, FromMappings
    <2>1. /\ root = Validation!LogicalPath(Validation!FileSystemRoot, input.root)
          /\ root \in Seq(P)
      BY <1>1 DEF InputIsRead, RootIsRead
    <2>2. /\ input.root \in SpelledWith(P) /\ Refused \notin Seq(P) /\ <<>> \in Seq(P)
          /\ input.files \in Seq(SpelledWith(P)) /\ input.entrypoints \in Seq(SpelledWith(P))
          /\ input.mappings \in Seq(SpelledWith(P))
          /\ {input.stdlib, input.acton} \ {Missing} \subseteq SpelledWith(P)
      BY <1>1, InputTyped DEF InputIsRead
    <2>3. ~ Validation!Illegal(Validation!FileSystemRoot, input.root)
      BY <2>1, <2>2, AcceptedIsFound DEF Validation!FileSystemRoot
    <2>4. ASSUME NEW s \in Validation!Spellings(input) PROVE s \in SpelledWith(P) /\ Accepted(s)
      <3>1. CASE s \in Validation!ToSet(input.files)
        <4>1. PICK i \in 1..Len(input.files) : s = input.files[i]
          BY <2>2, <3>1 DEF Validation!ToSet
        <4>2. QED BY <1>1, <2>2, <4>1 DEF InputIsRead, FilesAreRead, Inserted
      <3>2. CASE s \in Validation!ToSet(input.entrypoints)
        <4>1. PICK i \in 1..Len(input.entrypoints) : s = input.entrypoints[i]
          BY <2>2, <3>2 DEF Validation!ToSet
        <4>2. QED BY <1>1, <2>2, <4>1 DEF InputIsRead, EntrypointsAreRead
      <3>3. CASE s \in Validation!ToSet(input.mappings)
        <4>1. PICK i \in 1..Len(input.mappings) : s = input.mappings[i]
          BY <2>2, <3>3 DEF Validation!ToSet
        <4>2. QED BY <1>1, <2>2, <4>1 DEF InputIsRead, MappingsAreRead
      <3>4. CASE s \in {input.stdlib, input.acton} \ {Missing}
        BY <1>1, <2>2, <3>4 DEF InputIsRead, LibrariesAreRead
      <3>5. QED BY <3>1, <3>2, <3>3, <3>4 DEF Validation!Spellings
    <2>5. \A s \in Validation!Spellings(input) : ~ Validation!Illegal(root, s)
      BY <2>1, <2>4, AcceptedIsFound DEF Accepted, Path
    <2>6. QED BY <2>3, <2>5 DEF IllegalPathsAreRefused, Validation!IllegalPathsAreRefused
  <1>2. InputIsRead(P) => IllegalPathsAreRefused
    BY <1>1 DEF IllegalPathsAreRefused, Validation!IllegalPathsAreRefused
  <1>3. QED BY <1>2, InputRead, PTL
-----------------------------------------------------------------------------
(* What is computed for a node from its parent's value, on a branch that ends *)
(* at the stops.                                                              *)
FromParents(h, V, n, parent, stops, base, move) ==
  /\ h \in [1..n -> V]
  /\ \A id \in 1..n : h[id] = IF id \in stops THEN base[id] ELSE move[id][h[parent[id]]]

(* A recursion over the parents of such a tree has a value at every node.     *)
LEMMA ParentRecursion ==
  ASSUME NEW V, NEW n \in Nat, NEW parent \in [1..n -> Nat],
         \A id \in 2..n : parent[id] \in 1..(id - 1),
         NEW stops \in SUBSET (1..n), n # 0 => 1 \in stops,
         NEW base \in [1..n -> V], NEW move \in [1..n -> [V -> V]]
  PROVE  \E h : FromParents(h, V, n, parent, stops, base, move)
PROOF
  <1> DEFINE Value(h, id) == IF id \in stops THEN base[id] ELSE move[id][h[parent[id]]]
             Computes(h, m) == h \in [1..m -> V] /\ \A id \in 1..m : h[id] = Value(h, id)
             Bad == {m \in 0..n : ~ \E h : Computes(h, m)}
  <1>1. 0 \notin Bad
    <2>1. Computes([id \in 1..0 |-> base[id]], 0)
      OBVIOUS
    <2>2. QED BY <2>1
  <1>2. ASSUME NEW m \in 0..n, m # n, m \notin Bad PROVE m + 1 \notin Bad
    <2>1. PICK h : Computes(h, m)
      BY <1>2
    <2> DEFINE g == [id \in 1..(m + 1) |-> IF id <= m THEN h[id] ELSE Value(h, m + 1)]
    <2>2. m + 1 \in 1..n /\ m \in Nat
      BY <1>2
    <2>3. ASSUME NEW id \in 1..(m + 1), id \notin stops PROVE parent[id] \in 1..m /\ parent[id] < id
      <3>1. id \in 2..n /\ id <= m + 1
        BY <2>2, <2>3
      <3>2. parent[id] \in 1..(id - 1)
        BY <3>1
      <3>3. QED BY <2>2, <3>1, <3>2
    <2>4. Value(h, m + 1) \in V
      <3>1. CASE m + 1 \in stops
        BY <2>2, <3>1
      <3>2. CASE m + 1 \notin stops
        <4>1. h[parent[m + 1]] \in V
          BY <2>1, <2>2, <2>3, <3>2
        <4>2. QED BY <2>2, <3>2, <4>1
      <3>3. QED BY <3>1, <3>2
    <2>5. g \in [1..(m + 1) -> V]
      BY <2>1, <2>2, <2>4
    <2>6. ASSUME NEW id \in 1..(m + 1) PROVE g[id] = Value(g, id)
      <3>1. g[id] = Value(h, id)
        <4>1. CASE id <= m
          BY <2>1, <2>2, <4>1
        <4>2. CASE ~ (id <= m)
          <5>1. id = m + 1
            BY <2>2, <4>2
          <5>2. QED BY <4>2, <5>1
        <4>3. QED BY <4>1, <4>2
      <3>2. id \notin stops => g[parent[id]] = h[parent[id]]
        BY <2>2, <2>3
      <3>3. QED BY <3>1, <3>2
    <2>7. Computes(g, m + 1)
      <3> HIDE DEF g
      <3>1. QED BY <2>5, <2>6
    <2>8. QED
      <3> HIDE DEF g, Computes
      <3>1. QED BY <2>7
  <1>3. Bad = {}
    <2>1. ASSUME Bad # {} PROVE FALSE
      <3>1. PICK m \in Bad : \A k \in Bad : m <= k
        <4>1. Bad \in SUBSET Nat
          OBVIOUS
        <4> HIDE DEF Bad
        <4>2. QED BY <2>1, <4>1, LeastNatural
      <3>2. m \in 0..n
        OBVIOUS
      <3> HIDE DEF Bad
      <3>3. m # 0
        BY <1>1
      <3>4. m - 1 \in 0..n /\ m - 1 # n /\ (m - 1) + 1 = m /\ ~ (m <= m - 1)
        BY <3>2, <3>3
      <3>5. m - 1 \notin Bad
        BY <3>1, <3>4
      <3>6. QED BY <1>2, <3>1, <3>4, <3>5
    <2>2. QED BY <2>1
  <1>4. \E h : Computes(h, n)
    <2>1. n \in 0..n
      OBVIOUS
    <2>2. n \notin Bad
      <3> HIDE DEF Bad
      <3>1. QED BY <1>3
    <2>3. QED BY <2>1, <2>2
  <1>5. QED BY <1>4 DEF FromParents

(* The nodes above a node, which come before it.                              *)
LEMMA AncestorsAreAbove ==
  ASSUME NEW n \in Nat \ {0}, snapshot.parent \in [1..n -> Nat],
         \A id \in 2..n : snapshot.parent[id] \in 1..(id - 1)
  PROVE  /\ Use!Ancestors[1] = {}
         /\ \A id \in 2..n : Use!Ancestors[id]
                = {snapshot.parent[id]} \union Use!Ancestors[snapshot.parent[id]]
         /\ \A id \in 1..n : Use!Ancestors[id] \subseteq 1..(id - 1)
PROOF
  <1> DEFINE parent == snapshot.parent
             move == [id \in 1..n |-> [above \in SUBSET Nat |-> {parent[id]} \union above]]
             base == [id \in 1..n |-> {}]
  <1>1. PICK h : FromParents(h, SUBSET Nat, n, parent, {1}, base, move)
    <2>1. base \in [1..n -> SUBSET Nat] /\ move \in [1..n -> [SUBSET Nat -> SUBSET Nat]]
      OBVIOUS
    <2>2. {1} \in SUBSET (1..n) /\ 1 \in {1} /\ n \in Nat
      OBVIOUS
    <2> HIDE DEF base, move
    <2>3. QED BY <2>1, <2>2, ParentRecursion
  <1>2. h \in [1..n -> SUBSET Nat]
    BY <1>1 DEF FromParents
  <1>3. \A id \in 1..n : h[id] = IF id = 1 THEN {} ELSE {parent[id]} \union h[parent[id]]
    <2>1. ASSUME NEW id \in 1..n, id # 1 PROVE h[id] = {parent[id]} \union h[parent[id]]
      <3>1. parent[id] \in 1..n
        <4>1. id \in 2..n
          BY <2>1
        <4>2. parent[id] \in 1..(id - 1)
          BY <4>1
        <4>3. QED BY <4>1, <4>2
      <3>2. h[parent[id]] \in SUBSET Nat
        BY <1>2, <3>1
      <3>3. h[id] = move[id][h[parent[id]]]
        BY <1>1, <2>1 DEF FromParents
      <3>4. QED BY <3>2, <3>3
    <2>2. h[1] = {}
      <3>1. 1 \in 1..n /\ base[1] = {}
        OBVIOUS
      <3> HIDE DEF base, move
      <3>2. QED BY <1>1, <3>1 DEF FromParents
    <2>3. QED BY <2>1, <2>2
  <1> DEFINE Solves(f) == f = [id \in Use!Ids |->
               IF id = Use!Root THEN {} ELSE {snapshot.parent[id]} \union f[snapshot.parent[id]]]
  <1>4. Use!Ids = 1..n /\ Use!Root = 1
    BY DEF Use!Ids, Use!Root
  <1>5. Solves(h)
    BY <1>2, <1>3, <1>4
  <1>6. Use!Ancestors = CHOOSE f : Solves(f)
    BY DEF Use!Ancestors
  <1>7. Solves(Use!Ancestors)
    <2> HIDE DEF Solves
    <2>1. QED BY <1>5, <1>6
  <1>8. \A id \in 1..n : Use!Ancestors[id]
          = IF id = 1 THEN {} ELSE {parent[id]} \union Use!Ancestors[parent[id]]
    BY <1>4, <1>7
  <1>9. \A id \in 1..n : Use!Ancestors[id] \subseteq 1..(id - 1)
    <2> DEFINE Bad == {id \in 1..n : ~ (Use!Ancestors[id] \subseteq 1..(id - 1))}
    <2>1. ASSUME Bad # {} PROVE FALSE
      <3>1. PICK id \in Bad : \A other \in Bad : id <= other
        <4>1. Bad \in SUBSET Nat
          OBVIOUS
        <4> HIDE DEF Bad
        <4>2. QED BY <2>1, <4>1, LeastNatural
      <3>2. id \in 1..n /\ ~ (Use!Ancestors[id] \subseteq 1..(id - 1))
        OBVIOUS
      <3>3. id \in 2..n
        <4>1. id # 1
          BY <1>8, <3>2
        <4>2. QED BY <3>2, <4>1
      <3>4. parent[id] \in 1..(id - 1)
        BY <3>3
      <3>5. parent[id] \in 1..n /\ ~ (id <= parent[id])
        BY <3>3, <3>4
      <3>6. parent[id] \notin Bad
        BY <3>1, <3>5
      <3>7. Use!Ancestors[parent[id]] \subseteq 1..(parent[id] - 1)
        BY <3>5, <3>6
      <3>8. 1..(parent[id] - 1) \subseteq 1..(id - 1)
        BY <3>3, <3>4
      <3>9. Use!Ancestors[id] = {parent[id]} \union Use!Ancestors[parent[id]]
        BY <1>8, <3>2, <3>3
      <3>10. QED BY <3>2, <3>4, <3>7, <3>8, <3>9
    <2>2. QED BY <2>1
  <1>10. 1 \in 1..n /\ \A id \in 2..n : id \in 1..n /\ id # 1
    OBVIOUS
  <1>11. QED BY <1>8, <1>9, <1>10

(* What symbolFor may answer for a node: the nearest symbol at or above it,   *)
(* None where there is no symbol, or a throw if its owner is not active.      *)
Around(id) == {id} \union Use!Ancestors[id]
Nearest(id, answer, owner) ==
  LET symbols == Around(id) \intersect snapshot.symbols
  IN \/ answer = None /\ symbols = {}
     \/ answer \in symbols /\ \A s \in symbols : s <= answer
     \/ answer = Threw /\ ~ Use!Active(owner)

(* The walk up the parents finds it.                                          *)
LEMMA ClimbFinds ==
  ASSUME NEW n \in Nat \ {0}, snapshot.parent \in [1..n -> Nat],
         \A id \in 2..n : snapshot.parent[id] \in 1..(id - 1),
         NEW p, NEW owner, nodes[p] # {}, Use!Active(owner) => nodes[owner] = 1..n
  PROVE  \A id \in 1..n : Nearest(id, Use!Climb(p, owner)[id], owner)
PROOF
  <1> DEFINE parent == snapshot.parent
             Found == {id \in 1..n : id \in snapshot.symbols}
             Ends == {id \in 1..n : \/ id \in Found
                                    \/ id = 1
                                    \/ ~ Use!Active(owner)
                                    \/ parent[id] \notin nodes[owner]}
             V == Nat \union {None, Threw}
             base == [id \in 1..n |-> IF id \in Found THEN id
                                      ELSE IF id = 1 THEN None
                                      ELSE IF ~ Use!Active(owner) THEN Threw ELSE None]
             move == [id \in 1..n |-> [answer \in V |-> answer]]
             climb == Use!Climb(p, owner)
  <1>1. PICK h : FromParents(h, V, n, parent, Ends, base, move)
    <2>1. base \in [1..n -> V] /\ move \in [1..n -> [V -> V]]
      OBVIOUS
    <2>2. Ends \in SUBSET (1..n) /\ 1 \in Ends /\ n \in Nat
      OBVIOUS
    <2> HIDE DEF base, move, V, Ends
    <2>3. QED BY <2>1, <2>2, ParentRecursion
  <1>2. h \in [1..n -> V]
    BY <1>1 DEF FromParents
  <1>3. \A id \in 2..n : parent[id] \in 1..n /\ parent[id] < id
    <2>1. ASSUME NEW id \in 2..n PROVE parent[id] \in 1..n /\ parent[id] < id
      <3>1. parent[id] \in 1..(id - 1)
        OBVIOUS
      <3>2. QED BY <3>1
    <2>2. QED BY <2>1
  <1> DEFINE Body(f, id) ==
               IF Use!SymbolOfNode(p, id) THEN id
               ELSE IF id = Use!Root THEN None
               ELSE IF ~ Use!Active(owner) THEN Threw
               ELSE IF snapshot.parent[id] \notin nodes[owner] THEN None
               ELSE f[snapshot.parent[id]]
             Solves(f) == f = [id \in Use!Ids |-> Body(f, id)]
  <1>4. Use!Ids = 1..n /\ Use!Root = 1 /\ \A id : Use!SymbolOfNode(p, id) <=> id \in snapshot.symbols
    BY DEF Use!Ids, Use!Root, Use!SymbolOfNode
  <1>5. ASSUME NEW id \in 1..n PROVE h[id] = Body(h, id)
    <2>1. CASE id \in Ends
      <3>1. h[id] = base[id]
        <4> HIDE DEF base, move, V, Ends
        <4>1. QED BY <1>1, <2>1 DEF FromParents
      <3>2. base[id] = Body(h, id)
        BY <1>4, <2>1
      <3>3. QED BY <3>1, <3>2
    <2>2. CASE id \notin Ends
      <3>1. id \in 2..n
        BY <2>2
      <3>2. h[parent[id]] \in V
        BY <1>2, <1>3, <3>1
      <3>3. h[id] = move[id][h[parent[id]]]
        <4> HIDE DEF base, move, V, Ends
        <4>1. QED BY <1>1, <2>2 DEF FromParents
      <3>4. h[id] = h[parent[id]]
        BY <3>2, <3>3
      <3>5. Body(h, id) = h[parent[id]]
        BY <1>4, <2>2
      <3>6. QED BY <3>4, <3>5
    <2>3. QED BY <2>1, <2>2
  <1>6. Solves(h)
    <2> HIDE DEF Body, V
    <2>1. h = [id \in 1..n |-> Body(h, id)]
      BY <1>2, <1>5
    <2>2. QED BY <1>4, <2>1
  <1>7. climb = CHOOSE f : Solves(f)
    BY DEF Use!Climb
  <1>8. Solves(climb)
    <2> HIDE DEF Solves, climb
    <2>1. QED BY <1>6, <1>7
  <1>9. \A id \in 1..n : climb[id] = Body(climb, id)
    <2> HIDE DEF Body, climb
    <2>1. QED BY <1>4, <1>8
  <1> HIDE DEF climb
  <1> DEFINE Bad == {id \in 1..n : ~ Nearest(id, climb[id], owner)}
  <1>10. ASSUME NEW id \in 1..n, id \in snapshot.symbols PROVE id \notin Bad
    <2>1. climb[id] = id
      BY <1>4, <1>9, <1>10
    <2>2. Use!Ancestors[id] \subseteq 1..(id - 1)
      BY AncestorsAreAbove
    <2>3. QED BY <1>10, <2>1, <2>2 DEF Nearest, Around
  <1>11. 1 \notin snapshot.symbols => 1 \notin Bad
    <2>1. 1 \notin snapshot.symbols => climb[1] = None
      BY <1>4, <1>9
    <2>2. Use!Ancestors[1] = {}
      BY AncestorsAreAbove
    <2>3. QED BY <2>1, <2>2 DEF Nearest, Around
  <1>12. ASSUME NEW id \in 2..n, id \notin snapshot.symbols, id \in Bad PROVE parent[id] \in Bad
    <2>1. CASE ~ Use!Active(owner)
      <3>1. climb[id] = Threw
        <4>1. id \in 1..n /\ id # 1
          OBVIOUS
        <4>2. climb[id] = Body(climb, id)
          <5> HIDE DEF Body
          <5>1. QED BY <1>9, <4>1
        <4>3. ~ Use!SymbolOfNode(p, id) /\ id # Use!Root
          BY <1>4, <1>12, <4>1
        <4>4. QED BY <2>1, <4>2, <4>3
      <3>2. QED BY <1>12, <2>1, <3>1 DEF Nearest
    <2>2. CASE Use!Active(owner)
      <3>1. parent[id] \in nodes[owner]
        BY <1>3, <2>2
      <3>2. climb[id] = climb[parent[id]]
        BY <1>4, <1>9, <1>12, <2>2, <3>1
      <3>3. Use!Ancestors[id] = {parent[id]} \union Use!Ancestors[parent[id]]
        BY AncestorsAreAbove
      <3>4. Around(id) \intersect snapshot.symbols = Around(parent[id]) \intersect snapshot.symbols
        BY <1>12, <3>3 DEF Around
      <3>5. Nearest(parent[id], climb[parent[id]], owner) => Nearest(id, climb[id], owner)
        BY <3>2, <3>4 DEF Nearest
      <3>6. QED BY <1>3, <1>12, <3>5
    <2>3. QED BY <2>1, <2>2
  <1>13. ASSUME Bad # {} PROVE FALSE
    <2>1. PICK id \in Bad : \A other \in Bad : id <= other
      <3>1. Bad \in SUBSET Nat
        OBVIOUS
      <3> HIDE DEF Bad
      <3>2. QED BY <1>13, <3>1, LeastNatural
    <2>2. id \in 1..n
      OBVIOUS
    <2> HIDE DEF Bad
    <2>3. id \notin snapshot.symbols /\ id # 1
      BY <1>10, <1>11, <2>2
    <2>4. id \in 2..n
      BY <2>2, <2>3
    <2>5. parent[id] \in Bad /\ parent[id] \in 1..n /\ parent[id] < id
      BY <1>3, <1>12, <2>3, <2>4
    <2>6. QED BY <2>1, <2>2, <2>5
  <1>14. QED BY <1>13 DEF climb

(* What the facade holds: the snapshot it was given, and of each project what *)
(* opening and disposing of it leave.                                         *)
FacadeIsWhole ==
  /\ snapshot \in Snapshots
  /\ status \in [Projects -> {"closed", "open", "disposed"}]
  /\ DOMAIN nodes = Projects
  /\ \A p \in Projects : status[p] = "open" => nodes[p] = Use!Ids

LEMMA FacadeStaysWhole ==
  ASSUME FacadeIsWhole, [Next]_vars
  PROVE  FacadeIsWhole'
PROOF
  <1>1. CASE UNCHANGED use
    BY <1>1 DEF FacadeIsWhole, use, Use!Ids
  <1>2. ASSUME NEW p \in Projects, Use!Open(p) PROVE FacadeIsWhole'
    <2> USE <1>2 DEF Use!Open
    <2>1. snapshot' = snapshot /\ Use!Ids' = Use!Ids
      BY DEF Use!Ids
    <2>2. nodes' = [nodes EXCEPT ![p] = Use!Ids] /\ status' = [status EXCEPT ![p] = "open"]
      OBVIOUS
    <2>3. \A q \in Projects : status'[q] = "open" => nodes'[q] = Use!Ids
      BY <2>2 DEF FacadeIsWhole
    <2>4. QED BY <2>1, <2>2, <2>3 DEF FacadeIsWhole
  <1>3. ASSUME NEW p \in Projects, Use!Dispose(p) PROVE FacadeIsWhole'
    <2> USE <1>3 DEF Use!Dispose
    <2>1. snapshot' = snapshot /\ Use!Ids' = Use!Ids
      BY DEF Use!Ids
    <2>2. nodes' = [nodes EXCEPT ![p] = {}] /\ status' = [status EXCEPT ![p] = "disposed"]
      OBVIOUS
    <2>3. \A q \in Projects : status'[q] = "open" => nodes'[q] = Use!Ids
      BY <2>2 DEF FacadeIsWhole
    <2>4. QED BY <2>1, <2>2, <2>3 DEF FacadeIsWhole
  <1>4. CASE UNCHANGED <<snapshot, status, nodes>>
    BY <1>4 DEF FacadeIsWhole, Use!Ids
  <1>5. QED
    BY <1>1, <1>2, <1>3, <1>4
       DEF Next, Validate, Uses, Use!Next, Use!Descendants, Use!CallNext, Use!InNext, Use!Expand,
           Use!Pop, Use!Exhausted, Use!AskSymbolFor, Use!Return, vars, use

(* A tree of n nodes, numbered in the order of the source.                    *)
TreeOf(n) ==
  LET parent == snapshot.parent
  IN /\ parent \in [1..n -> Nat] /\ parent[1] = 0
     /\ \A id \in 2..n : parent[id] \in 1..(id - 1)
     /\ \A id \in 2..n, other \in 1..n :
          parent[id] < other /\ other < id => parent[other] >= parent[id]

LEMMA TreeExists ==
  ASSUME FacadeIsWhole
  PROVE  \E n \in Nat \ {0} : TreeOf(n)
PROOF
  <1> DEFINE parent == snapshot.parent
             n == Len(parent)
  <1>1. SourceOrdered(parent)
    BY SnapshotsAssumption DEF FacadeIsWhole
  <1>2. parent \in [1..n -> Nat] /\ n \in Nat \ {0} /\ parent[1] = 0
    BY <1>1, EmptySeq DEF SourceOrdered
  <1>3. \A id \in 2..n : parent[id] \in 1..(id - 1)
    BY <1>1 DEF SourceOrdered
  <1>4. ASSUME NEW id \in 2..n, NEW other \in 1..n, parent[id] < other, other < id
        PROVE  parent[other] >= parent[id]
    <2>1. parent[id] \in Nat
      BY <1>2
    <2>2. other \in (parent[id] + 1)..(id - 1)
      BY <1>4, <2>1
    <2>3. QED BY <1>1, <2>2 DEF SourceOrdered
  <1>5. QED BY <1>2, <1>3, <1>4 DEF TreeOf

(* symbolFor answers the nearest symbol at or above the node, also for a node *)
(* of another project over the snapshot, or it throws and one of the two was  *)
(* disposed of.                                                               *)
THEOREM NearestIsFound == Spec => []SymbolForIsNearest
PROOF
  <1> DEFINE IInv == FacadeIsWhole /\ SymbolForIsNearest
  <1> USE DEF SymbolForIsNearest
  <1>1. Init => IInv
    BY DEF Init, Use!Init, FacadeIsWhole, Use!SymbolForIsNearest
  <1>2. ASSUME FacadeIsWhole, NEW p \in Projects, NEW owner \in Projects, NEW id \in Use!Ids,
               Use!AskSymbolFor(p, owner, id)
        PROVE  SymbolForIsNearest'
    <2>1. PICK n \in Nat \ {0} :
            /\ snapshot.parent \in [1..n -> Nat]
            /\ \A other \in 2..n : snapshot.parent[other] \in 1..(other - 1)
      BY <1>2, TreeExists DEF TreeOf
    <2>2. Use!Ids = 1..n /\ Use!Ids # {}
      BY <2>1 DEF Use!Ids
    <2>3. lookup' = [project |-> p, owner |-> owner, node |-> id, answer |-> Use!SymbolFor(p, owner, id)]
      BY <1>2 DEF Use!AskSymbolFor
    <2>4. UNCHANGED <<snapshot, status>> /\ Use!Ancestors' = Use!Ancestors
      BY <1>2 DEF Use!AskSymbolFor, Use!Ancestors, Use!Ids, Use!Root
    <2>5. Nearest(id, Use!SymbolFor(p, owner, id), owner)
            \/ (Use!SymbolFor(p, owner, id) = Threw /\ ~ Use!Active(p))
      <3>1. CASE Use!Active(p)
        <4>1. nodes[p] # {} /\ (Use!Active(owner) => nodes[owner] = 1..n)
          BY <1>2, <2>2, <3>1 DEF FacadeIsWhole, Use!Active
        <4>2. Nearest(id, Use!Climb(p, owner)[id], owner)
          BY <1>2, <2>1, <2>2, <4>1, ClimbFinds
        <4>3. QED BY <3>1, <4>2 DEF Use!SymbolFor
      <3>2. CASE ~ Use!Active(p)
        BY <3>2 DEF Use!SymbolFor
      <3>3. QED BY <3>1, <3>2
    <2>6. \A q \in {p, owner} : ~ Use!Active(q) => status[q] = "disposed"
      BY <1>2 DEF FacadeIsWhole, Use!Active, Use!AskSymbolFor
    <2>7. QED
      BY <2>3, <2>4, <2>5, <2>6 DEF Nearest, Around, Use!SymbolForIsNearest
  <1>3. ASSUME IInv, [Next]_vars PROVE IInv'
    <2>1. FacadeIsWhole'
      BY <1>3, FacadeStaysWhole
    <2>2. CASE lookup' = None
      BY <2>1, <2>2 DEF Use!SymbolForIsNearest
    <2>3. CASE UNCHANGED <<snapshot, status, lookup>>
      BY <1>3, <2>1, <2>3 DEF Use!SymbolForIsNearest, Use!Ancestors, Use!Ids, Use!Root
    <2>4. CASE \E p, owner \in Projects, id \in Use!Ids : Use!AskSymbolFor(p, owner, id)
      BY <1>2, <1>3, <2>1, <2>4
    <2>5. QED
      <3>1. CASE UNCHANGED use
        BY <2>1, <2>3, <3>1 DEF use
      <3>2. ASSUME NEW p \in Projects, Use!Open(p) \/ Use!Dispose(p) PROVE lookup' = None
        BY <3>2 DEF Use!Open, Use!Dispose, Use!Idle
      <3>3. ASSUME NEW i \in Iterators, Use!CallNext(i) \/ Use!InNext(i)
            PROVE  UNCHANGED <<snapshot, status, lookup>>
        BY <3>3 DEF Use!CallNext, Use!InNext, Use!Expand, Use!Pop, Use!Exhausted
      <3>4. ASSUME NEW i, NEW p, NEW origin, NEW wanted, Use!Descendants(i, p, origin, wanted)
            PROVE  UNCHANGED <<snapshot, status, lookup>>
        BY <3>4 DEF Use!Descendants
      <3>5. Use!Return => lookup' = None
        BY DEF Use!Return
      <3>6. QED
        BY <1>3, <2>1, <2>2, <2>3, <2>4, <3>1, <3>2, <3>3, <3>4, <3>5
           DEF Next, Validate, Uses, Use!Next, vars, use
  <1>4. IInv => SymbolForIsNearest
    OBVIOUS
  <1> HIDE DEF SymbolForIsNearest
  <1>5. QED BY <1>1, <1>3, <1>4, PTL DEF Spec
-----------------------------------------------------------------------------
(* A generator as it is stored.                                               *)
Generator ==
  [project: Projects, origin: Use!Ids, wanted: SUBSET Use!Ids,
   unexpanded: Use!Ids \union {None}, stack: Seq(Use!Ids), yielded: Seq(Use!Ids),
   state: {"suspended", "done", Threw}]

Below(id) == {x \in Use!Ids : id \in Use!Ancestors[x]}
Under(id) == {id} \union Below(id)
Elements(list) == {list[i] : i \in DOMAIN list}
Rising(list) == \A i, j \in DOMAIN list : i < j => list[i] < list[j]

(* What a generator has still to visit, and what it has visited.              *)
Pending(it) ==
  (IF it.unexpanded = None THEN {} ELSE Below(it.unexpanded))
    \union UNION {Under(it.stack[j]) : j \in DOMAIN it.stack}
Seen(it) == Below(it.origin) \ Pending(it)

(* The walk is in source order: each entry of the stack lies, with all below  *)
(* it, before the entries under it.                                           *)
StackIsNested(it) ==
  /\ \A j, k \in DOMAIN it.stack : j < k => \A x \in Under(it.stack[k]) : x < it.stack[j]
  /\ it.unexpanded # None => \A x \in Below(it.unexpanded), j \in DOMAIN it.stack : x < it.stack[j]

IterationStands(it) ==
  /\ it \in Generator
  /\ status[it.project] # "closed"
  /\ StackIsNested(it)
  /\ Pending(it) \subseteq Below(it.origin)
  /\ \A x \in Seen(it), y \in Pending(it) : x < y
  /\ Rising(it.yielded) /\ Elements(it.yielded) = it.wanted \intersect Seen(it)
  /\ it.state = "done" => Pending(it) = {}
  /\ it.state = Threw => status[it.project] = "disposed"

IterationsStand ==
  /\ DOMAIN iterator = Iterators
  /\ \A i \in Iterators : iterator[i] # None => IterationStands(iterator[i])
  /\ \A i \in Iterators :
       running = i => IterationStands(iterator[i]) /\ iterator[i].state = "suspended"

LEMMA UseSizesAgree == \A S : Use!Cardinality(S) = Cardinality(S)
BY DEF Use!Cardinality, Cardinality

LEMMA SubsetsOfIntervals ==
  ASSUME NEW m \in Nat, NEW S \in SUBSET (1..m)
  PROVE  IsFiniteSet(S) /\ Cardinality(S) \in Nat
PROOF
  <1>1. IsFiniteSet(1..m)
    BY FS_Interval
  <1>2. IsFiniteSet(S)
    BY <1>1, FS_Subset
  <1>3. QED BY <1>2, FS_CardinalityType

(* A finite set of numbers can be listed in order.                            *)
LEMMA RisingListExists ==
  ASSUME NEW m \in Nat, NEW S \in SUBSET (1..m)
  PROVE  \E list \in [1..Cardinality(S) -> S] : Rising(list)
PROOF
  <1> DEFINE Listed(T) == \E list \in [1..Cardinality(T) -> T] : Rising(list)
             Bad == {k \in Nat : \E T \in SUBSET (1..k) : ~ Listed(T)}
  <1>1. 0 \notin Bad
    <2>1. ASSUME NEW T \in SUBSET (1..0) PROVE Listed(T)
      <3>1. T = {} /\ Cardinality(T) = 0
        <4>1. T = {}
          OBVIOUS
        <4>2. IsFiniteSet({})
          BY FS_EmptySet
        <4>3. QED BY <4>1, <4>2, FS_EmptySet
      <3>2. <<>> \in [1..0 -> T] /\ Rising(<<>>)
        BY DEF Rising
      <3>3. QED BY <3>1, <3>2
    <2>2. QED BY <2>1
  <1>2. ASSUME NEW k \in Nat \ {0}, k - 1 \notin Bad PROVE k \notin Bad
    <2>1. ASSUME NEW T \in SUBSET (1..k) PROVE Listed(T)
      <3> DEFINE R == T \ {k}
      <3>1. R \in SUBSET (1..(k - 1)) /\ k - 1 \in Nat
        OBVIOUS
      <3>2. Listed(R)
        <4> HIDE DEF Listed, R
        <4>1. QED BY <1>2, <3>1
      <3>3. IsFiniteSet(R) /\ Cardinality(R) \in Nat
        BY <3>1, SubsetsOfIntervals
      <3>4. CASE k \notin T
        <4>1. R = T
          BY <3>4
        <4>2. QED BY <3>2, <4>1
      <3>5. CASE k \in T
        <4>1. T = R \union {k} /\ k \notin R
          BY <3>5
        <4>2. Cardinality(T) = Cardinality(R) + 1
          BY <3>3, <4>1, FS_AddElement
        <4>3. PICK list \in [1..Cardinality(R) -> R] : Rising(list)
          BY <3>2
        <4> DEFINE c == Cardinality(R)
                   longer == [i \in 1..(c + 1) |-> IF i <= c THEN list[i] ELSE k]
        <4> HIDE DEF R
        <4>4. longer \in [1..(c + 1) -> T]
          BY <3>3, <4>1
        <4>5. ASSUME NEW i \in 1..(c + 1), NEW j \in 1..(c + 1), i < j
              PROVE  longer[i] < longer[j]
          <5>1. i \in 1..c /\ longer[i] = list[i] /\ list[i] \in R
            BY <3>3, <4>5
          <5>2. CASE j \in 1..c
            BY <4>3, <4>5, <5>1, <5>2 DEF Rising
          <5>3. CASE j = c + 1
            <6>1. longer[j] = k
              BY <3>3, <5>3
            <6>2. list[i] \in 1..(k - 1)
              BY <3>1, <5>1
            <6>3. QED BY <5>1, <6>1, <6>2
          <5>4. QED BY <3>3, <4>5, <5>2, <5>3
        <4>6. Rising(longer)
          BY <4>5 DEF Rising
        <4> HIDE DEF longer
        <4>7. QED BY <4>2, <4>4, <4>6
      <3>6. QED BY <3>4, <3>5
    <2>2. QED BY <2>1
  <1>3. Bad = {}
    <2>1. ASSUME Bad # {} PROVE FALSE
      <3>1. PICK k \in Bad : \A other \in Bad : k <= other
        <4>1. Bad \in SUBSET Nat
          OBVIOUS
        <4> HIDE DEF Bad
        <4>2. QED BY <2>1, <4>1, LeastNatural
      <3>2. k \in Nat
        OBVIOUS
      <3> HIDE DEF Bad
      <3>3. k \in Nat \ {0}
        BY <1>1, <3>2
      <3>4. k - 1 \notin Bad
        BY <3>1, <3>3
      <3>5. QED BY <1>2, <3>3, <3>4
    <2>2. QED BY <2>1
  <1>4. m \notin Bad
    BY <1>3
  <1>5. Listed(S)
    <2> HIDE DEF Listed
    <2>1. QED BY <1>4
  <1>6. QED BY <1>5

(* One that is as long as the set leaves none of it out.                      *)
LEMMA RisingListIsWhole ==
  ASSUME NEW m \in Nat, NEW S \in SUBSET (1..m),
         NEW list \in [1..Cardinality(S) -> S], Rising(list)
  PROVE  list \in Seq(S) /\ Elements(list) = S
PROOF
  <1> DEFINE c == Cardinality(S)
  <1>1. IsFiniteSet(S) /\ c \in Nat
    BY SubsetsOfIntervals
  <1>2. list \in Seq(S) /\ Elements(list) \subseteq S
    BY <1>1 DEF Elements
  <1>3. ASSUME NEW x \in S, x \notin Elements(list) PROVE FALSE
    <2>1. list \in [1..c -> S \ {x}]
      BY <1>3 DEF Elements
    <2>2. IsFiniteSet(S \ {x}) /\ Cardinality(S \ {x}) = c - 1
      BY <1>1, <1>3, FS_RemoveElement
    <2>3. IsFiniteSet(1..c) /\ Cardinality(1..c) = c
      BY <1>1, FS_Interval
    <2>4. Cardinality(S \ {x}) < Cardinality(1..c)
      BY <1>1, <2>2, <2>3
    <2>5. \A i, j \in 1..c : i # j => list[i] # list[j]
      <3>1. ASSUME NEW i \in 1..c, NEW j \in 1..c, i < j PROVE list[i] # list[j]
        <4>1. list[i] < list[j]
          BY <3>1 DEF Rising
        <4>2. list[i] \in 1..m /\ list[j] \in 1..m
          <5>1. list[i] \in S /\ list[j] \in S
            OBVIOUS
          <5>2. QED BY <5>1
        <4>3. QED BY <4>1, <4>2
      <3>2. QED BY <1>1, <3>1
    <2> HIDE DEF c
    <2>6. \E i, j \in 1..c : i # j /\ list[i] = list[j]
      BY <2>1, <2>2, <2>3, <2>4, FS_PigeonHole
    <2>7. QED BY <2>5, <2>6
  <1>4. QED BY <1>2, <1>3

LEMMA InOrderFacts ==
  ASSUME NEW m \in Nat, NEW S \in SUBSET (1..m)
  PROVE  /\ Use!InOrder(S) \in Seq(S)
         /\ Rising(Use!InOrder(S)) /\ Elements(Use!InOrder(S)) = S
PROOF
  <1> DEFINE c == Cardinality(S)
  <1>1. Use!InOrder(S) = CHOOSE l \in [1..c -> S] : Rising(l)
    BY UseSizesAgree DEF Use!InOrder, Rising
  <1>2. \E l \in [1..c -> S] : Rising(l)
    BY RisingListExists
  <1>3. Use!InOrder(S) \in [1..c -> S] /\ Rising(Use!InOrder(S))
    <2> HIDE DEF c
    <2>1. QED BY <1>1, <1>2
  <1>4. QED BY <1>3, RisingListIsWhole

(* The beginning of the list of a set is known by its elements.               *)
LEMMA BeginningOfList ==
  ASSUME NEW m \in Nat, NEW S \in SUBSET (1..m), NEW list \in Seq(Nat), Rising(list),
         Elements(list) \subseteq S,
         \A x \in S, y \in Elements(list) : x < y => x \in Elements(list)
  PROVE  /\ Use!IsPrefix(list, Use!InOrder(S))
         /\ Elements(list) = S => list = Use!InOrder(S)
PROOF
  <1> DEFINE whole == Use!InOrder(S)
  <1>1. /\ whole \in Seq(S) /\ Rising(whole) /\ Elements(whole) = S
        /\ whole \in Seq(Nat) /\ Len(whole) \in Nat /\ DOMAIN whole = 1..Len(whole)
    <2>1. whole \in Seq(S) /\ Rising(whole) /\ Elements(whole) = S
      BY InOrderFacts
    <2> HIDE DEF whole
    <2>2. /\ Len(whole) \in Nat /\ DOMAIN whole = 1..Len(whole)
          /\ \A i \in 1..Len(whole) : whole[i] \in S
      BY <2>1
    <2>3. whole \in Seq(Nat)
      <3>1. \A i \in 1..Len(whole) : whole[i] \in Nat
        <4>1. \A y \in S : y \in Nat
          OBVIOUS
        <4>2. QED BY <2>2, <4>1
      <3>2. whole \in [1..Len(whole) -> Nat]
        BY <2>1, <2>2, <3>1
      <3>3. QED BY <2>2, <3>2
    <2>4. QED BY <2>1, <2>2, <2>3
  <1>2. Len(list) \in Nat /\ DOMAIN list = 1..Len(list) /\ \A k \in 1..Len(list) : list[k] \in Nat
    OBVIOUS
  <1> HIDE DEF whole
  <1> DEFINE Same(k) == k \in 1..Len(whole) /\ list[k] = whole[k]
             Bad == {k \in 1..Len(list) : ~ Same(k)}
  <1>3. ASSUME Bad # {} PROVE FALSE
    <2>1. PICK k \in Bad : \A other \in Bad : k <= other
      <3>1. Bad \in SUBSET Nat
        OBVIOUS
      <3> HIDE DEF Bad
      <3>2. QED BY <1>3, <3>1, LeastNatural
    <2>2. k \in 1..Len(list) /\ ~ Same(k)
      OBVIOUS
    <2>3. \A j \in 1..(k - 1) : Same(j)
      <3>1. ASSUME NEW j \in 1..(k - 1) PROVE Same(j)
        <4>1. j \in 1..Len(list) /\ ~ (k <= j)
          BY <1>2, <2>2
        <4> HIDE DEF Same
        <4>2. QED BY <2>1, <4>1
      <3>2. QED BY <3>1
    <2>4. PICK j \in 1..Len(whole) : list[k] = whole[j]
      <3>1. list[k] \in Elements(list)
        BY <1>2, <2>2 DEF Elements
      <3>2. list[k] \in Elements(whole)
        BY <1>1, <3>1
      <3>3. QED BY <1>1, <3>2 DEF Elements
    <2>5. ~ (j < k)
      <3>1. ASSUME j < k PROVE FALSE
        <4>1. j \in 1..(k - 1)
          BY <1>1, <2>2, <3>1
        <4>2. list[j] = list[k]
          BY <2>3, <2>4, <4>1
        <4>3. j \in 1..Len(list)
          BY <1>2, <2>2, <4>1
        <4>4. list[j] < list[k]
          BY <1>2, <2>2, <3>1, <4>3 DEF Rising
        <4>5. QED BY <1>2, <4>2, <4>3, <4>4
      <3>2. QED BY <3>1
    <2>6. j > k
      <3>1. j # k
        BY <2>2, <2>4
      <3>2. QED BY <1>1, <1>2, <2>2, <2>4, <2>5, <3>1
    <2>7. k \in 1..Len(whole) /\ whole[k] < whole[j]
      <3>1. k \in 1..Len(whole)
        BY <1>1, <1>2, <2>2, <2>4, <2>6
      <3>2. QED BY <1>1, <2>4, <2>6, <3>1 DEF Rising
    <2>8. whole[k] \in Elements(list)
      <3>1. whole[k] \in S /\ list[k] \in Elements(list) /\ whole[k] < list[k]
        BY <1>1, <1>2, <2>2, <2>4, <2>7 DEF Elements
      <3>2. QED BY <3>1
    <2>9. PICK i \in 1..Len(list) : list[i] = whole[k]
      BY <1>2, <2>8 DEF Elements
    <2>10. CASE i < k
      <3>1. Same(i)
        BY <1>2, <2>2, <2>3, <2>9, <2>10
      <3>2. whole[i] < whole[k]
        BY <1>1, <2>7, <2>10, <3>1 DEF Rising
      <3>3. whole[i] \in Nat /\ whole[i] = whole[k]
        BY <1>1, <2>9, <3>1
      <3>4. QED BY <3>2, <3>3
    <2>11. CASE i = k
      BY <2>2, <2>7, <2>9, <2>11
    <2>12. CASE i > k
      <3>1. list[k] < list[i]
        BY <1>2, <2>2, <2>9, <2>12 DEF Rising
      <3>2. list[k] \in Nat /\ list[i] \in Nat /\ list[i] < list[k]
        BY <1>2, <2>2, <2>4, <2>7, <2>9
      <3>3. QED BY <3>1, <3>2
    <2>13. QED BY <1>2, <2>2, <2>9, <2>10, <2>11, <2>12
  <1>4. \A k \in 1..Len(list) : k \in 1..Len(whole) /\ list[k] = whole[k]
    BY <1>3
  <1>5. Len(list) <= Len(whole)
    <2>1. CASE Len(list) = 0
      BY <1>1, <2>1
    <2>2. CASE Len(list) # 0
      <3>1. Len(list) \in 1..Len(list)
        BY <1>2, <2>2
      <3>2. Len(list) \in 1..Len(whole)
        BY <1>4, <3>1
      <3>3. QED BY <1>1, <3>2
    <2>3. QED BY <2>1, <2>2
  <1>6. Use!IsPrefix(list, whole)
    <2> DEFINE k == Len(list)
    <2>1. /\ SubSeq(list, 1, k) \in Seq(Nat) /\ Len(SubSeq(list, 1, k)) = k
          /\ \A i \in 1..k : SubSeq(list, 1, k)[i] = list[i]
      BY <1>2
    <2>2. /\ SubSeq(whole, 1, k) \in Seq(Nat) /\ Len(SubSeq(whole, 1, k)) = k
          /\ \A i \in 1..k : SubSeq(whole, 1, k)[i] = whole[i]
      BY <1>1, <1>2, <1>5
    <2>3. SubSeq(list, 1, k) = SubSeq(whole, 1, k)
      BY <1>2, <1>4, <2>1, <2>2, SeqEqual
    <2>4. QED BY <1>5, <2>3 DEF Use!IsPrefix
  <1>7. ASSUME Elements(list) = S PROVE list = whole
    <2>1. Len(list) = Len(whole)
      <3>1. ASSUME Len(list) < Len(whole) PROVE FALSE
        <4> DEFINE k == Len(list) + 1
        <4>1. k \in 1..Len(whole)
          BY <1>1, <1>2, <3>1
        <4>2. whole[k] \in Elements(list)
          BY <1>1, <1>7, <4>1
        <4>3. PICK i \in 1..Len(list) : list[i] = whole[k]
          BY <1>2, <4>2 DEF Elements
        <4>4. i < k /\ i \in 1..Len(whole) /\ whole[i] = whole[k]
          BY <1>2, <1>4, <4>3
        <4> HIDE DEF k
        <4>5. whole[i] \in Nat
          BY <1>1, <4>4
        <4>6. whole[i] < whole[k]
          BY <1>1, <4>1, <4>4 DEF Rising
        <4>7. QED BY <4>4, <4>5, <4>6
      <3>2. Len(list) \in Nat /\ Len(whole) \in Nat
        BY <1>1, <1>2
      <3>3. QED BY <1>5, <3>1, <3>2
    <2>2. QED BY <1>1, <1>4, <2>1, SeqEqual
  <1>8. QED BY <1>6, <1>7 DEF whole

LEMMA BelowFacts ==
  ASSUME NEW n \in Nat \ {0}, TreeOf(n)
  PROVE  /\ Use!Ids = 1..n
         /\ \A id \in 1..n : \A x \in Below(id) : x \in 1..n /\ x > id
         /\ \A id \in 1..n, x \in 1..n :
              x \in Below(id) <=> x # 1 /\ (snapshot.parent[x] = id \/ snapshot.parent[x] \in Below(id))
PROOF
  <1> DEFINE parent == snapshot.parent
  <1>1. Use!Ids = 1..n
    BY DEF Use!Ids, TreeOf
  <1>2. /\ Use!Ancestors[1] = {}
        /\ \A id \in 2..n : Use!Ancestors[id] = {parent[id]} \union Use!Ancestors[parent[id]]
        /\ \A id \in 1..n : Use!Ancestors[id] \subseteq 1..(id - 1)
    BY AncestorsAreAbove DEF TreeOf
  <1>3. ASSUME NEW id \in 1..n, NEW x \in Below(id) PROVE x \in 1..n /\ x > id
    <2>1. x \in 1..n /\ id \in Use!Ancestors[x]
      BY <1>1 DEF Below
    <2>2. id \in 1..(x - 1)
      BY <1>2, <2>1
    <2>3. QED BY <2>1, <2>2
  <1>4. ASSUME NEW id \in 1..n, NEW x \in 1..n
        PROVE  x \in Below(id) <=> x # 1 /\ (parent[x] = id \/ parent[x] \in Below(id))
    <2>1. CASE x = 1
      BY <1>2, <2>1 DEF Below
    <2>2. CASE x # 1
      <3>1. x \in 2..n
        BY <2>2
      <3>2. parent[x] \in 1..(x - 1)
        BY <3>1 DEF TreeOf
      <3>3. parent[x] \in 1..n
        BY <3>1, <3>2
      <3>4. x \in Below(id) <=> id \in Use!Ancestors[x]
        BY <1>1 DEF Below
      <3>5. parent[x] \in Below(id) <=> id \in Use!Ancestors[parent[x]]
        BY <1>1, <3>3 DEF Below
      <3>6. id \in Use!Ancestors[x] <=> id = parent[x] \/ id \in Use!Ancestors[parent[x]]
        BY <1>2, <3>1
      <3>7. QED BY <2>2, <3>4, <3>5, <3>6
    <2>3. QED BY <2>1, <2>2
  <1>5. QED BY <1>1, <1>3, <1>4

(* What lies below a node is what its children are and have below them, one   *)
(* child after the other.                                                     *)
LEMMA BelowByChildren ==
  ASSUME NEW n \in Nat \ {0}, TreeOf(n), NEW id \in 1..n
  PROVE  /\ Use!ChildIds(id) \subseteq Below(id)
         /\ Below(id) = UNION {Under(c) : c \in Use!ChildIds(id)}
         /\ \A c, d \in Use!ChildIds(id) : c < d => \A x \in Under(c) : x < d
PROOF
  <1> DEFINE parent == snapshot.parent
             children == Use!ChildIds(id)
  <1>1. /\ Use!Ids = 1..n
        /\ \A a \in 1..n : \A x \in Below(a) : x \in 1..n /\ x > a
        /\ \A a \in 1..n, x \in 1..n :
             x \in Below(a) <=> x # 1 /\ (parent[x] = a \/ parent[x] \in Below(a))
    BY BelowFacts
  <1>2. \A c : c \in children <=> c \in 1..n /\ parent[c] = id
    BY <1>1 DEF Use!ChildIds
  <1>3. \A x \in 2..n : parent[x] \in 1..n /\ parent[x] < x
    <2>1. ASSUME NEW x \in 2..n PROVE parent[x] \in 1..n /\ parent[x] < x
      <3>1. parent[x] \in 1..(x - 1)
        BY DEF TreeOf
      <3>2. QED BY <3>1
    <2>2. QED BY <2>1
  <1>4. \A c \in children : c \in 2..n /\ c \in Below(id)
    <2>1. ASSUME NEW c \in children PROVE c \in 2..n /\ c \in Below(id)
      <3>1. c \in 1..n /\ parent[c] = id /\ parent[1] = 0
        BY <1>2 DEF TreeOf
      <3>2. c # 1
        BY <3>1
      <3>3. QED BY <1>1, <3>1, <3>2
    <2>2. QED BY <2>1
  <1> HIDE DEF children
  <1>5. ASSUME NEW c \in children PROVE Under(c) \subseteq Below(id)
    <2> DEFINE Bad == {x \in Below(c) : x \notin Below(id)}
    <2>1. ASSUME Bad # {} PROVE FALSE
      <3>1. PICK x \in Bad : \A other \in Bad : x <= other
        <4>1. Bad \in SUBSET Nat
          BY <1>1, <1>4, <1>5
        <4> HIDE DEF Bad
        <4>2. QED BY <2>1, <4>1, LeastNatural
      <3>2. x \in Below(c) /\ x \notin Below(id) /\ x \in 1..n /\ c \in 1..n
        BY <1>1, <1>4, <1>5
      <3>3. x # 1 /\ (parent[x] = c \/ parent[x] \in Below(c))
        BY <1>1, <3>2
      <3>4. parent[x] \in 1..n /\ parent[x] < x
        BY <1>3, <3>2, <3>3
      <3>5. parent[x] \in Below(id)
        <4>1. CASE parent[x] = c
          BY <1>4, <1>5, <4>1
        <4>2. CASE parent[x] \in Below(c)
          <5>1. parent[x] \notin Bad
            <6> HIDE DEF Bad
            <6>1. ~ (x <= parent[x])
              BY <3>2, <3>4
            <6>2. QED BY <3>1, <6>1
          <5>2. QED BY <4>2, <5>1
        <4>3. QED BY <3>3, <4>1, <4>2
      <3>6. QED BY <1>1, <3>2, <3>3, <3>5
    <2>2. QED BY <1>4, <1>5, <2>1 DEF Under
  <1>6. ASSUME NEW x \in Below(id) PROVE \E c \in children : x \in Under(c)
    <2> DEFINE Bad == {y \in Below(id) : ~ \E c \in children : y \in Under(c)}
    <2>1. ASSUME Bad # {} PROVE FALSE
      <3>1. PICK y \in Bad : \A other \in Bad : y <= other
        <4>1. Bad \in SUBSET Nat
          BY <1>1
        <4> HIDE DEF Bad
        <4>2. QED BY <2>1, <4>1, LeastNatural
      <3>2. y \in Below(id) /\ ~ (\E c \in children : y \in Under(c)) /\ y \in 1..n
        BY <1>1
      <3>3. y # 1 /\ (parent[y] = id \/ parent[y] \in Below(id))
        BY <1>1, <3>2
      <3>4. parent[y] \in 1..n /\ parent[y] < y
        BY <1>3, <3>2, <3>3
      <3>5. parent[y] # id
        BY <1>2, <3>2 DEF Under
      <3>6. parent[y] \notin Bad
        <4> HIDE DEF Bad
        <4>1. ~ (y <= parent[y])
          BY <3>2, <3>4
        <4>2. QED BY <3>1, <4>1
      <3>7. PICK c \in children : parent[y] \in Under(c)
        BY <3>3, <3>5, <3>6
      <3>8. y \in Below(c)
        BY <1>1, <1>4, <3>2, <3>3, <3>7 DEF Under
      <3>9. QED BY <3>2, <3>8 DEF Under
    <2>2. QED BY <2>1
  <1>7. ASSUME NEW c \in children, NEW d \in children, c < d, NEW x \in Under(c) PROVE x < d
    <2> DEFINE Bad == {y \in Below(c) : ~ (y < d)}
    <2>1. c \in 2..n /\ d \in 2..n /\ parent[c] = id /\ parent[d] = id
      BY <1>2, <1>4
    <2>2. ASSUME Bad # {} PROVE FALSE
      <3>1. PICK y \in Bad : \A other \in Bad : y <= other
        <4>1. Bad \in SUBSET Nat
          BY <1>1, <2>1
        <4> HIDE DEF Bad
        <4>2. QED BY <2>2, <4>1, LeastNatural
      <3>2. y \in Below(c) /\ ~ (y < d) /\ y \in 1..n /\ y > c
        BY <1>1, <2>1
      <3>3. y # 1 /\ (parent[y] = c \/ parent[y] \in Below(c))
        BY <1>1, <2>1, <3>2
      <3>4. parent[y] \in 1..n /\ parent[y] < y /\ y \in 2..n
        BY <1>3, <3>2, <3>3
      <3>5. parent[y] >= c
        BY <1>1, <2>1, <3>3
      <3>6. parent[c] < c
        BY <1>3, <2>1
      <3>7. y # d
        BY <2>1, <3>4, <3>5, <3>6
      <3>8. parent[y] < d
        <4>1. CASE parent[y] = c
          BY <1>7, <4>1
        <4>2. CASE parent[y] \in Below(c)
          <5>1. parent[y] \notin Bad
            <6> HIDE DEF Bad
            <6>1. ~ (y <= parent[y])
              BY <3>2, <3>4
            <6>2. QED BY <3>1, <6>1
          <5>2. QED BY <4>2, <5>1
        <4>3. QED BY <3>3, <4>1, <4>2
      <3>9. parent[d] >= parent[y]
        <4>1. d < y
          BY <2>1, <3>2, <3>7
        <4>2. \A v \in 2..n, other \in 1..n :
                parent[v] < other /\ other < v => parent[other] >= parent[v]
          BY DEF TreeOf
        <4>3. y \in 2..n /\ d \in 1..n
          BY <2>1, <3>4
        <4> HIDE DEF parent
        <4>4. QED BY <3>8, <4>1, <4>2, <4>3
      <3>10. id \in Nat /\ id >= parent[y] /\ id < c
        BY <2>1, <3>6, <3>9
      <3>11. QED BY <2>1, <3>4, <3>5, <3>10
    <2>3. QED BY <1>7, <2>2 DEF Under
  <1>8. children \subseteq Below(id)
    BY <1>4
  <1>9. Below(id) = UNION {Under(c) : c \in children}
    BY <1>5, <1>6
  <1>10. QED BY <1>7, <1>8, <1>9 DEF children

(* Popping a node visits the next one in the order of the source.             *)
LEMMA PopStands ==
  ASSUME NEW n \in Nat \ {0}, TreeOf(n), NEW it, IterationStands(it),
         it.state = "suspended", it.unexpanded = None, it.stack # <<>>,
         NEW node, node = Use!Last(it.stack),
         NEW next, next = [it EXCEPT !.stack = Use!Front(@), !.unexpanded = node,
                             !.yielded = IF node \in it.wanted THEN Append(@, node) ELSE @]
  PROVE  IterationStands(next)
PROOF
  <1> DEFINE L == Len(it.stack)
             stack == it.stack
  <1>1. Use!Ids = 1..n /\ \A id \in 1..n : \A x \in Below(id) : x \in 1..n /\ x > id
    BY BelowFacts
  <1>2. it \in Generator
    BY DEF IterationStands, Generator
  <1>3. /\ stack \in Seq(Use!Ids) /\ L \in Nat /\ L >= 1 /\ DOMAIN stack = 1..L
        /\ \A j \in 1..L : stack[j] \in 1..n
    <2>1. stack \in Seq(Use!Ids)
      BY <1>2 DEF Generator
    <2>2. L \in Nat /\ DOMAIN stack = 1..L /\ \A j \in 1..L : stack[j] \in Use!Ids
      BY <2>1
    <2>3. L # 0
      BY <2>1, EmptySeq
    <2>4. QED BY <1>1, <2>1, <2>2, <2>3
  <1>4. node = stack[L] /\ node \in 1..n /\ node # None /\ node \in Nat
    <2>1. node = stack[L]
      BY DEF Use!Last
    <2>2. QED BY <1>3, <2>1, MarksAssumption
  <1>5. /\ next.stack = Use!Front(stack) /\ next.unexpanded = node
        /\ next.yielded = IF node \in it.wanted THEN Append(it.yielded, node) ELSE it.yielded
        /\ next.project = it.project /\ next.origin = it.origin /\ next.wanted = it.wanted
        /\ next.state = "suspended"
    BY <1>2 DEF Generator
  <1>6. /\ next.stack \in Seq(Use!Ids) /\ Len(next.stack) = L - 1 /\ DOMAIN next.stack = 1..(L - 1)
        /\ \A j \in 1..(L - 1) : next.stack[j] = stack[j]
    <2>1. next.stack = SubSeq(stack, 1, L - 1)
      BY <1>5 DEF Use!Front
    <2>2. /\ SubSeq(stack, 1, L - 1) \in Seq(Use!Ids) /\ Len(SubSeq(stack, 1, L - 1)) = L - 1
          /\ \A j \in 1..(L - 1) : SubSeq(stack, 1, L - 1)[j] = stack[j]
      BY <1>3, SubSeqProperties
    <2>3. next.stack \in Seq(Use!Ids) /\ Len(next.stack) = L - 1
      BY <2>1, <2>2
    <2>4. DOMAIN next.stack = 1..Len(next.stack)
      BY <2>3
    <2>5. QED BY <2>1, <2>2, <2>3, <2>4
  <1>7. Pending(it) = UNION {Under(stack[j]) : j \in 1..L}
    BY <1>3 DEF Pending
  <1>8. Pending(next) = Below(node) \union UNION {Under(stack[j]) : j \in 1..(L - 1)}
    <2>1. {Under(next.stack[j]) : j \in DOMAIN next.stack} = {Under(stack[j]) : j \in 1..(L - 1)}
      BY <1>6
    <2>2. QED BY <1>4, <1>5, <2>1 DEF Pending
  <1>9. \A j \in 1..(L - 1) : \A x \in Under(node) : x < stack[j]
    BY <1>3, <1>4 DEF IterationStands, StackIsNested
  <1>10. \A j \in 1..(L - 1) : \A x \in Under(stack[j]) : node < x
    <2>1. ASSUME NEW j \in 1..(L - 1), NEW x \in Under(stack[j]) PROVE node < x
      <3>1. stack[j] \in 1..n /\ j \in 1..L
        BY <1>3
      <3>2. x \in Nat /\ stack[j] <= x
        BY <1>1, <3>1 DEF Under
      <3>3. node < stack[j]
        BY <1>9 DEF Under
      <3>4. QED BY <1>4, <3>1, <3>2, <3>3
    <2>2. QED BY <2>1
  <1>11. Pending(it) = {node} \union Pending(next) /\ node \notin Pending(next)
    <2>1. Pending(it) = Under(node) \union UNION {Under(stack[j]) : j \in 1..(L - 1)}
      <3>1. 1..L = 1..(L - 1) \union {L}
        BY <1>3
      <3>2. QED BY <1>4, <1>7, <3>1
    <2>2. node \notin Below(node)
      BY <1>1, <1>4
    <2>3. \A j \in 1..(L - 1) : node \notin Under(stack[j])
      <3>1. ~ (node < node)
        BY <1>4
      <3>2. QED BY <1>10, <3>1
    <2>4. QED BY <1>8, <2>1, <2>2, <2>3 DEF Under
  <1>12. \A y \in Pending(next) : node < y
    BY <1>1, <1>4, <1>8, <1>10
  <1>13. Pending(it) \subseteq Below(it.origin) /\ \A x \in Seen(it), y \in Pending(it) : x < y
    BY DEF IterationStands
  <1>14. Seen(next) = Seen(it) \union {node} /\ node \notin Seen(it)
    BY <1>5, <1>11, <1>13 DEF Seen
  <1>15. \A x \in Seen(next), y \in Pending(next) : x < y
    BY <1>11, <1>12, <1>13, <1>14
  <1>16. Rising(it.yielded) /\ Elements(it.yielded) = it.wanted \intersect Seen(it)
    BY DEF IterationStands
  <1>17. it.yielded \in Seq(Use!Ids) /\ Len(it.yielded) \in Nat /\ DOMAIN it.yielded = 1..Len(it.yielded)
    BY <1>2 DEF Generator
  <1>18. /\ next.yielded \in Seq(Use!Ids)
         /\ Rising(next.yielded) /\ Elements(next.yielded) = next.wanted \intersect Seen(next)
    <2>1. CASE node \notin it.wanted
      <3>1. next.yielded = it.yielded
        BY <1>5, <2>1
      <3>2. it.wanted \intersect Seen(next) = it.wanted \intersect Seen(it)
        BY <1>14, <2>1
      <3>3. QED BY <1>5, <1>16, <1>17, <3>1, <3>2
    <2>2. CASE node \in it.wanted
      <3> DEFINE old == it.yielded
                 new == Append(old, node)
                 M == Len(old)
      <3>1. next.yielded = new
        BY <1>5, <2>2
      <3>2. /\ new \in Seq(Use!Ids) /\ Len(new) = M + 1 /\ DOMAIN new = 1..(M + 1)
            /\ \A i \in 1..M : new[i] = old[i]
            /\ new[M + 1] = node
        BY <1>1, <1>4, <1>17
      <3> HIDE DEF new, old, M
      <3>3. M \in Nat /\ DOMAIN old = 1..M /\ Rising(old) /\ Elements(old) = it.wanted \intersect Seen(it)
        BY <1>16, <1>17 DEF old, M
      <3>4. \A i \in 1..M : old[i] \in Seen(it)
        BY <3>3 DEF Elements
      <3>5. node \in Pending(it)
        BY <1>11
      <3>6. ASSUME NEW i \in 1..(M + 1), NEW j \in 1..(M + 1), i < j PROVE new[i] < new[j]
        <4>1. i \in 1..M
          BY <3>3, <3>6
        <4>2. CASE j \in 1..M
          BY <3>2, <3>3, <3>6, <4>1, <4>2 DEF Rising
        <4>3. CASE j = M + 1
          BY <1>13, <3>2, <3>4, <3>5, <4>1, <4>3
        <4>4. QED BY <3>3, <4>2, <4>3
      <3>7. Elements(new) = Elements(old) \union {node}
        <4>1. 1..(M + 1) = 1..M \union {M + 1}
          BY <3>3
        <4>2. QED BY <3>2, <3>3, <4>1 DEF Elements
      <3>8. it.wanted \intersect Seen(next) = (it.wanted \intersect Seen(it)) \union {node}
        BY <1>14, <2>2
      <3>9. QED BY <1>5, <3>1, <3>2, <3>3, <3>6, <3>7, <3>8 DEF Rising
    <2>3. QED BY <2>1, <2>2
  <1>19. StackIsNested(next)
    <2>1. \A j, k \in 1..(L - 1) : j < k => \A x \in Under(stack[k]) : x < stack[j]
      BY <1>3 DEF IterationStands, StackIsNested
    <2>2. \A x \in Below(node), j \in 1..(L - 1) : x < stack[j]
      BY <1>9 DEF Under
    <2>3. QED BY <1>5, <1>6, <2>1, <2>2 DEF StackIsNested
  <1>20. Pending(next) \subseteq Below(next.origin)
    BY <1>5, <1>11, <1>13
  <1>21. next \in Generator
    <2>1. node \in Use!Ids
      BY <1>1, <1>4
    <2>2. QED BY <1>2, <1>5, <1>6, <1>18, <2>1 DEF Generator
  <1>22. status[next.project] # "closed"
    BY <1>5 DEF IterationStands
  <1>23. QED
    BY <1>5, <1>15, <1>18, <1>19, <1>20, <1>21, <1>22, MarksAssumption DEF IterationStands, Generator

LEMMA UnderElements ==
  ASSUME NEW list
  PROVE  UNION {Under(list[j]) : j \in DOMAIN list} = UNION {Under(c) : c \in Elements(list)}
BY DEF Elements

LEMMA Concatenated ==
  ASSUME NEW S, NEW a \in Seq(S), NEW b \in Seq(S)
  PROVE  /\ a \o b \in Seq(S) /\ DOMAIN (a \o b) = 1..(Len(a) + Len(b))
         /\ \A j \in 1..Len(a) : (a \o b)[j] = a[j]
         /\ \A i \in 1..Len(b) : (a \o b)[Len(a) + i] = b[i]
         /\ Elements(a \o b) = Elements(a) \union Elements(b)
PROOF
  <1>1. Len(a) \in Nat /\ Len(b) \in Nat /\ DOMAIN a = 1..Len(a) /\ DOMAIN b = 1..Len(b)
    OBVIOUS
  <1>2. /\ a \o b \in Seq(S) /\ Len(a \o b) = Len(a) + Len(b)
        /\ \A j \in 1..(Len(a) + Len(b)) :
             (a \o b)[j] = IF j <= Len(a) THEN a[j] ELSE b[j - Len(a)]
    BY ConcatProperties
  <1>3. DOMAIN (a \o b) = 1..(Len(a) + Len(b))
    BY <1>2
  <1>4. \A j \in 1..Len(a) : j \in 1..(Len(a) + Len(b)) /\ (a \o b)[j] = a[j]
    BY <1>1, <1>2
  <1>5. ASSUME NEW i \in 1..Len(b)
        PROVE  Len(a) + i \in 1..(Len(a) + Len(b)) /\ (a \o b)[Len(a) + i] = b[i]
    <2>1. Len(a) + i \in 1..(Len(a) + Len(b)) /\ ~ (Len(a) + i <= Len(a)) /\ (Len(a) + i) - Len(a) = i
      BY <1>1
    <2>2. QED BY <1>2, <2>1
  <1>6. ASSUME NEW j \in 1..(Len(a) + Len(b))
        PROVE  (a \o b)[j] \in Elements(a) \union Elements(b)
    <2>1. CASE j <= Len(a)
      <3>1. j \in 1..Len(a)
        BY <1>1, <2>1
      <3>2. QED BY <1>1, <1>4, <3>1 DEF Elements
    <2>2. CASE ~ (j <= Len(a))
      <3>1. j - Len(a) \in 1..Len(b) /\ (a \o b)[j] = b[j - Len(a)]
        BY <1>1, <1>2, <2>2
      <3>2. QED BY <1>1, <3>1 DEF Elements
    <2>3. QED BY <2>1, <2>2
  <1>7. Elements(a \o b) = Elements(a) \union Elements(b)
    <2>1. Elements(a \o b) \subseteq Elements(a) \union Elements(b)
      <3>1. ASSUME NEW x \in Elements(a \o b) PROVE x \in Elements(a) \union Elements(b)
        <4>1. PICK j \in 1..(Len(a) + Len(b)) : x = (a \o b)[j]
          BY <1>3, <3>1 DEF Elements
        <4>2. QED BY <1>6, <4>1
      <3>2. QED BY <3>1
    <2>2. ASSUME NEW j \in 1..Len(a) PROVE a[j] \in Elements(a \o b)
      <3>1. j \in DOMAIN (a \o b) /\ (a \o b)[j] = a[j]
        BY <1>3, <1>4
      <3>2. QED BY <3>1 DEF Elements
    <2>3. ASSUME NEW i \in 1..Len(b) PROVE b[i] \in Elements(a \o b)
      <3>1. Len(a) + i \in DOMAIN (a \o b) /\ (a \o b)[Len(a) + i] = b[i]
        BY <1>3, <1>5
      <3>2. QED BY <3>1 DEF Elements
    <2>4. Elements(a) \subseteq Elements(a \o b)
      BY <1>1, <2>2 DEF Elements
    <2>5. Elements(b) \subseteq Elements(a \o b)
      BY <1>1, <2>3 DEF Elements
    <2>6. QED BY <2>1, <2>4, <2>5
  <1>8. QED BY <1>2, <1>3, <1>4, <1>5, <1>7

(* Expanding a node visits nothing.                                           *)
LEMMA ExpandStands ==
  ASSUME NEW n \in Nat \ {0}, TreeOf(n), NEW it, IterationStands(it),
         it.state = "suspended", it.unexpanded # None,
         NEW children, children = Use!InOrder(Use!ChildIds(it.unexpanded)),
         NEW next, next = [it EXCEPT !.stack = @ \o Use!Reverse(children), !.unexpanded = None]
  PROVE  IterationStands(next)
PROOF
  <1> DEFINE L == Len(it.stack)
             stack == it.stack
             id == it.unexpanded
             K == Len(children)
             pushed == Use!Reverse(children)
  <1>1. Use!Ids = 1..n /\ \A a \in 1..n : \A x \in Below(a) : x \in 1..n /\ x > a
    BY BelowFacts
  <1>2. it \in Generator /\ id \in 1..n
    BY <1>1 DEF IterationStands, Generator
  <1>3. /\ stack \in Seq(Use!Ids) /\ L \in Nat /\ DOMAIN stack = 1..L
        /\ \A j \in 1..L : stack[j] \in 1..n
    <2>1. stack \in Seq(Use!Ids)
      BY <1>2 DEF Generator
    <2>2. QED BY <1>1, <2>1
  <1>4. /\ Use!ChildIds(id) \subseteq Below(id) /\ Use!ChildIds(id) \subseteq 1..n
        /\ Below(id) = UNION {Under(c) : c \in Use!ChildIds(id)}
        /\ \A c, d \in Use!ChildIds(id) : c < d => \A x \in Under(c) : x < d
    <2>1. Use!ChildIds(id) \subseteq Use!Ids
      BY DEF Use!ChildIds
    <2>2. QED BY <1>1, <1>2, <2>1, BelowByChildren
  <1>5. /\ children \in Seq(Use!ChildIds(id)) /\ Rising(children)
        /\ Elements(children) = Use!ChildIds(id)
    BY <1>4, InOrderFacts
  <1>6. /\ K \in Nat /\ DOMAIN children = 1..K
        /\ \A i \in 1..K : children[i] \in Use!ChildIds(id)
    BY <1>5
  <1>7. pushed = [i \in 1..K |-> children[(K - i) + 1]]
    BY DEF Use!Reverse
  <1>8. \A i \in 1..K : (K - i) + 1 \in 1..K /\ (K - ((K - i) + 1)) + 1 = i
    BY <1>6
  <1>9. pushed \in Seq(Use!Ids) /\ Len(pushed) = K /\ \A i \in 1..K : pushed[i] = children[(K - i) + 1]
    <2>1. \A i \in 1..K : pushed[i] = children[(K - i) + 1] /\ pushed[i] \in Use!Ids
      BY <1>1, <1>4, <1>6, <1>7, <1>8
    <2>2. pushed \in [1..K -> Use!Ids]
      BY <1>7, <2>1
    <2> HIDE DEF pushed, K
    <2>3. pushed \in Seq(Use!Ids) /\ Len(pushed) = K
      BY <1>6, <2>2
    <2>4. QED BY <2>1, <2>3
  <1> HIDE DEF pushed, K
  <1>10. /\ next.stack = stack \o pushed /\ next.unexpanded = None
         /\ next.project = it.project /\ next.origin = it.origin /\ next.wanted = it.wanted
         /\ next.yielded = it.yielded /\ next.state = "suspended"
    BY <1>2 DEF Generator, pushed
  <1>11. /\ next.stack \in Seq(Use!Ids) /\ DOMAIN next.stack = 1..(L + K)
         /\ \A j \in 1..L : next.stack[j] = stack[j]
         /\ \A i \in 1..K : next.stack[L + i] = pushed[i]
         /\ Elements(next.stack) = Elements(stack) \union Elements(pushed)
    <2>1. stack \in Seq(Use!Ids) /\ L = Len(stack)
      BY <1>3
    <2>2. next.stack = stack \o pushed
      BY <1>10
    <2> HIDE DEF stack, L
    <2>3. /\ stack \o pushed \in Seq(Use!Ids) /\ DOMAIN (stack \o pushed) = 1..(L + K)
          /\ \A j \in 1..L : (stack \o pushed)[j] = stack[j]
          /\ \A i \in 1..K : (stack \o pushed)[L + i] = pushed[i]
          /\ Elements(stack \o pushed) = Elements(stack) \union Elements(pushed)
      <3>1. pushed \in Seq(Use!Ids) /\ K = Len(pushed)
        BY <1>9
      <3>2. PICK a, b : a = stack /\ b = pushed
        OBVIOUS
      <3>3. a \in Seq(Use!Ids) /\ b \in Seq(Use!Ids) /\ K = Len(b) /\ L = Len(a)
        BY <2>1, <3>1, <3>2
      <3>4. /\ a \o b \in Seq(Use!Ids) /\ DOMAIN (a \o b) = 1..(L + K)
            /\ \A j \in 1..L : (a \o b)[j] = a[j]
            /\ \A i \in 1..K : (a \o b)[L + i] = b[i]
            /\ Elements(a \o b) = Elements(a) \union Elements(b)
        BY <3>3, Concatenated
      <3>5. QED BY <3>4, <3>2
    <2>4. QED BY <2>2, <2>3
  <1>12. \A j \in 1..(L + K) : j \notin 1..L => j - L \in 1..K /\ j = L + (j - L)
    BY <1>3, <1>6
  <1>13. Elements(pushed) = Use!ChildIds(id)
    <2>1. DOMAIN pushed = 1..K
      BY <1>7 DEF pushed
    <2>2. \A i \in 1..K : children[i] \in Elements(pushed)
      <3>1. ASSUME NEW i \in 1..K PROVE children[i] \in Elements(pushed)
        <4>1. (K - i) + 1 \in 1..K /\ pushed[(K - i) + 1] = children[i]
          BY <1>8, <1>9
        <4>2. QED BY <2>1, <4>1 DEF Elements
      <3>2. QED BY <3>1
    <2>3. \A i \in 1..K : pushed[i] \in Elements(children)
      BY <1>6, <1>8, <1>9 DEF Elements
    <2>4. Elements(pushed) \subseteq Elements(children)
      BY <2>1, <2>3 DEF Elements
    <2>5. Elements(children) \subseteq Elements(pushed)
      BY <1>6, <2>2 DEF Elements
    <2>6. QED BY <1>5, <2>4, <2>5
  <1>14. Pending(next) = Pending(it)
    <2>1. Pending(it) = Below(id) \union UNION {Under(c) : c \in Elements(stack)}
      BY DEF Pending, Elements
    <2>2. Pending(next) = UNION {Under(c) : c \in Elements(next.stack)}
      <3>1. Pending(next) = UNION {Under(next.stack[j]) : j \in DOMAIN next.stack}
        BY <1>10 DEF Pending
      <3>2. QED BY <3>1, UnderElements
    <2>3. QED BY <1>4, <1>11, <1>13, <2>1, <2>2
  <1>15. Seen(next) = Seen(it)
    BY <1>10, <1>14 DEF Seen
  <1>16. StackIsNested(next)
    <2>1. ASSUME NEW j \in 1..(L + K), NEW k \in 1..(L + K), j < k, NEW x \in Under(next.stack[k])
          PROVE  x < next.stack[j]
      <3>1. CASE k \in 1..L
        <4>1. j \in 1..L
          BY <1>3, <2>1, <3>1
        <4>2. QED BY <1>3, <1>11, <2>1, <3>1, <4>1 DEF IterationStands, StackIsNested
      <3>2. CASE k \notin 1..L /\ j \in 1..L
        <4>1. k - L \in 1..K /\ next.stack[k] = pushed[k - L]
          BY <1>11, <1>12, <3>2
        <4>2. next.stack[k] \in Use!ChildIds(id)
          BY <1>6, <1>8, <1>9, <4>1
        <4>3. x \in Below(id)
          BY <1>4, <2>1, <4>2
        <4>4. QED BY <1>3, <1>11, <3>2, <4>3 DEF IterationStands, StackIsNested
      <3>3. CASE k \notin 1..L /\ j \notin 1..L
        <4> DEFINE a == (K - (j - L)) + 1
                   b == (K - (k - L)) + 1
        <4>1. /\ j - L \in 1..K /\ next.stack[j] = pushed[j - L]
              /\ k - L \in 1..K /\ next.stack[k] = pushed[k - L]
          BY <1>11, <1>12, <3>3
        <4>2. a \in 1..K /\ b \in 1..K /\ next.stack[j] = children[a] /\ next.stack[k] = children[b]
          BY <1>8, <1>9, <4>1
        <4>3. b < a
          BY <1>3, <1>6, <2>1, <4>1
        <4> HIDE DEF a, b
        <4>4. children[b] < children[a]
          BY <1>5, <1>6, <4>2, <4>3 DEF Rising
        <4>5. QED BY <1>4, <1>6, <2>1, <4>2, <4>4
      <3>4. QED BY <3>1, <3>2, <3>3
    <2>2. QED BY <1>10, <1>11, <2>1 DEF StackIsNested
  <1>17. next \in Generator
    BY <1>2, <1>10, <1>11 DEF Generator
  <1>18. /\ status[next.project] # "closed"
         /\ Pending(next) \subseteq Below(next.origin)
         /\ \A x \in Seen(next), y \in Pending(next) : x < y
         /\ Rising(next.yielded) /\ Elements(next.yielded) = next.wanted \intersect Seen(next)
    BY <1>10, <1>14, <1>15 DEF IterationStands
  <1>19. QED
    BY <1>10, <1>16, <1>17, <1>18, MarksAssumption DEF IterationStands

(* A generator goes on standing while it is left alone.                       *)
LEMMA StandsAlike ==
  ASSUME NEW it, IterationStands(it), snapshot' = snapshot,
         \A p \in Projects : /\ status[p] # "closed" => status'[p] # "closed"
                             /\ status[p] = "disposed" => status'[p] = "disposed"
  PROVE  IterationStands(it)'
PROOF
  <1>1. Use!Ids' = Use!Ids /\ Use!Ancestors' = Use!Ancestors
    BY DEF Use!Ids, Use!Ancestors, Use!Root
  <1>2. \A id : Below(id)' = Below(id)
    BY <1>1 DEF Below
  <1>3. \A id : Under(id)' = Under(id)
    BY <1>2 DEF Under
  <1>4. Generator' = Generator
    BY <1>1 DEF Generator
  <1>5. Pending(it)' = Pending(it)
    BY <1>2, <1>3 DEF Pending
  <1>6. Seen(it)' = Seen(it)
    BY <1>2, <1>5 DEF Seen
  <1>7. StackIsNested(it)'
    BY <1>2, <1>3 DEF IterationStands, StackIsNested
  <1>8. it \in Generator /\ it.project \in Projects
    BY DEF IterationStands, Generator
  <1>9. status'[it.project] # "closed" /\ (it.state = Threw => status'[it.project] = "disposed")
    BY <1>8 DEF IterationStands
  <1>10. QED
    BY <1>2, <1>4, <1>5, <1>6, <1>7, <1>8, <1>9 DEF IterationStands

(* What a project answers a generator that asks for the children of a node.   *)
LEMMA ChildrenAreAll ==
  ASSUME FacadeIsWhole, NEW p \in Projects, status[p] # "closed", NEW id, id \in Use!Ids
  PROVE  /\ Use!Children(p, id) = Threw \/ Use!Children(p, id) = Use!InOrder(Use!ChildIds(id))
         /\ Use!Active(p) \/ Use!ChildIds(id) = {}
              => Use!Children(p, id) = Use!InOrder(Use!ChildIds(id))
         /\ ~ Use!Active(p) => status[p] = "disposed"
PROOF
  <1>1. Use!Active(p) => nodes[p] = Use!Ids
    BY DEF FacadeIsWhole, Use!Active
  <1>2. Use!ChildIds(id) \subseteq Use!Ids
    BY DEF Use!ChildIds
  <1>3. Use!Active(p) \/ Use!ChildIds(id) = {} => Use!ChildIds(id) \intersect nodes[p] = Use!ChildIds(id)
    BY <1>1, <1>2
  <1>4. ~ Use!Active(p) => status[p] = "disposed"
    BY DEF FacadeIsWhole, Use!Active
  <1>5. QED BY <1>3, <1>4 DEF Use!Children

LEMMA NewGeneratorStands ==
  ASSUME NEW n \in Nat \ {0}, TreeOf(n), NEW p \in Projects, status[p] # "closed",
         NEW origin, origin \in Use!Ids, NEW wanted, wanted \in SUBSET Use!Ids,
         NEW it, it = [project |-> p, origin |-> origin, wanted |-> wanted, unexpanded |-> origin,
                       stack |-> <<>>, yielded |-> <<>>, state |-> "suspended"]
  PROVE  IterationStands(it)
PROOF
  <1>1. origin # None
    BY BelowFacts, MarksAssumption
  <1>2. it \in Generator
    <2>1. <<>> \in Seq(Use!Ids)
      OBVIOUS
    <2>2. QED BY <2>1 DEF Generator
  <1>3. Pending(it) = Below(origin)
    BY <1>1 DEF Pending
  <1>4. Seen(it) = {}
    BY <1>3 DEF Seen
  <1>5. StackIsNested(it) /\ Rising(it.yielded) /\ Elements(it.yielded) = {}
    BY DEF StackIsNested, Rising, Elements
  <1>6. QED BY <1>2, <1>3, <1>4, <1>5, MarksAssumption DEF IterationStands

(* Every step of the facade leaves the generators standing.                   *)
LEMMA StepStands ==
  ASSUME FacadeIsWhole, IterationsStand,
         NEW i \in Iterators, Use!InNext(i)
  PROVE  /\ DOMAIN iterator' = Iterators
         /\ \A j \in Iterators \ {i} : iterator'[j] = iterator[j]
         /\ IterationStands(iterator'[i])
         /\ running' = None \/ (running' = i /\ iterator'[i].state = "suspended")
PROOF
  <1>1. PICK n \in Nat \ {0} : TreeOf(n)
    BY TreeExists
  <1>2. running = i
    BY DEF Use!InNext, Use!Expand, Use!Pop, Use!Exhausted
  <1>3. PICK it : it = iterator[i]
    OBVIOUS
  <1>4. IterationStands(it) /\ it.state = "suspended" /\ DOMAIN iterator = Iterators
    BY <1>2, <1>3 DEF IterationsStand
  <1>5. it \in Generator /\ it.project \in Projects /\ status[it.project] # "closed"
    BY <1>4 DEF IterationStands, Generator
  <1>6. CASE Use!Expand(i)
    <2>1. it.unexpanded # None /\ it.unexpanded \in Use!Ids
      BY <1>3, <1>5, <1>6 DEF Use!Expand, Generator
    <2>2. CASE Use!Children(it.project, it.unexpanded) = Threw
      <3>1. iterator' = [iterator EXCEPT ![i].state = Threw] /\ running' = None
        BY <1>3, <1>6, <2>2 DEF Use!Expand, Use!Stop
      <3>2. PICK next : next = [it EXCEPT !.state = Threw]
        OBVIOUS
      <3>3. iterator'[i] = next /\ DOMAIN iterator' = Iterators
        BY <1>3, <1>4, <3>1, <3>2
      <3>4. status[it.project] = "disposed"
        <4>1. PICK children : children = Use!InOrder(Use!ChildIds(it.unexpanded))
          OBVIOUS
        <4>2. Use!ChildIds(it.unexpanded) \in SUBSET (1..n)
          BY <1>1, BelowFacts DEF Use!ChildIds
        <4>3. children \in Seq(Use!ChildIds(it.unexpanded))
          BY <4>1, <4>2, InOrderFacts
        <4>4. children \in Seq(Nat)
          <5>1. \A x \in Use!ChildIds(it.unexpanded) : x \in Nat
            BY <4>2
          <5>2. Len(children) \in Nat /\ children \in [1..Len(children) -> Nat]
            BY <4>3, <5>1
          <5>3. QED BY <5>2
        <4>5. children # Threw
          BY <4>4, MarksAssumption
        <4>6. QED BY <1>5, <2>1, <2>2, <4>1, <4>5, ChildrenAreAll
      <3>5. /\ next.project = it.project /\ next.origin = it.origin /\ next.wanted = it.wanted
            /\ next.unexpanded = it.unexpanded /\ next.stack = it.stack
            /\ next.yielded = it.yielded /\ next.state = Threw /\ next \in Generator
        BY <1>5, <3>2 DEF Generator
      <3>6. Pending(next) = Pending(it) /\ Seen(next) = Seen(it) /\ StackIsNested(next)
        BY <1>4, <3>5 DEF Pending, Seen, IterationStands, StackIsNested
      <3>7. IterationStands(next)
        BY <1>4, <3>4, <3>5, <3>6, MarksAssumption DEF IterationStands
      <3>8. QED BY <1>4, <3>1, <3>3, <3>7
    <2>3. CASE Use!Children(it.project, it.unexpanded) # Threw
      <3>1. PICK children : children = Use!InOrder(Use!ChildIds(it.unexpanded))
        OBVIOUS
      <3>2. Use!Children(it.project, it.unexpanded) = children
        BY <1>5, <2>1, <2>3, <3>1, ChildrenAreAll
      <3>3. /\ iterator' = [iterator EXCEPT ![i].stack = @ \o Use!Reverse(children),
                                            ![i].unexpanded = None]
            /\ running' = running
        BY <1>3, <1>6, <2>3, <3>2 DEF Use!Expand
      <3>4. PICK next : next = [it EXCEPT !.stack = @ \o Use!Reverse(children), !.unexpanded = None]
        OBVIOUS
      <3>5. iterator'[i] = next /\ DOMAIN iterator' = Iterators
        BY <1>3, <1>4, <3>3, <3>4
      <3>6. IterationStands(next)
        BY <1>1, <1>4, <2>1, <3>1, <3>4, ExpandStands
      <3>7. next.state = "suspended"
        BY <1>4, <1>5, <3>4 DEF Generator
      <3>8. QED BY <1>2, <1>4, <3>3, <3>5, <3>6, <3>7
    <2>4. QED BY <2>2, <2>3
  <1>7. CASE Use!Pop(i)
    <2>1. it.unexpanded = None /\ it.stack # <<>>
      BY <1>3, <1>7 DEF Use!Pop
    <2>2. PICK node : node = Use!Last(it.stack)
      OBVIOUS
    <2>3. /\ iterator' = [iterator EXCEPT ![i].stack = Use!Front(@), ![i].unexpanded = node,
                ![i].yielded = IF node \in it.wanted THEN Append(@, node) ELSE @]
          /\ running' = IF node \in it.wanted THEN None ELSE i
      BY <1>3, <1>7, <2>2 DEF Use!Pop
    <2>4. PICK next : next = [it EXCEPT !.stack = Use!Front(@), !.unexpanded = node,
                !.yielded = IF node \in it.wanted THEN Append(@, node) ELSE @]
      OBVIOUS
    <2>5. iterator'[i] = next /\ DOMAIN iterator' = Iterators
      BY <1>3, <1>4, <2>3, <2>4
    <2>6. IterationStands(next)
      BY <1>1, <1>4, <2>1, <2>2, <2>4, PopStands
    <2>7. next.state = "suspended"
      BY <1>4, <1>5, <2>4 DEF Generator
    <2>8. QED BY <1>4, <2>3, <2>5, <2>6, <2>7
  <1>8. CASE Use!Exhausted(i)
    <2>1. /\ it.unexpanded = None /\ it.stack = <<>>
          /\ iterator' = [iterator EXCEPT ![i].state = "done"] /\ running' = None
      BY <1>3, <1>8 DEF Use!Exhausted, Use!Stop
    <2>2. PICK next : next = [it EXCEPT !.state = "done"]
      OBVIOUS
    <2>3. iterator'[i] = next /\ DOMAIN iterator' = Iterators
      BY <1>3, <1>4, <2>1, <2>2
    <2>4. /\ next.project = it.project /\ next.origin = it.origin /\ next.wanted = it.wanted
          /\ next.unexpanded = it.unexpanded /\ next.stack = it.stack
          /\ next.yielded = it.yielded /\ next.state = "done" /\ next \in Generator
      BY <1>5, <2>2 DEF Generator
    <2>5. Pending(next) = Pending(it) /\ Seen(next) = Seen(it) /\ StackIsNested(next)
      BY <1>4, <2>4 DEF Pending, Seen, IterationStands, StackIsNested
    <2>6. Pending(it) = {}
      BY <2>1 DEF Pending
    <2>7. IterationStands(next)
      BY <1>4, <2>4, <2>5, <2>6, MarksAssumption DEF IterationStands
    <2>8. QED BY <1>4, <2>1, <2>3, <2>7
  <1>9. QED BY <1>6, <1>7, <1>8 DEF Use!InNext

LEMMA IterationsKeepStanding ==
  ASSUME FacadeIsWhole, IterationsStand, [Next]_vars
  PROVE  IterationsStand'
PROOF
  <1> DEFINE StatusKept == \A p \in Projects :
               /\ status[p] # "closed" => status'[p] # "closed"
               /\ status[p] = "disposed" => status'[p] = "disposed"
  <1>1. ASSUME snapshot' = snapshot, StatusKept, DOMAIN iterator' = Iterators,
               \A i \in Iterators : iterator'[i] # None => IterationStands(iterator'[i]),
               \A i \in Iterators : running' = i =>
                 IterationStands(iterator'[i]) /\ iterator'[i].state = "suspended"
        PROVE  IterationsStand'
    <2>1. ASSUME NEW i \in Iterators, iterator'[i] # None PROVE IterationStands(iterator[i])'
      <3>1. PICK it : it = iterator'[i]
        OBVIOUS
      <3>2. IterationStands(it)
        BY <1>1, <2>1, <3>1
      <3>3. IterationStands(it)'
        BY <1>1, <3>2, StandsAlike
      <3>4. QED BY <3>1, <3>3
    <2>2. ASSUME NEW i \in Iterators, running' = i PROVE IterationStands(iterator[i])'
      <3>1. PICK it : it = iterator'[i]
        OBVIOUS
      <3>2. IterationStands(it)
        BY <1>1, <2>2, <3>1
      <3>3. IterationStands(it)'
        BY <1>1, <3>2, StandsAlike
      <3>4. QED BY <3>1, <3>3
    <2>3. QED BY <1>1, <2>1, <2>2 DEF IterationsStand
  <1>2. ASSUME snapshot' = snapshot, StatusKept, iterator' = iterator, running' = running \/ running' = None
        PROVE  IterationsStand'
    <2>1. \A i \in Iterators : None # i
      BY MarksAssumption
    <2>2. QED BY <1>1, <1>2, <2>1 DEF IterationsStand
  <1>3. ASSUME NEW p \in Projects, Use!Open(p) \/ Use!Dispose(p) PROVE IterationsStand'
    <2>1. \/ status' = [status EXCEPT ![p] = "open"] /\ status[p] = "closed"
          \/ status' = [status EXCEPT ![p] = "disposed"]
      BY <1>3 DEF Use!Open, Use!Dispose
    <2>2. StatusKept
      BY <2>1 DEF FacadeIsWhole
    <2>3. snapshot' = snapshot /\ iterator' = iterator /\ running' = running
      BY <1>3 DEF Use!Open, Use!Dispose
    <2>4. QED BY <1>2, <2>2, <2>3
  <1>4. ASSUME NEW i \in Iterators, NEW p \in Projects, NEW origin \in Use!Ids,
               NEW wanted \in SUBSET Use!Ids, Use!Descendants(i, p, origin, wanted)
        PROVE  IterationsStand'
    <2>1. /\ snapshot' = snapshot /\ status' = status /\ running' = running /\ running = None
          /\ status[p] # "closed"
      BY <1>4 DEF Use!Descendants, Use!Idle
    <2>2. PICK it : it = [project |-> p, origin |-> origin, wanted |-> wanted, unexpanded |-> origin,
                          stack |-> <<>>, yielded |-> <<>>, state |-> "suspended"]
      OBVIOUS
    <2>3. iterator' = [iterator EXCEPT ![i] = it]
      BY <1>4, <2>2 DEF Use!Descendants
    <2>4. IterationStands(it)
      <3>1. PICK n \in Nat \ {0} : TreeOf(n)
        BY TreeExists
      <3>2. QED BY <2>1, <2>2, <3>1, NewGeneratorStands
    <2>5. \A j \in Iterators : iterator'[j] # None => IterationStands(iterator'[j])
      BY <2>3, <2>4 DEF IterationsStand
    <2>6. \A j \in Iterators : running' # j
      BY <2>1, MarksAssumption
    <2>7. DOMAIN iterator' = Iterators
      BY <2>3 DEF IterationsStand
    <2>8. QED BY <1>1, <2>1, <2>5, <2>6, <2>7
  <1>5. ASSUME NEW i \in Iterators, Use!CallNext(i) PROVE IterationsStand'
    <2>1. /\ snapshot' = snapshot /\ status' = status /\ iterator' = iterator
          /\ iterator[i] # None /\ iterator[i].state = "suspended" /\ running' = i
      BY <1>5 DEF Use!CallNext
    <2>2. QED BY <1>1, <2>1 DEF IterationsStand
  <1>6. ASSUME NEW i \in Iterators, Use!InNext(i) PROVE IterationsStand'
    <2>1. snapshot' = snapshot /\ status' = status
      BY <1>6 DEF Use!InNext, Use!Expand, Use!Pop, Use!Exhausted
    <2>2. /\ DOMAIN iterator' = Iterators
          /\ \A j \in Iterators \ {i} : iterator'[j] = iterator[j]
          /\ IterationStands(iterator'[i])
          /\ running' = None \/ (running' = i /\ iterator'[i].state = "suspended")
      BY <1>6, StepStands
    <2>3. \A j \in Iterators : iterator'[j] # None => IterationStands(iterator'[j])
      BY <2>2 DEF IterationsStand
    <2>4. \A j \in Iterators : running' = j =>
            IterationStands(iterator'[j]) /\ iterator'[j].state = "suspended"
      BY <2>2, MarksAssumption
    <2>5. StatusKept
      BY <2>1
    <2>6. QED BY <1>1, <2>1, <2>2, <2>3, <2>4, <2>5
  <1>7. CASE UNCHANGED <<snapshot, status, iterator, running>>
    BY <1>2, <1>7
  <1>8. QED
    BY <1>3, <1>4, <1>5, <1>6, <1>7
       DEF Next, Validate, Uses, Use!Next, Use!AskSymbolFor, Use!Return, vars, use

(* A generator yields the wanted descendants in the order of the source and   *)
(* leaves none out, whatever is disposed of between two results, or throws    *)
(* where its own project was disposed of.                                     *)
THEOREM IterationIsComplete == Spec => []IterationIsWhole
PROOF
  <1> DEFINE IInv == FacadeIsWhole /\ IterationsStand
  <1>1. Init => IInv
    BY MarksAssumption DEF Init, Use!Init, FacadeIsWhole, IterationsStand
  <1>2. IInv /\ [Next]_vars => IInv'
    BY FacadeStaysWhole, IterationsKeepStanding
  <1>3. IInv => IterationIsWhole
    <2>1. ASSUME IInv, NEW i \in Iterators, iterator[i] # None
          PROVE  /\ Use!IsPrefix(iterator[i].yielded, Use!Promised(iterator[i]))
                 /\ iterator[i].state = "done" => iterator[i].yielded = Use!Promised(iterator[i])
                 /\ iterator[i].state = Threw => status[iterator[i].project] = "disposed"
      <3>1. PICK n \in Nat \ {0} : TreeOf(n)
        BY <2>1, TreeExists
      <3>2. PICK it : it = iterator[i]
        OBVIOUS
      <3>3. IterationStands(it) /\ it \in Generator
        BY <2>1, <3>2 DEF IterationsStand, IterationStands
      <3>4. PICK S : S = {id \in it.wanted : it.origin \in Use!Ancestors[id]}
        OBVIOUS
      <3>5. S = it.wanted \intersect Below(it.origin) /\ S \in SUBSET (1..n)
        BY <3>1, <3>3, <3>4, BelowFacts DEF Below, Generator
      <3>6. PICK list : list = it.yielded
        OBVIOUS
      <3>7. /\ list \in Seq(Nat) /\ Rising(list)
            /\ Elements(list) = it.wanted \intersect Seen(it)
        <4>1. list \in Seq(Use!Ids)
          BY <3>3, <3>6 DEF Generator
        <4>2. list \in Seq(1..n)
          BY <3>1, <4>1, BelowFacts
        <4>3. list \in Seq(Nat)
          BY <4>2
        <4>4. QED BY <3>3, <3>6, <4>3 DEF IterationStands
      <3>8. Elements(list) \subseteq S
        BY <3>5, <3>7 DEF Seen
      <3>9. ASSUME NEW x \in S, NEW y \in Elements(list), x < y PROVE x \in Elements(list)
        <4>1. y \in Seen(it) /\ x \in Below(it.origin) /\ x \in it.wanted
          BY <3>5, <3>7, <3>9
        <4>2. x \in Nat /\ y \in Nat
          BY <3>1, <3>5, <3>8, <3>9
        <4>3. x \notin Pending(it)
          BY <3>3, <3>9, <4>1, <4>2 DEF IterationStands
        <4>4. QED BY <3>7, <4>1, <4>3 DEF Seen
      <3>10. /\ Use!IsPrefix(list, Use!InOrder(S))
             /\ Elements(list) = S => list = Use!InOrder(S)
        BY <3>5, <3>7, <3>8, <3>9, BeginningOfList
      <3>11. it.state = "done" => Elements(list) = S
        BY <3>3, <3>5, <3>7 DEF IterationStands, Seen
      <3>12. Use!Promised(it) = Use!InOrder(S)
        BY <3>4 DEF Use!Promised
      <3>13. it.state = Threw => status[it.project] = "disposed"
        BY <3>3 DEF IterationStands
      <3>14. QED BY <3>2, <3>6, <3>10, <3>11, <3>12, <3>13
    <2>2. QED BY <2>1 DEF IterationIsWhole, Use!IterationIsWhole
  <1>4. QED BY <1>1, <1>2, <1>3, PTL DEF Spec
=============================================================================
