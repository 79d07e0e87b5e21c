-------------------------- MODULE CallReportProofs --------------------------
(* Normalizing is right for any number of call sites, keys and callables. The *)
(* sort makes entries of one key neighbours; so the last entry that was kept  *)
(* is the only one that can have the key of the next.                         *)
(*                                                                            *)
(* And for bodies of any length the walk and the spans agree on who owns what.*)
(* Both are a matter of levels: how many lambdas are open after a token.      *)
EXTENDS CallReport, Integers, FiniteSetTheorems, SequenceTheorems, WellFoundedInduction, TLAPS

(* The sort arranges all positions by their keys. *)
Sorted ==
  stage # "sort" =>
    /\ \A i \in DOMAIN found : \E j \in DOMAIN order : order[j] = i
    /\ \A i, j \in DOMAIN order : i < j => Site(i).key <= Site(j).key

(* What was kept is strictly increasing, and nothing still to come is below. *)
Ordered ==
  /\ OneEntryPerKey
  /\ \A i \in DOMAIN merged : \A m \in DOMAIN order :
       m >= next => merged[i].key <= Site(m).key

(* What was kept says exactly what was compared so far. *)
Exact ==
  /\ \A m \in DOMAIN order : m < next =>
       \E j \in DOMAIN merged : merged[j].key = Site(m).key
  /\ \A j \in DOMAIN merged, t \in Callables :
       t \in merged[j].targets <=>
         \E m \in DOMAIN order :
           m < next /\ Site(m).key = merged[j].key /\ t \in Site(m).targets
  /\ \A j \in DOMAIN merged :
       merged[j].complete <=>
         \A m \in DOMAIN order :
           m < next /\ Site(m).key = merged[j].key => Site(m).complete

Inv ==
  /\ TypeOK /\ Sorted /\ Ordered /\ Exact
  /\ stage = "sort" => next = 1 /\ merged = <<>>
  /\ stage \in {"flatten", "reported"} => next \notin DOMAIN order
  /\ stage = "reported" =>
       \A e \in Keys \X Callables :
         e \in calls <=> \E i \in DOMAIN merged : merged[i].key = e[1] /\ e[2] \in merged[i].targets

(* The positions and the entries under comparison have their types. *)
LEMMA SiteType ==
  ASSUME TypeOK, NEW m \in DOMAIN order
  PROVE  Site(m) \in Sites /\ Site(m).key \in Nat
PROOF
  <1>1. DOMAIN order = DOMAIN found /\ order[m] \in DOMAIN found
    BY DEF TypeOK
  <1>2. found[order[m]] \in Sites
    BY <1>1 DEF TypeOK
  <1>3. QED BY <1>2, KeysAssumption DEF Site, Sites

LEMMA MergedType ==
  ASSUME TypeOK, NEW j \in DOMAIN merged
  PROVE  merged[j] \in Sites /\ merged[j].key \in Nat
PROOF
  <1>1. merged[j] \in Sites
    BY DEF TypeOK
  <1>2. merged[j].key \in Keys
    BY <1>1 DEF Sites
  <1>3. QED BY <1>1, <1>2, KeysAssumption

LEMMA InitInv == Init => Inv
PROOF
  <1> SUFFICES ASSUME Init PROVE Inv
    OBVIOUS
  <1>1. found \in Seq(Sites)
    <2>1. PICK n \in 0..MaxSites : found \in [1..n -> Sites]
      BY DEF Init, Inputs
    <2>2. QED BY <2>1, MaxSitesAssumption
  <1>2. TypeOK
    BY <1>1 DEF Init, TypeOK
  <1>3. Sorted /\ Ordered /\ Exact
    BY <1>1 DEF Init, Sorted, Ordered, Exact, OneEntryPerKey
  <1>4. QED BY <1>2, <1>3 DEF Init, Inv

LEMMA SortKeeps ==
  ASSUME Inv, Sort
  PROVE  Inv'
PROOF
  <1> USE DEF Inv
  <1>1. /\ order' \in [DOMAIN found -> DOMAIN found]
        /\ stage = "sort" /\ stage' = "merge" /\ UNCHANGED <<found, next, merged, calls>>
        /\ next = 1 /\ merged = <<>>
    BY DEF Sort
  <1>2. TypeOK'
    BY <1>1 DEF TypeOK
  <1>3. Sorted'
    BY <1>1 DEF Sort, Sorted, Site
  <1>4. Ordered'
    BY <1>1 DEF Ordered, OneEntryPerKey
  <1>5. Exact'
    <2>1. DOMAIN order' \subseteq Nat \ {0}
      BY <1>1 DEF TypeOK
    <2>2. QED BY <1>1, <2>1 DEF Exact
  <1>6. QED BY <1>1, <1>2, <1>3, <1>4, <1>5

(* The next entry has the key of the last one that was kept. *)
LEMMA AbsorbKeeps ==
  ASSUME Inv, Absorb
  PROVE  Inv'
PROOF
  <1> USE DEF Inv
  <1> DEFINE last == Len(merged)
  <1>1. /\ stage = "merge" /\ next \in DOMAIN order
        /\ merged # <<>> /\ merged[last].key = Site(next).key
        /\ merged' = [merged EXCEPT ![last] = Unite(merged[last], Site(next))]
        /\ next' = next + 1
        /\ UNCHANGED <<found, order, calls, stage>>
    BY DEF Absorb, SameAsLast
  <1>2. Site(next) \in Sites /\ \A m \in DOMAIN order : Site(m)' = Site(m) /\ Site(m).key \in Nat
    BY <1>1, SiteType DEF Site
  <1>3. last \in DOMAIN merged /\ merged[last] \in Sites
    BY <1>1 DEF TypeOK
  <1>4. Unite(merged[last], Site(next)) \in Sites
    BY <1>2, <1>3 DEF Unite, Sites
  <1>5. /\ merged' \in Seq(Sites) /\ DOMAIN merged' = DOMAIN merged
        /\ \A j \in DOMAIN merged : merged'[j].key = merged[j].key
        /\ \A j \in DOMAIN merged : j # last => merged'[j] = merged[j]
        /\ merged'[last] = Unite(merged[last], Site(next))
    BY <1>1, <1>3, <1>4 DEF TypeOK, Unite, Sites
  <1>6. next \in Nat /\ DOMAIN order \subseteq Nat /\ next <= Len(found)
    BY <1>1 DEF TypeOK
  <1>7. TypeOK'
    BY <1>1, <1>5, <1>6 DEF TypeOK
  <1>8. Sorted'
    BY <1>1, <1>2 DEF Sorted
  <1>9. Ordered'
    BY <1>1, <1>2, <1>5, <1>6 DEF Ordered, OneEntryPerKey
  <1>10. \A m \in DOMAIN order : m < next' <=> m < next \/ m = next
    BY <1>1, <1>6
  <1>11. \A j \in DOMAIN merged : merged[j].key = Site(next).key <=> j = last
    <2>1. \A j \in DOMAIN merged : merged[j].key \in Nat
      BY MergedType
    <2>2. \A j \in DOMAIN merged : j # last => j < last
      BY <1>3 DEF TypeOK
    <2>3. QED BY <1>1, <1>3, <2>1, <2>2 DEF Ordered, OneEntryPerKey
  <1>12. Exact'
    <2>1. ASSUME NEW m \in DOMAIN order', m < next'
          PROVE  \E j \in DOMAIN merged' : merged'[j].key = Site(m)'.key
      BY <1>1, <1>2, <1>3, <1>5, <1>10, <2>1 DEF Exact
    <2>2. ASSUME NEW j \in DOMAIN merged', NEW t \in Callables
          PROVE  t \in merged'[j].targets <=>
                   \E m \in DOMAIN order' :
                     m < next' /\ Site(m)'.key = merged'[j].key /\ t \in Site(m)'.targets
      <3>1. CASE j = last
        <4>1. merged'[j].targets = merged[last].targets \union Site(next).targets
          BY <3>1, <1>5, <1>3, <1>2 DEF Unite, Sites
        <4>2. QED BY <3>1, <4>1, <1>1, <1>2, <1>3, <1>5, <1>10 DEF Exact
      <3>2. CASE j # last
        BY <3>2, <1>1, <1>2, <1>5, <1>10, <1>11 DEF Exact
      <3>3. QED BY <3>1, <3>2
    <2>3. ASSUME NEW j \in DOMAIN merged'
          PROVE  merged'[j].complete <=>
                   \A m \in DOMAIN order' :
                     m < next' /\ Site(m)'.key = merged'[j].key => Site(m)'.complete
      <3>1. CASE j = last
        <4>1. merged'[j].complete <=> merged[last].complete /\ Site(next).complete
          BY <3>1, <1>5, <1>3, <1>2 DEF Unite, Sites
        <4>2. QED BY <3>1, <4>1, <1>1, <1>2, <1>3, <1>5, <1>10 DEF Exact
      <3>2. CASE j # last
        BY <3>2, <1>1, <1>2, <1>5, <1>10, <1>11 DEF Exact
      <3>3. QED BY <3>1, <3>2
    <2>4. QED BY <2>1, <2>2, <2>3 DEF Exact
  <1>13. QED BY <1>1, <1>7, <1>8, <1>9, <1>12

(* The next entry has a key that was not kept yet. *)
LEMMA KeepKeeps ==
  ASSUME Inv, Keep
  PROVE  Inv'
PROOF
  <1> USE DEF Inv
  <1> DEFINE new == Len(merged) + 1
  <1>1. /\ stage = "merge" /\ next \in DOMAIN order
        /\ merged = <<>> \/ merged[Len(merged)].key # Site(next).key
        /\ merged' = Append(merged, Site(next))
        /\ next' = next + 1
        /\ UNCHANGED <<found, order, calls, stage>>
    BY DEF Keep, SameAsLast
  <1>2. Site(next) \in Sites /\ \A m \in DOMAIN order : Site(m)' = Site(m) /\ Site(m).key \in Nat
    BY <1>1, SiteType DEF Site
  <1>3. /\ merged' \in Seq(Sites) /\ DOMAIN merged' = DOMAIN merged \union {new}
        /\ \A j \in DOMAIN merged : merged'[j] = merged[j] /\ j < new
        /\ merged'[new] = Site(next) /\ new \notin DOMAIN merged
    BY <1>1, <1>2 DEF TypeOK
  <1>4. next \in Nat /\ DOMAIN order \subseteq Nat /\ next <= Len(found)
    BY <1>1 DEF TypeOK
  <1>5. TypeOK'
    BY <1>1, <1>3, <1>4 DEF TypeOK
  <1>6. Sorted'
    BY <1>1, <1>2 DEF Sorted
  <1>7. \A j \in DOMAIN merged : merged[j].key < Site(next).key
    <2>1. \A j \in DOMAIN merged : merged[j].key \in Nat
      BY MergedType
    <2>2. ASSUME NEW j \in DOMAIN merged PROVE merged[j].key < Site(next).key
      <3>1. merged # <<>> /\ Len(merged) \in DOMAIN merged /\ (j # Len(merged) => j < Len(merged))
        BY DEF TypeOK
      <3>2. merged[Len(merged)].key < Site(next).key
        BY <1>1, <1>2, <1>4, <2>1, <3>1 DEF Ordered
      <3>3. QED BY <1>2, <1>1, <2>1, <3>1, <3>2 DEF Ordered, OneEntryPerKey
    <2>3. QED BY <2>2
  <1>8. Ordered'
    <2>1. OneEntryPerKey'
      BY <1>3, <1>7 DEF Ordered, OneEntryPerKey, TypeOK
    <2>2. ASSUME NEW i \in DOMAIN merged', NEW m \in DOMAIN order', m >= next'
          PROVE  merged'[i].key <= Site(m)'.key
      <3>1. m > next /\ m \in DOMAIN order
        BY <1>1, <1>4, <2>2
      <3>2. CASE i = new
        BY <3>1, <3>2, <1>1, <1>2, <1>3 DEF Sorted
      <3>3. CASE i \in DOMAIN merged
        BY <3>1, <3>3, <1>1, <1>2, <1>3, <1>4 DEF Ordered
      <3>4. QED BY <1>3, <3>2, <3>3
    <2>3. QED BY <2>1, <2>2 DEF Ordered
  <1>9. \A m \in DOMAIN order : m < next' <=> m < next \/ m = next
    BY <1>1, <1>4
  <1>10. \A m \in DOMAIN order : m < next => Site(m).key # Site(next).key
    <2>1. ASSUME NEW m \in DOMAIN order, m < next PROVE Site(m).key # Site(next).key
      <3>1. PICK j \in DOMAIN merged : merged[j].key = Site(m).key
        BY <2>1 DEF Exact
      <3>2. QED BY <3>1, <1>2, <1>1, <1>7
    <2>2. QED BY <2>1
  <1>11. Exact'
    <2>1. ASSUME NEW m \in DOMAIN order', m < next'
          PROVE  \E j \in DOMAIN merged' : merged'[j].key = Site(m)'.key
      BY <1>1, <1>2, <1>3, <1>9, <2>1 DEF Exact
    <2>2. ASSUME NEW j \in DOMAIN merged', NEW t \in Callables
          PROVE  t \in merged'[j].targets <=>
                   \E m \in DOMAIN order' :
                     m < next' /\ Site(m)'.key = merged'[j].key /\ t \in Site(m)'.targets
      <3>1. CASE j = new
        BY <3>1, <1>1, <1>2, <1>3, <1>9, <1>10
      <3>2. CASE j \in DOMAIN merged
        <4>1. merged[j].key # Site(next).key
          BY <3>2, <1>7, <1>1, <1>2
        <4>2. QED BY <3>2, <4>1, <1>1, <1>2, <1>3, <1>9 DEF Exact
      <3>3. QED BY <1>3, <3>1, <3>2
    <2>3. ASSUME NEW j \in DOMAIN merged'
          PROVE  merged'[j].complete <=>
                   \A m \in DOMAIN order' :
                     m < next' /\ Site(m)'.key = merged'[j].key => Site(m)'.complete
      <3>1. CASE j = new
        BY <3>1, <1>1, <1>2, <1>3, <1>9, <1>10
      <3>2. CASE j \in DOMAIN merged
        <4>1. merged[j].key # Site(next).key
          BY <3>2, <1>7, <1>1, <1>2
        <4>2. QED BY <3>2, <4>1, <1>1, <1>2, <1>3, <1>9 DEF Exact
      <3>3. QED BY <1>3, <3>1, <3>2
    <2>4. QED BY <2>1, <2>2, <2>3 DEF Exact
  <1>12. QED BY <1>1, <1>5, <1>6, <1>8, <1>11

LEMMA FlattenKeeps ==
  ASSUME Inv, Normalized \/ Flatten
  PROVE  Inv'
PROOF
  <1> USE DEF Inv
  <1>1. CASE Normalized
    <2>1. /\ UNCHANGED <<found, order, next, merged, calls>>
          /\ stage = "merge" /\ stage' = "flatten" /\ next \notin DOMAIN order
      BY <1>1 DEF Normalized
    <2>2. TypeOK' /\ Sorted' /\ Ordered' /\ Exact'
      BY <2>1 DEF TypeOK, Sorted, Ordered, OneEntryPerKey, Exact, Site
    <2>3. QED BY <2>1, <2>2
  <1>2. CASE Flatten
    <2>1. /\ UNCHANGED <<found, order, next, merged>>
          /\ stage = "flatten" /\ stage' = "reported" /\ calls' \in SUBSET (Keys \X Callables)
          /\ \A e \in Keys \X Callables :
               e \in calls' <=>
                 \E i \in DOMAIN merged : merged[i].key = e[1] /\ e[2] \in merged[i].targets
      BY <1>2 DEF Flatten
    <2>2. TypeOK' /\ Sorted' /\ Ordered' /\ Exact'
      BY <2>1 DEF TypeOK, Sorted, Ordered, OneEntryPerKey, Exact, Site
    <2>3. QED BY <2>1, <2>2
  <1>3. QED BY <1>1, <1>2

THEOREM Invariance == Spec => []Inv
PROOF
  <1>1. Init => Inv
    BY InitInv
  <1>2. Inv /\ [Next]_vars => Inv'
    <2> SUFFICES ASSUME Inv, [Next]_vars PROVE Inv'
      OBVIOUS
    <2>1. CASE Next
      BY <2>1, SortKeeps, AbsorbKeeps, KeepKeeps, FlattenKeeps DEF Next
    <2>2. CASE UNCHANGED vars
      BY <2>2 DEF vars, Inv, TypeOK, Sorted, Ordered, OneEntryPerKey, Exact, Site
    <2>3. QED BY <2>1, <2>2
  <1>3. QED BY <1>1, <1>2, PTL DEF Spec

(* However many call sites are found, in whatever order, one entry is left    *)
(* for each key, in the order of the keys.                                    *)
THEOREM OneEntry == Spec => []OneEntryPerKey
PROOF
  <1>1. Inv => OneEntryPerKey
    BY DEF Inv, Ordered
  <1>2. QED BY <1>1, Invariance, PTL

(* Once everything was compared, what holds of the entries compared so far    *)
(* holds of all that was found, because the sort lost no position.            *)
LEMMA ComparedIsFound ==
  ASSUME Inv, stage \in {"flatten", "reported"}
  PROVE  EntriesAreWhatWasFound
PROOF
  <1> USE DEF Inv
  <1>1. \A m \in DOMAIN order : m < next
    BY DEF TypeOK
  <1>2. \A m \in DOMAIN order : order[m] \in DOMAIN found
    BY DEF TypeOK
  <1>3. \A i \in DOMAIN found : \E m \in DOMAIN order : Site(m) = found[i]
    BY DEF Sorted, Site
  <1>4. ASSUME NEW i \in DOMAIN found
        PROVE  \E j \in DOMAIN merged : merged[j].key = found[i].key
    BY <1>1, <1>3 DEF Exact
  <1>5. ASSUME NEW j \in DOMAIN merged, NEW t \in Callables
        PROVE  t \in merged[j].targets <=>
                 \E i \in DOMAIN found : found[i].key = merged[j].key /\ t \in found[i].targets
    <2>1. t \in merged[j].targets <=>
            \E m \in DOMAIN order : Site(m).key = merged[j].key /\ t \in Site(m).targets
      BY <1>1 DEF Exact
    <2>2. QED BY <2>1, <1>2, <1>3 DEF Site
  <1>6. ASSUME NEW j \in DOMAIN merged
        PROVE  merged[j].complete <=>
                 \A i \in DOMAIN found : found[i].key = merged[j].key => found[i].complete
    <2>1. merged[j].complete <=>
            \A m \in DOMAIN order : Site(m).key = merged[j].key => Site(m).complete
      BY <1>1 DEF Exact
    <2>2. QED BY <2>1, <1>2, <1>3 DEF Site
  <1>7. QED BY <1>4, <1>5, <1>6 DEF EntriesAreWhatWasFound

(* Nothing that was found is lost and nothing is added: not a target, not an  *)
(* incompleteness, not a key.                                                 *)
THEOREM EntriesAreExact == Spec => []EntriesAreWhatWasFound
PROOF
  <1>1. Inv => EntriesAreWhatWasFound
    <2>1. stage \notin {"flatten", "reported"} => EntriesAreWhatWasFound
      BY DEF EntriesAreWhatWasFound
    <2>2. QED BY <2>1, ComparedIsFound
  <1>2. QED BY <1>1, Invariance, PTL

LEMMA GraphFollows ==
  ASSUME Inv
  PROVE  GraphIsTheSites
PROOF
  <1> SUFFICES ASSUME stage = "reported", NEW e \in Keys \X Callables
               PROVE  e \in calls <=>
                 \E i \in DOMAIN found : found[i].key = e[1] /\ e[2] \in found[i].targets
    BY DEF GraphIsTheSites
  <1>1. EntriesAreWhatWasFound
    BY ComparedIsFound
  <1>2. e[2] \in Callables
    OBVIOUS
  <1>3. e \in calls <=> \E j \in DOMAIN merged : merged[j].key = e[1] /\ e[2] \in merged[j].targets
    BY DEF Inv
  <1>4. ASSUME NEW j \in DOMAIN merged, merged[j].key = e[1], e[2] \in merged[j].targets
        PROVE  \E i \in DOMAIN found : found[i].key = e[1] /\ e[2] \in found[i].targets
    BY <1>1, <1>2, <1>4 DEF EntriesAreWhatWasFound
  <1>5. ASSUME NEW i \in DOMAIN found, found[i].key = e[1], e[2] \in found[i].targets
        PROVE  \E j \in DOMAIN merged : merged[j].key = e[1] /\ e[2] \in merged[j].targets
    <2>1. PICK j \in DOMAIN merged : merged[j].key = found[i].key
      BY <1>1 DEF EntriesAreWhatWasFound
    <2>2. e[2] \in merged[j].targets
      BY <1>1, <1>2, <1>5, <2>1 DEF EntriesAreWhatWasFound
    <2>3. QED BY <1>5, <2>1, <2>2
  <1>6. QED BY <1>3, <1>4, <1>5

LEMMA InvSaysAll ==
  ASSUME Inv
  PROVE  OneEntryPerKey /\ EntriesAreWhatWasFound /\ GraphIsTheSites
PROOF
  <1>1. OneEntryPerKey
    BY DEF Inv, Ordered
  <1>2. EntriesAreWhatWasFound
    <2>1. stage \notin {"flatten", "reported"} => EntriesAreWhatWasFound
      BY DEF EntriesAreWhatWasFound
    <2>2. QED BY <2>1, ComparedIsFound
  <1>3. QED BY <1>1, <1>2, GraphFollows

(* The call graph has an edge for each target that was found, and no other.   *)
THEOREM GraphIsExact == Spec => []GraphIsTheSites
PROOF
  <1>1. Inv => GraphIsTheSites
    BY GraphFollows
  <1>2. QED BY <1>1, Invariance, PTL
-----------------------------------------------------------------------------
(* The calls of a body were walked before they are reported, and until then   *)
(* nothing was found.                                                         *)
ReportStands ==
  \/ stage = "collect" /\ next = 1 /\ merged = <<>> /\ calls = {}
  \/ Inv

LEMMA FoundIsAnInput ==
  ASSUME Find, next = 1, merged = <<>>, calls = {}
  PROVE  Init'
BY DEF Find, Init

THEOREM ReportInvariance == ReportSpec => []ReportStands
PROOF
  <1>1. ReportInit => ReportStands
    BY DEF ReportInit, ReportStands
  <1>2. Init => Inv
    BY InitInv
  <1>3. ReportStands /\ [ReportNext]_<<vars, walk>> => ReportStands' \/ Init'
    <2> SUFFICES ASSUME ReportStands, [ReportNext]_<<vars, walk>> PROVE ReportStands' \/ Init'
      OBVIOUS
    <2>1. CASE Collect
      <3>1. stage = "collect" /\ UNCHANGED vars /\ ~ Inv
        BY <2>1 DEF Collect, Inv, TypeOK
      <3>2. QED BY <3>1 DEF ReportStands, vars
    <2>2. CASE Find
      <3>1. stage = "collect" /\ ~ Inv
        BY <2>2 DEF Find, Inv, TypeOK
      <3>2. QED BY <2>2, <3>1, FoundIsAnInput DEF ReportStands
    <2>3. CASE Report
      <3>1. Next /\ stage # "collect"
        BY <2>3 DEF Report, Next, Sort, Absorb, Keep, Normalized, Flatten
      <3>2. Inv'
        BY <3>1, SortKeeps, AbsorbKeeps, KeepKeeps, FlattenKeeps DEF Next, ReportStands
      <3>3. QED BY <3>2 DEF ReportStands
    <2>4. CASE UNCHANGED <<vars, walk>>
      <3>1. UNCHANGED vars
        BY <2>4
      <3>2. Inv => Inv'
        BY <3>1 DEF vars, Inv, TypeOK, Sorted, Ordered, OneEntryPerKey, Exact, Site
      <3>3. QED BY <3>1, <3>2 DEF ReportStands, vars
    <2>5. QED BY <2>1, <2>2, <2>3, <2>4 DEF ReportNext
  <1>4. Inv => ReportStands
    BY DEF ReportStands
  <1>5. QED BY <1>1, <1>2, <1>3, <1>4, PTL DEF ReportSpec

(* What was proved of the merge holds where its input are the calls that a    *)
(* walk over a body of any length has collected: one entry per key, nothing   *)
(* lost or invented, and the graph that goes with it.                         *)
THEOREM ReportIsExact == ReportSpec => [](OneEntryPerKey /\ EntriesAreWhatWasFound /\ GraphIsTheSites)
PROOF
  <1>1. ReportStands => OneEntryPerKey /\ EntriesAreWhatWasFound /\ GraphIsTheSites
    <2>1. CASE Inv
      BY <2>1, InvSaysAll
    <2>2. CASE stage = "collect" /\ merged = <<>>
      BY <2>2 DEF OneEntryPerKey, EntriesAreWhatWasFound, GraphIsTheSites
    <2>3. QED BY <2>1, <2>2 DEF ReportStands
  <1>2. QED BY <1>1, ReportInvariance, PTL
-----------------------------------------------------------------------------

(* How deep a text is after its first tokens: the lambdas that were opened    *)
(* and not closed.                                                            *)
Counted(text, kind, from, to) == Cardinality({i \in from..to : text[i].kind = kind})
Level(text, k) == Counted(text, "open", 1, k) - Counted(text, "close", 1, k)
IsEven(text, from, to) == Counted(text, "open", from, to) = Counted(text, "close", from, to)
Rise(token) == IF token.kind = "open" THEN 1 ELSE IF token.kind = "close" THEN 0 - 1 ELSE 0

LEMMA LeastExists ==
  ASSUME NEW S \in SUBSET Nat, S # {}
  PROVE  \E n \in S : \A m \in S : n <= m
PROOF
  <1>1. PICK n \in S : \A m \in S : ~ (<<m, n>> \in OpToRel(<, Nat))
    BY WFMin, NatLessThanWellFounded
  <1>2. \A m \in S : ~ (m < n)
    BY <1>1 DEF OpToRel
  <1>3. QED BY <1>2

LEMMA CountIsNumber ==
  ASSUME NEW text
  PROVE  \A kind : \A a, b \in Nat :
           /\ Counted(text, kind, a, b) \in Nat
           /\ IsFiniteSet({i \in a..b : text[i].kind = kind})
PROOF
  <1> SUFFICES ASSUME NEW kind, NEW a \in Nat, NEW b \in Nat
               PROVE  /\ Counted(text, kind, a, b) \in Nat
                      /\ IsFiniteSet({i \in a..b : text[i].kind = kind})
    OBVIOUS
  <1>1. IsFiniteSet(a..b)
    <2>1. a \in Int /\ b \in Int
      OBVIOUS
    <2>2. QED BY <2>1, FS_Interval
  <1>2. {i \in a..b : text[i].kind = kind} \in SUBSET (a..b)
    OBVIOUS
  <1>3. IsFiniteSet({i \in a..b : text[i].kind = kind})
    BY <1>1, <1>2, FS_Subset
  <1>4. QED BY <1>3, FS_CardinalityType DEF Counted

LEMMA CountOneMore ==
  ASSUME NEW text, NEW kind, NEW a \in Nat, NEW b \in Nat, a <= b + 1
  PROVE  Counted(text, kind, a, b + 1)
           = IF text[b + 1].kind = kind THEN Counted(text, kind, a, b) + 1 ELSE Counted(text, kind, a, b)
PROOF
  <1> DEFINE S == {i \in a..b : text[i].kind = kind}
             T == {i \in a..(b + 1) : text[i].kind = kind}
  <1>1. IsFiniteSet(S)
    BY CountIsNumber
  <1>2. b + 1 \notin S /\ b + 1 \in a..(b + 1) /\ \A i : i \in a..(b + 1) <=> i \in a..b \/ i = b + 1
    OBVIOUS
  <1>3. T = IF text[b + 1].kind = kind THEN S \cup {b + 1} ELSE S
    BY <1>2
  <1> HIDE DEF S, T
  <1>4. IF text[b + 1].kind = kind THEN Cardinality(T) = Cardinality(S) + 1 ELSE Cardinality(T) = Cardinality(S)
    <2>1. Cardinality(S \cup {b + 1}) = Cardinality(S) + 1
      BY <1>1, <1>2, FS_AddElement
    <2>2. QED BY <1>3, <2>1
  <1>5. QED BY <1>4 DEF Counted, S, T

LEMMA CountNothing ==
  ASSUME NEW text, NEW kind, NEW a \in Nat, NEW b \in Nat, b < a
  PROVE  Counted(text, kind, a, b) = 0
PROOF
  <1>1. {i \in a..b : text[i].kind = kind} = {}
    OBVIOUS
  <1>2. QED BY <1>1, FS_EmptySet DEF Counted

(* Each token raises or lowers the level by at most one.                      *)
LEMMA LevelSteps ==
  ASSUME NEW text, NEW k \in Nat
  PROVE  /\ Level(text, k) \in Int
         /\ Level(text, k + 1) = Level(text, k) + Rise(text[k + 1])
PROOF
  <1>1. /\ Counted(text, "open", 1, k) \in Nat /\ Counted(text, "close", 1, k) \in Nat
    BY CountIsNumber
  <1>2. 1 <= k + 1 /\ 1 \in Nat
    OBVIOUS
  <1>3. Counted(text, "open", 1, k + 1)
          = IF text[k + 1].kind = "open" THEN Counted(text, "open", 1, k) + 1 ELSE Counted(text, "open", 1, k)
    BY <1>2, CountOneMore
  <1>4. Counted(text, "close", 1, k + 1)
          = IF text[k + 1].kind = "close" THEN Counted(text, "close", 1, k) + 1 ELSE Counted(text, "close", 1, k)
    BY <1>2, CountOneMore
  <1>5. QED BY <1>1, <1>3, <1>4 DEF Level, Rise

LEMMA LevelAtFirst ==
  ASSUME NEW text
  PROVE  Level(text, 0) = 0
BY CountNothing DEF Level

(* Between two places are as many opened as closed where the levels before    *)
(* the one and after the other are the same.                                  *)
LEMMA CountsAdd ==
  ASSUME NEW text, NEW kind, NEW a \in Nat, NEW b \in Nat, a <= b + 1, 1 <= a
  PROVE  Counted(text, kind, 1, b) = Counted(text, kind, 1, a - 1) + Counted(text, kind, a, b)
PROOF
  <1> DEFINE Bad == {n \in Nat : /\ a <= n + 1
                                 /\ Counted(text, kind, 1, n)
                                      # Counted(text, kind, 1, a - 1) + Counted(text, kind, a, n)}
  <1>1. ASSUME Bad # {} PROVE FALSE
    <2>1. Bad \in SUBSET Nat
      OBVIOUS
    <2>2. PICK n \in Bad : \A m \in Bad : n <= m
      <3> HIDE DEF Bad
      <3>1. QED BY <1>1, <2>1, LeastExists
    <2>3. n \in Nat /\ a <= n + 1
      OBVIOUS
    <2>4. CASE n + 1 = a
      <3>1. Counted(text, kind, a, n) = 0 /\ n = a - 1
        BY <2>3, <2>4, CountNothing
      <3>2. Counted(text, kind, 1, n) \in Nat
        BY <2>3, CountIsNumber
      <3>3. QED BY <2>2, <3>1, <3>2
    <2>5. CASE a <= n
      <3>1. PICK m \in Nat : n = m + 1
        <4>1. n - 1 \in Nat /\ n = (n - 1) + 1
          BY <2>3, <2>5
        <4>2. QED BY <4>1
      <3>2. a <= m + 1 /\ 1 <= m + 1 /\ ~ (n <= m)
        BY <2>3, <2>5, <3>1
      <3>3. m \notin Bad
        <4> HIDE DEF Bad
        <4>1. QED BY <2>2, <3>2
      <3>4. Counted(text, kind, 1, m) = Counted(text, kind, 1, a - 1) + Counted(text, kind, a, m)
        BY <3>2, <3>3
      <3>5. Counted(text, kind, 1, m + 1)
              = IF text[m + 1].kind = kind THEN Counted(text, kind, 1, m) + 1 ELSE Counted(text, kind, 1, m)
        BY <3>2, CountOneMore
      <3>6. Counted(text, kind, a, m + 1)
              = IF text[m + 1].kind = kind THEN Counted(text, kind, a, m) + 1 ELSE Counted(text, kind, a, m)
        BY <3>2, CountOneMore
      <3>7. /\ Counted(text, kind, 1, m) \in Nat /\ Counted(text, kind, a, m) \in Nat
            /\ Counted(text, kind, 1, a - 1) \in Nat
        <4>1. a - 1 \in Nat
          OBVIOUS
        <4>2. QED BY <4>1, CountIsNumber
      <3>8. QED BY <2>2, <3>1, <3>4, <3>5, <3>6, <3>7
    <2>6. QED BY <2>3, <2>4, <2>5
  <1>2. b \notin Bad
    BY <1>1
  <1>3. QED BY <1>2

LEMMA EvenIsLevel ==
  ASSUME NEW text, NEW a \in Nat, NEW b \in Nat, 1 <= a, a <= b + 1
  PROVE  IsEven(text, a, b) <=> Level(text, b) = Level(text, a - 1)
PROOF
  <1>1. /\ Counted(text, "open", 1, b) = Counted(text, "open", 1, a - 1) + Counted(text, "open", a, b)
        /\ Counted(text, "close", 1, b) = Counted(text, "close", 1, a - 1) + Counted(text, "close", a, b)
    BY CountsAdd
  <1>2. /\ Counted(text, "open", 1, a - 1) \in Nat /\ Counted(text, "open", a, b) \in Nat
        /\ Counted(text, "close", 1, a - 1) \in Nat /\ Counted(text, "close", a, b) \in Nat
    <2>1. a - 1 \in Nat
      OBVIOUS
    <2>2. QED BY <2>1, CountIsNumber
  <1>3. QED BY <1>1, <1>2 DEF IsEven, Level

(* Tokens that follow change nothing.                                         *)
LEMMA LevelsStay ==
  ASSUME NEW text, NEW longer, NEW k \in Nat, \A i \in 1..k : longer[i] = text[i]
  PROVE  Level(longer, k) = Level(text, k)
PROOF
  <1>1. \A kind : {i \in 1..k : longer[i].kind = kind} = {i \in 1..k : text[i].kind = kind}
    OBVIOUS
  <1>2. QED BY <1>1 DEF Level, Counted
-----------------------------------------------------------------------------
(* A text of tokens, its unclosed lambdas after the first ones, and the stack *)
(* of them, the innermost last.                                               *)
Tokens == [kind : {"open", "close", "declare", "use", "call"}, local : Nat \union {None}]

Unclosed(text, k, l) ==
  /\ l \in 1..k /\ text[l].kind = "open"
  /\ \A x \in l..k : Level(text, x) >= Level(text, l)

IsStack(text, k, s) ==
  /\ s \in Seq(Nat) /\ Len(s) = Level(text, k)
  /\ \A j \in DOMAIN s : Unclosed(text, k, s[j]) /\ Level(text, s[j]) = j

LEMMA LevelFacts ==
  ASSUME NEW text
  PROVE  \A k \in Nat : /\ Level(text, k) \in Int
                        /\ k # 0 => k - 1 \in Nat /\ Level(text, k) = Level(text, k - 1) + Rise(text[k])
PROOF
  <1> SUFFICES ASSUME NEW k \in Nat
               PROVE  /\ Level(text, k) \in Int
                      /\ k # 0 => k - 1 \in Nat /\ Level(text, k) = Level(text, k - 1) + Rise(text[k])
    OBVIOUS
  <1>1. Level(text, k) \in Int
    BY LevelSteps
  <1>2. ASSUME k # 0 PROVE k - 1 \in Nat /\ Level(text, k) = Level(text, k - 1) + Rise(text[k])
    <2>1. PICK m \in Nat : k = m + 1
      <3>1. k - 1 \in Nat /\ k = (k - 1) + 1
        BY <1>2
      <3>2. QED BY <3>1
    <2>2. Level(text, m + 1) = Level(text, m) + Rise(text[m + 1])
      BY LevelSteps
    <2>3. k - 1 = m
      BY <2>1
    <2>4. QED BY <2>1, <2>2, <2>3
  <1>3. QED BY <1>1, <1>2

(* A level that is not reached on the way down is not passed.                 *)
LEMMA NoJump ==
  ASSUME NEW text, NEW l \in Nat, NEW k \in Nat, NEW y \in Int, Level(text, l) >= y,
         \A x \in l..k : Level(text, x) # y - 1
  PROVE  \A x \in l..k : Level(text, x) >= y
PROOF
  <1> DEFINE Bad == {x \in l..k : ~ (Level(text, x) >= y)}
  <1>1. ASSUME Bad # {} PROVE FALSE
    <2>1. Bad \in SUBSET Nat
      OBVIOUS
    <2>2. PICK x \in Bad : \A z \in Bad : x <= z
      <3> HIDE DEF Bad
      <3>1. QED BY <1>1, <2>1, LeastExists
    <2>3. x \in l..k /\ x \in Nat /\ x # l /\ x # 0
      OBVIOUS
    <2>4. x - 1 \in l..k /\ ~ (x <= x - 1)
      BY <2>3
    <2>5. x - 1 \notin Bad
      <3> HIDE DEF Bad
      <3>1. QED BY <2>2, <2>4
    <2>6. Level(text, x - 1) >= y /\ ~ (Level(text, x) >= y)
      BY <2>4, <2>5
    <2>7. /\ Level(text, x) \in Int /\ Level(text, x - 1) \in Int
          /\ Level(text, x) = Level(text, x - 1) + Rise(text[x])
      BY <2>3, LevelFacts
    <2>8. Rise(text[x]) \in {0, 1, 0 - 1}
      BY DEF Rise
    <2>9. Level(text, x) = y - 1
      BY <2>6, <2>7, <2>8
    <2>10. QED BY <2>3, <2>9
  <1>2. QED BY <1>1

EndIn(text, l) ==
  CHOOSE e \in DOMAIN text : /\ e > l /\ IsEven(text, l, e)
                             /\ \A d \in l..(e - 1) : ~ IsEven(text, l, d)

(* A text that closes what it opens.                                          *)
Closes(text) ==
  /\ text \in Seq(Tokens) /\ \A k \in 0..Len(text) : Level(text, k) \in Nat
  /\ Level(text, Len(text)) = 0

(* A lambda ends where the level first falls below its own.                   *)
LEMMA EndFacts ==
  ASSUME NEW text, Closes(text), NEW l \in DOMAIN text, text[l].kind = "open"
  PROVE  /\ EndIn(text, l) \in DOMAIN text /\ EndIn(text, l) > l
         /\ Level(text, EndIn(text, l)) = Level(text, l) - 1
         /\ \A d \in l..(EndIn(text, l) - 1) : Level(text, d) >= Level(text, l)
PROOF
  <1> DEFINE IsEnd(e) == /\ e > l /\ IsEven(text, l, e)
                         /\ \A d \in l..(e - 1) : ~ IsEven(text, l, d)
  <1>1. PICK n : n = Len(text)
    OBVIOUS
  <1>2. n \in Nat /\ DOMAIN text = 1..n /\ l \in 1..n /\ l \in Nat /\ l - 1 \in 0..n
    BY <1>1 DEF Closes
  <1>3. /\ \A k \in 0..n : Level(text, k) \in Nat
        /\ Level(text, n) = 0
    BY <1>1 DEF Closes
  <1>4. Level(text, l) = Level(text, l - 1) + 1
    <2>1. Level(text, l) = Level(text, l - 1) + Rise(text[l])
      BY <1>2, LevelFacts
    <2>2. Rise(text[l]) = 1
      BY DEF Rise
    <2>3. QED BY <2>1, <2>2
  <1>5. \A d \in l..n : IsEven(text, l, d) <=> Level(text, d) = Level(text, l) - 1
    <2> TAKE d \in l..n
    <2>1. d \in Nat /\ 1 <= l /\ l <= d + 1
      BY <1>2
    <2>2. IsEven(text, l, d) <=> Level(text, d) = Level(text, l - 1)
      BY <1>2, <2>1, EvenIsLevel
    <2>3. Level(text, l - 1) = Level(text, l) - 1
      BY <1>2, <1>3, <1>4
    <2>4. QED BY <2>2, <2>3
  <1>6. Level(text, l) \in Nat /\ Level(text, l) > 0 /\ Level(text, l) \in Int
    <2>1. Level(text, l - 1) \in Nat
      BY <1>2, <1>3
    <2>2. QED BY <1>4, <2>1
  <1>7. \E e \in l..n : Level(text, e) = Level(text, l) - 1
    <2>1. SUFFICES ASSUME \A e \in l..n : Level(text, e) # Level(text, l) - 1 PROVE FALSE
      OBVIOUS
    <2>2. \A x \in l..n : Level(text, x) >= Level(text, l)
      <3>1. PICK y : y = Level(text, l)
        OBVIOUS
      <3>2. y \in Int /\ Level(text, l) >= y /\ \A x \in l..n : Level(text, x) # y - 1
        BY <1>6, <2>1, <3>1
      <3>3. \A x \in l..n : Level(text, x) >= y
        BY <1>2, <3>2, NoJump
      <3>4. QED BY <3>1, <3>3
    <2>3. n \in l..n
      BY <1>2
    <2>4. QED BY <1>3, <1>6, <2>2, <2>3
  <1>8. \E e \in DOMAIN text : IsEnd(e)
    <2> DEFINE S == {e \in l..n : Level(text, e) = Level(text, l) - 1}
    <2>1. S \in SUBSET Nat /\ S # {}
      BY <1>2, <1>7
    <2>2. PICK e \in S : \A d \in S : e <= d
      <3> HIDE DEF S
      <3>1. QED BY <2>1, LeastExists
    <2>3. e \in l..n /\ Level(text, e) = Level(text, l) - 1 /\ e # l
      BY <1>6
    <2>4. e > l /\ e \in 1..n /\ \A d \in l..(e - 1) : d \in l..n /\ ~ (e <= d)
      BY <1>2, <2>3
    <2>5. \A d \in l..(e - 1) : Level(text, d) # Level(text, l) - 1
      BY <2>2, <2>4
    <2>6. IsEnd(e)
      BY <1>5, <2>3, <2>4, <2>5
    <2>7. QED BY <1>2, <2>4, <2>6
  <1>9. PICK e : e = EndIn(text, l)
    OBVIOUS
  <1>10. e \in DOMAIN text /\ IsEnd(e)
    BY <1>8, <1>9 DEF EndIn
  <1>11. e \in 1..n /\ e > l /\ e \in l..n /\ \A d \in l..(e - 1) : d \in l..n
    BY <1>2, <1>10
  <1>12. Level(text, e) = Level(text, l) - 1
    BY <1>5, <1>10, <1>11
  <1>13. \A d \in l..(e - 1) : Level(text, d) >= Level(text, l)
    <2>1. \A d \in l..(e - 1) : Level(text, d) # Level(text, l) - 1
      BY <1>5, <1>10, <1>11
    <2>2. e - 1 \in Nat /\ Level(text, l) >= Level(text, l)
      BY <1>2, <1>6, <1>11
    <2>3. QED BY <1>2, <1>6, <2>1, <2>2, NoJump
  <1>14. QED BY <1>9, <1>10, <1>12, <1>13

(* Of two lambdas that are unclosed in one place, the later one is the deeper *)
(* one.                                                                       *)
LEMMA LaterIsDeeper ==
  ASSUME NEW text, NEW k \in Nat, NEW l, NEW m, Unclosed(text, k, l), Unclosed(text, k, m), l < m
  PROVE  Level(text, l) < Level(text, m)
PROOF
  <1>1. l \in 1..k /\ m \in 1..k /\ m \in Nat /\ m # 0 /\ m - 1 \in l..k /\ l \in Nat
    BY DEF Unclosed
  <1>2. Level(text, m - 1) >= Level(text, l)
    BY <1>1 DEF Unclosed
  <1>3. Level(text, m) = Level(text, m - 1) + Rise(text[m]) /\ Rise(text[m]) = 1
    BY <1>1, LevelFacts DEF Unclosed, Rise
  <1>4. Level(text, m - 1) \in Int /\ Level(text, l) \in Int
    BY <1>1, LevelFacts
  <1>5. QED BY <1>2, <1>3, <1>4

(* The stack holds all unclosed lambdas, the innermost last.                  *)
LEMMA StackIsWhole ==
  ASSUME NEW text, NEW k \in Nat, NEW s, IsStack(text, k, s), \A x \in 0..k : Level(text, x) \in Nat,
         NEW l, Unclosed(text, k, l)
  PROVE  s # <<>> /\ l <= s[Len(s)]
PROOF
  <1>1. l \in 1..k /\ l \in Nat /\ l # 0 /\ l - 1 \in 0..k /\ k \in l..k
    BY DEF Unclosed
  <1>2. Level(text, l) = Level(text, l - 1) + Rise(text[l]) /\ Rise(text[l]) = 1
    BY <1>1, LevelFacts DEF Unclosed, Rise
  <1>3. Level(text, l) >= 1 /\ Level(text, l) <= Level(text, k) /\ Level(text, l) \in Nat
    <2>1. Level(text, l - 1) \in Nat /\ Level(text, k) \in Nat
      BY <1>1
    <2>2. Level(text, k) >= Level(text, l)
      BY <1>1 DEF Unclosed
    <2>3. QED BY <1>2, <2>1, <2>2
  <1>4. PICK n, t : n = Len(s) /\ t = s[Len(s)]
    OBVIOUS
  <1>5. n \in Nat /\ DOMAIN s = 1..n /\ n = Level(text, k) /\ n \in 1..n /\ s \in Seq(Nat)
    BY <1>3, <1>4 DEF IsStack
  <1>6. Unclosed(text, k, t) /\ Level(text, t) = n /\ t \in Nat
    BY <1>4, <1>5 DEF IsStack
  <1>7. ~ (t < l)
    BY <1>3, <1>5, <1>6, LaterIsDeeper
  <1>8. s # <<>>
    BY <1>4, <1>5
  <1>9. QED BY <1>1, <1>4, <1>6, <1>7, <1>8

LambdasIn(text) == {i \in DOMAIN text : text[i].kind = "open"}
UnclosedAt(text, k) == {l \in LambdasIn(text) : Unclosed(text, k, l)}
AroundIn(text, l, i) == l <= i /\ EndIn(text, l) >= i
SmallestIn(text, S) ==
  IF S = {} THEN Callable
  ELSE CHOOSE l \in S : \A m \in S : EndIn(text, l) - l <= EndIn(text, m) - m

(* A lambda is around a token where it is unclosed there.                     *)
LEMMA AroundIsUnclosed ==
  ASSUME NEW text, Closes(text), NEW i \in DOMAIN text, text[i].kind \notin {"open", "close"},
         NEW l \in LambdasIn(text)
  PROVE  AroundIn(text, l, i) <=> Unclosed(text, i, l)
PROOF
  <1>1. PICK n, e : n = Len(text) /\ e = EndIn(text, l)
    OBVIOUS
  <1>2. /\ n \in Nat /\ DOMAIN text = 1..n /\ i \in 1..n /\ i \in Nat /\ i # 0 /\ i - 1 \in Nat
        /\ l \in 1..n /\ text[l].kind = "open" /\ l # i
    BY <1>1 DEF Closes, LambdasIn
  <1>3. /\ e \in 1..n /\ e > l /\ Level(text, e) = Level(text, l) - 1
        /\ \A d \in l..(e - 1) : Level(text, d) >= Level(text, l)
    BY <1>1, <1>2, EndFacts
  <1>4. \A k \in 0..n : Level(text, k) \in Nat
    BY <1>1 DEF Closes
  <1>5. Level(text, l) \in Nat /\ Level(text, e) \in Nat
    BY <1>2, <1>3, <1>4
  <1>6. ASSUME l <= i, e >= i PROVE Unclosed(text, i, l)
    <2>1. e # i
      <3>1. ASSUME e = i PROVE FALSE
        <4>1. i - 1 \in l..(e - 1)
          BY <1>2, <1>6, <3>1
        <4>2. Level(text, i - 1) >= Level(text, l)
          BY <1>3, <4>1
        <4>3. Level(text, i) = Level(text, i - 1) + Rise(text[i]) /\ Rise(text[i]) = 0
          BY <1>2, LevelFacts DEF Rise
        <4>4. Level(text, i - 1) \in Int
          BY <1>2, LevelFacts
        <4>5. QED BY <1>3, <1>5, <3>1, <4>2, <4>3, <4>4
      <3>2. QED BY <3>1
    <2>2. \A d \in l..i : d \in l..(e - 1)
      BY <1>2, <1>3, <1>6, <2>1
    <2>3. l \in 1..i
      BY <1>2, <1>6
    <2>4. QED BY <1>2, <1>3, <2>2, <2>3 DEF Unclosed
  <1>7. ASSUME Unclosed(text, i, l) PROVE l <= i /\ e >= i
    <2>1. l \in 1..i /\ \A x \in l..i : Level(text, x) >= Level(text, l)
      BY <1>7 DEF Unclosed
    <2>2. ~ (e \in l..i)
      BY <1>3, <1>5, <2>1
    <2>3. QED BY <1>2, <1>3, <2>1, <2>2
  <1>8. QED BY <1>1, <1>6, <1>7 DEF AroundIn

(* The lambdas strictly around one are those that are unclosed before it.     *)
LEMMA ContainingIsUnclosed ==
  ASSUME NEW text, Closes(text), NEW l \in LambdasIn(text), NEW m \in LambdasIn(text)
  PROVE  m < l /\ EndIn(text, m) > EndIn(text, l) <=> Unclosed(text, l - 1, m)
PROOF
  <1>1. PICK n, e, f : n = Len(text) /\ e = EndIn(text, l) /\ f = EndIn(text, m)
    OBVIOUS
  <1>2. /\ n \in Nat /\ DOMAIN text = 1..n /\ l \in 1..n /\ l \in Nat /\ l # 0 /\ l - 1 \in 0..n
        /\ m \in 1..n /\ text[l].kind = "open" /\ text[m].kind = "open"
    BY <1>1 DEF Closes, LambdasIn
  <1>3. /\ e \in 1..n /\ e > l /\ Level(text, e) = Level(text, l) - 1
        /\ \A d \in l..(e - 1) : Level(text, d) >= Level(text, l)
    BY <1>1, <1>2, EndFacts
  <1>4. /\ f \in 1..n /\ f > m /\ Level(text, f) = Level(text, m) - 1
        /\ \A d \in m..(f - 1) : Level(text, d) >= Level(text, m)
    BY <1>1, <1>2, EndFacts
  <1>5. \A k \in 0..n : Level(text, k) \in Nat
    BY <1>1 DEF Closes
  <1>6. /\ Level(text, l) \in Nat /\ Level(text, m) \in Nat /\ Level(text, l - 1) \in Nat
        /\ Level(text, e) \in Nat /\ Level(text, f) \in Nat
    BY <1>2, <1>3, <1>4, <1>5
  <1>7. Level(text, l) = Level(text, l - 1) + 1
    <2>1. Level(text, l) = Level(text, l - 1) + Rise(text[l]) /\ Rise(text[l]) = 1
      BY <1>2, LevelFacts DEF Rise
    <2>2. QED BY <2>1
  <1>8. ASSUME m < l, f > e PROVE Unclosed(text, l - 1, m)
    <2>1. \A d \in m..(l - 1) : d \in m..(f - 1)
      BY <1>2, <1>3, <1>4, <1>8
    <2>2. m \in 1..(l - 1)
      BY <1>2, <1>8
    <2>3. QED BY <1>2, <1>4, <2>1, <2>2 DEF Unclosed
  <1>9. ASSUME Unclosed(text, l - 1, m) PROVE m < l /\ f > e
    <2>1. m \in 1..(l - 1) /\ \A x \in m..(l - 1) : Level(text, x) >= Level(text, m)
      BY <1>9 DEF Unclosed
    <2>2. m < l /\ l - 1 \in m..(l - 1)
      BY <1>2, <2>1
    <2>3. Level(text, l - 1) >= Level(text, m)
      BY <2>1, <2>2
    <2>4. f \notin m..(l - 1)
      BY <1>4, <1>6, <2>1
    <2>5. f \notin l..(e - 1)
      <3>1. ASSUME f \in l..(e - 1) PROVE FALSE
        <4>1. Level(text, f) >= Level(text, l)
          BY <1>3, <3>1
        <4>2. QED BY <1>4, <1>6, <1>7, <2>3, <4>1
      <3>2. QED BY <3>1
    <2>6. f # e
      BY <1>3, <1>4, <1>6, <1>7, <2>3
    <2>7. QED BY <1>2, <1>3, <1>4, <2>2, <2>4, <2>5, <2>6
  <1>10. QED BY <1>1, <1>8, <1>9

(* Of lambdas that are unclosed in one place, the latest is the smallest.     *)
LEMMA LatestIsSmallest ==
  ASSUME NEW text, Closes(text), NEW k \in 0..Len(text), NEW S \in SUBSET UnclosedAt(text, k),
         NEW t \in S, \A m \in S : m <= t
  PROVE  SmallestIn(text, S) = t
PROOF
  <1> DEFINE Size(m) == EndIn(text, m) - m
  <1>1. PICK n : n = Len(text)
    OBVIOUS
  <1>2. n \in Nat /\ DOMAIN text = 1..n /\ k \in 0..n /\ k \in Nat
    BY <1>1 DEF Closes
  <1>3. ASSUME NEW m \in S
        PROVE  /\ m \in LambdasIn(text) /\ m \in 1..k /\ m \in 1..n /\ m \in Nat
               /\ text[m].kind = "open" /\ Unclosed(text, k, m)
               /\ EndIn(text, m) \in 1..n /\ EndIn(text, m) > m
               /\ Level(text, EndIn(text, m)) = Level(text, m) - 1
               /\ \A d \in m..(EndIn(text, m) - 1) : Level(text, d) >= Level(text, m)
               /\ \A d \in m..k : Level(text, d) >= Level(text, m)
    <2>1. m \in LambdasIn(text) /\ Unclosed(text, k, m)
      BY DEF UnclosedAt
    <2>2. m \in 1..k /\ m \in DOMAIN text /\ text[m].kind = "open"
      BY <2>1 DEF Unclosed, LambdasIn
    <2>3. \A d \in m..k : Level(text, d) >= Level(text, m)
      BY <2>1 DEF Unclosed
    <2>4. QED BY <1>2, <2>1, <2>2, <2>3, EndFacts
  <1>4. ASSUME NEW m \in S, m # t PROVE Size(t) < Size(m)
    <2>1. PICK e, f : e = EndIn(text, t) /\ f = EndIn(text, m)
      OBVIOUS
    <2>2. t \in 1..k /\ m \in 1..k /\ t \in Nat /\ m \in Nat /\ m < t
      BY <1>3, <1>4
    <2>3. Level(text, m) < Level(text, t)
      BY <1>2, <1>3, <2>2, LaterIsDeeper
    <2>4. /\ e \in 1..n /\ e > t /\ Level(text, e) = Level(text, t) - 1
          /\ \A d \in t..(e - 1) : Level(text, d) >= Level(text, t)
      BY <1>3, <2>1
    <2>5. /\ f \in 1..n /\ f > m /\ Level(text, f) = Level(text, m) - 1
          /\ \A d \in m..k : Level(text, d) >= Level(text, m)
      BY <1>3, <2>1
    <2>6. /\ Level(text, m) \in Int /\ Level(text, t) \in Int
          /\ Level(text, e) \in Int /\ Level(text, f) \in Int
      <3>1. e \in Nat /\ f \in Nat
        BY <2>4, <2>5
      <3>2. QED BY <2>2, <3>1, LevelFacts
    <2>7. f \notin m..k
      BY <2>5, <2>6
    <2>8. f \notin t..(e - 1)
      <3>1. ASSUME f \in t..(e - 1) PROVE FALSE
        <4>1. Level(text, f) >= Level(text, t)
          BY <2>4, <3>1
        <4>2. QED BY <2>3, <2>5, <2>6, <4>1
      <3>2. QED BY <3>1
    <2>9. f # e
      BY <2>3, <2>4, <2>5, <2>6
    <2>10. e < f
      BY <1>2, <2>2, <2>4, <2>5, <2>7, <2>8, <2>9
    <2>11. e - t < f - m
      BY <2>2, <2>4, <2>5, <2>10
    <2>12. QED BY <2>1, <2>11
  <1>5. \A m \in S : Size(m) \in Int
    BY <1>3
  <1>6. SmallestIn(text, S) = CHOOSE l \in S : \A m \in S : Size(l) <= Size(m)
    BY DEF SmallestIn
  <1> HIDE DEF Size
  <1>7. \A m \in S : Size(t) <= Size(m)
    BY <1>4, <1>5
  <1>8. \A l \in S : (\A m \in S : Size(l) <= Size(m)) => l = t
    BY <1>4, <1>5
  <1>9. QED BY <1>6, <1>7, <1>8

LEMMA TopIsSmallest ==
  ASSUME NEW text, Closes(text), NEW k \in 0..Len(text), NEW s, IsStack(text, k, s)
  PROVE  SmallestIn(text, UnclosedAt(text, k)) = IF s = <<>> THEN Callable ELSE s[Len(s)]
PROOF
  <1>1. PICK n, S : n = Len(text) /\ S = UnclosedAt(text, k)
    OBVIOUS
  <1>2. n \in Nat /\ DOMAIN text = 1..n /\ k \in 0..n /\ k \in Nat /\ \A x \in 0..k : x \in 0..n
    BY <1>1 DEF Closes
  <1>3. \A x \in 0..k : Level(text, x) \in Nat
    BY <1>1, <1>2 DEF Closes
  <1>4. \A l \in S : s # <<>> /\ l <= s[Len(s)]
    <2> TAKE l \in S
    <2>1. Unclosed(text, k, l)
      BY <1>1 DEF UnclosedAt
    <2>2. QED BY <1>2, <1>3, <2>1, StackIsWhole
  <1>5. CASE s = <<>>
    <2>1. S = {}
      BY <1>4, <1>5
    <2>2. QED BY <1>1, <1>5, <2>1 DEF SmallestIn
  <1>6. CASE s # <<>>
    <2>1. PICK t : t = s[Len(s)]
      OBVIOUS
    <2>2. Len(s) \in DOMAIN s
      BY <1>6 DEF IsStack
    <2>3. Unclosed(text, k, t)
      BY <2>1, <2>2 DEF IsStack
    <2>4. t \in S
      BY <1>1, <1>2, <2>3 DEF UnclosedAt, LambdasIn, Unclosed
    <2>5. SmallestIn(text, S) = t
      BY <1>1, <1>4, <2>1, <2>4, LatestIsSmallest
    <2>6. QED BY <1>1, <1>6, <2>1, <2>5
  <1>7. QED BY <1>5, <1>6
-----------------------------------------------------------------------------
(* What one more token does to the stack.                                     *)
LEMMA UnclosedLater ==
  ASSUME NEW text, NEW k \in Nat, NEW l, Unclosed(text, k, l), Level(text, k + 1) >= Level(text, l)
  PROVE  Unclosed(text, k + 1, l)
PROOF
  <1>1. l \in 1..k /\ l \in 1..(k + 1) /\ \A x \in l..(k + 1) : x \in l..k \/ x = k + 1
    BY DEF Unclosed
  <1>2. QED BY <1>1 DEF Unclosed

LEMMA StackPushed ==
  ASSUME NEW text, NEW k \in Nat, NEW s, IsStack(text, k, s), text[k + 1].kind = "open"
  PROVE  IsStack(text, k + 1, Append(s, k + 1))
PROOF
  <1>1. PICK n, r : n = Len(s) /\ r = Append(s, k + 1)
    OBVIOUS
  <1>2. /\ n \in Nat /\ DOMAIN s = 1..n /\ Level(text, k) = n
        /\ \A j \in 1..n : Unclosed(text, k, s[j]) /\ Level(text, s[j]) = j
    BY <1>1 DEF IsStack
  <1>3. Level(text, k + 1) = n + 1
    <2>1. Level(text, k + 1) = Level(text, k) + Rise(text[k + 1]) /\ Rise(text[k + 1]) = 1
      BY LevelSteps DEF Rise
    <2>2. QED BY <1>2, <2>1
  <1>4. /\ r \in Seq(Nat) /\ Len(r) = n + 1 /\ DOMAIN r = 1..(n + 1) /\ r[n + 1] = k + 1
        /\ \A j \in 1..n : r[j] = s[j]
    <2>1. s \in Seq(Nat) /\ k + 1 \in Nat
      BY DEF IsStack
    <2>2. QED BY <1>1, <2>1
  <1>5. ASSUME NEW j \in 1..n PROVE Unclosed(text, k + 1, s[j]) /\ Level(text, s[j]) = j
    <2>1. Level(text, k + 1) >= Level(text, s[j])
      BY <1>2, <1>3
    <2>2. QED BY <1>2, <2>1, UnclosedLater
  <1>6. Unclosed(text, k + 1, k + 1)
    <2>1. k + 1 \in 1..(k + 1) /\ \A x \in (k + 1)..(k + 1) : x = k + 1
      OBVIOUS
    <2>2. Level(text, k + 1) >= Level(text, k + 1)
      BY <1>2, <1>3
    <2>3. QED BY <2>1, <2>2 DEF Unclosed
  <1>7. \A j \in 1..(n + 1) : j \in 1..n \/ j = n + 1
    BY <1>2
  <1>8. IsStack(text, k + 1, r)
    BY <1>3, <1>4, <1>5, <1>6, <1>7 DEF IsStack
  <1>9. QED BY <1>1, <1>8

LEMMA StackPopped ==
  ASSUME NEW text, NEW k \in Nat, NEW s, IsStack(text, k, s), text[k + 1].kind = "close", s # <<>>
  PROVE  IsStack(text, k + 1, SubSeq(s, 1, Len(s) - 1))
PROOF
  <1>1. PICK n, m : n = Len(s) /\ m = n - 1
    OBVIOUS
  <1>2. /\ s \in Seq(Nat) /\ n \in Nat /\ DOMAIN s = 1..n /\ Level(text, k) = n
        /\ \A j \in 1..n : Unclosed(text, k, s[j]) /\ Level(text, s[j]) = j
    BY <1>1 DEF IsStack
  <1>3. m \in Nat /\ n = m + 1 /\ \A j \in 1..m : j \in 1..n
    <2>1. n # 0
      BY <1>1, <1>2, EmptySeq
    <2>2. QED BY <1>1, <1>2, <2>1
  <1>4. PICK r : r = SubSeq(s, 1, m)
    OBVIOUS
  <1>5. r \in Seq(Nat) /\ Len(r) = m /\ DOMAIN r = 1..m /\ \A j \in 1..m : r[j] = s[j]
    <2>1. \A j \in 1..m : s[j] \in Nat
      BY <1>2, <1>3
    <2>2. r = [j \in 1..m |-> s[j]]
      BY <1>2, <1>3, <1>4
    <2>3. QED BY <1>3, <2>1, <2>2
  <1>6. Level(text, k + 1) = m
    <2>1. Level(text, k + 1) = Level(text, k) + Rise(text[k + 1]) /\ Rise(text[k + 1]) = 0 - 1
      BY LevelSteps DEF Rise
    <2>2. QED BY <1>2, <1>3, <2>1
  <1>7. ASSUME NEW j \in 1..m PROVE Unclosed(text, k + 1, s[j]) /\ Level(text, s[j]) = j
    <2>1. Level(text, s[j]) = j /\ Unclosed(text, k, s[j])
      BY <1>2, <1>3
    <2>2. Level(text, k + 1) >= Level(text, s[j])
      BY <1>6, <2>1
    <2>3. QED BY <2>1, <2>2, UnclosedLater
  <1>8. IsStack(text, k + 1, r)
    BY <1>5, <1>6, <1>7 DEF IsStack
  <1>9. QED BY <1>1, <1>4, <1>8

LEMMA StackKept ==
  ASSUME NEW text, NEW k \in Nat, NEW s, IsStack(text, k, s), text[k + 1].kind \notin {"open", "close"}
  PROVE  IsStack(text, k + 1, s)
PROOF
  <1>1. Level(text, k + 1) = Level(text, k) /\ Level(text, k) \in Int
    <2>1. Level(text, k + 1) = Level(text, k) + Rise(text[k + 1]) /\ Rise(text[k + 1]) = 0
      BY LevelSteps DEF Rise
    <2>2. QED BY <2>1, LevelSteps
  <1>2. ASSUME NEW j \in DOMAIN s PROVE Unclosed(text, k + 1, s[j])
    <2>1. Unclosed(text, k, s[j]) /\ Level(text, s[j]) = j /\ j <= Level(text, k)
      BY DEF IsStack
    <2>2. Level(text, k + 1) >= Level(text, s[j])
      BY <1>1, <2>1 DEF IsStack
    <2>3. QED BY <2>1, <2>2, UnclosedLater
  <1>3. QED BY <1>1, <1>2 DEF IsStack

LEMMA UnclosedMoves ==
  ASSUME NEW text, NEW longer, NEW k \in Nat, \A i \in 1..k : longer[i] = text[i], NEW l
  PROVE  Unclosed(longer, k, l) <=> Unclosed(text, k, l)
PROOF
  <1>1. \A x \in 0..k : Level(longer, x) = Level(text, x)
    <2> TAKE x \in 0..k
    <2>1. x \in Nat /\ \A i \in 1..x : longer[i] = text[i]
      OBVIOUS
    <2>2. QED BY <2>1, LevelsStay
  <1>2. l \in 1..k => l \in 0..k /\ \A x \in l..k : x \in 0..k
    OBVIOUS
  <1>3. QED BY <1>1, <1>2 DEF Unclosed

LEMMA StackMoves ==
  ASSUME NEW text, NEW longer, NEW k \in Nat, \A i \in 1..k : longer[i] = text[i],
         NEW s, IsStack(text, k, s)
  PROVE  IsStack(longer, k, s)
PROOF
  <1>1. Level(longer, k) = Level(text, k)
    BY LevelsStay
  <1>2. ASSUME NEW j \in DOMAIN s
        PROVE  Unclosed(longer, k, s[j]) /\ Level(longer, s[j]) = j
    <2>1. Unclosed(text, k, s[j]) /\ Level(text, s[j]) = j
      BY DEF IsStack
    <2>2. s[j] \in Nat /\ \A i \in 1..(s[j]) : i \in 1..k
      BY <2>1 DEF Unclosed
    <2>3. Level(longer, s[j]) = Level(text, s[j])
      BY <2>2, LevelsStay
    <2>4. QED BY <2>1, <2>3, UnclosedMoves
  <1>3. QED BY <1>1, <1>2 DEF IsStack
-----------------------------------------------------------------------------
(* A use refers to a declaration before it, inside the same lambdas or inside *)
(* some of them.                                                              *)
UsesInScope(text) ==
  \A i \in DOMAIN text : text[i].kind = "use" =>
    /\ text[i].local \in 1..(i - 1) /\ text[text[i].local].kind = "declare"
    /\ \A l : Unclosed(text, text[i].local, l) => Unclosed(text, i, l)

IsWritten(text, s) ==
  /\ text \in Seq(Tokens) /\ \A k \in 0..Len(text) : Level(text, k) \in Nat
  /\ IsStack(text, Len(text), s) /\ UsesInScope(text)

LEMMA TextGrows ==
  ASSUME NEW text, NEW s, IsWritten(text, s), NEW token \in Tokens,
         NEW r, IsStack(Append(text, token), Len(text) + 1, r),
         token.kind = "use" =>
           /\ token.local \in DOMAIN text /\ text[token.local].kind = "declare"
           /\ \A l : Unclosed(text, token.local, l) => Unclosed(text, Len(text), l)
  PROVE  IsWritten(Append(text, token), r)
PROOF
  <1>1. PICK n, longer : n = Len(text) /\ longer = Append(text, token)
    OBVIOUS
  <1>2. /\ text \in Seq(Tokens) /\ n \in Nat /\ DOMAIN text = 1..n
        /\ longer \in Seq(Tokens) /\ Len(longer) = n + 1 /\ DOMAIN longer = 1..(n + 1)
        /\ longer[n + 1] = token /\ \A i \in 1..n : longer[i] = text[i]
    BY <1>1 DEF IsWritten
  <1>3. ASSUME NEW k \in 0..(n + 1) PROVE Level(longer, k) \in Nat
    <2>1. CASE k \in 0..n
      <3>1. k \in Nat /\ \A i \in 1..k : longer[i] = text[i]
        BY <1>2, <2>1
      <3>2. Level(longer, k) = Level(text, k)
        BY <3>1, LevelsStay
      <3>3. QED BY <1>1, <2>1, <3>2 DEF IsWritten
    <2>2. CASE k = n + 1
      <3>1. Level(longer, n + 1) = Len(r) /\ r \in Seq(Nat)
        BY <1>1 DEF IsStack
      <3>2. QED BY <2>2, <3>1
    <2>3. QED BY <1>2, <2>1, <2>2
  <1>4. ASSUME NEW k \in 0..n, NEW l PROVE Unclosed(longer, k, l) <=> Unclosed(text, k, l)
    <2>1. k \in Nat /\ \A i \in 1..k : longer[i] = text[i]
      BY <1>2
    <2>2. QED BY <2>1, UnclosedMoves
  <1>5. ASSUME NEW i \in 1..(n + 1), longer[i].kind = "use"
        PROVE  /\ longer[i].local \in 1..(i - 1) /\ longer[longer[i].local].kind = "declare"
               /\ \A l : Unclosed(longer, longer[i].local, l) => Unclosed(longer, i, l)
    <2>1. PICK d : d = longer[i].local
      OBVIOUS
    <2>2. CASE i \in 1..n
      <3>1. longer[i] = text[i] /\ i \in DOMAIN text
        BY <1>2, <2>2
      <3>2. /\ d \in 1..(i - 1) /\ text[d].kind = "declare"
            /\ \A l : Unclosed(text, d, l) => Unclosed(text, i, l)
        BY <1>5, <2>1, <3>1 DEF IsWritten, UsesInScope
      <3>3. d \in 1..n /\ d \in 0..n /\ i \in 0..n
        BY <1>2, <2>2, <3>2
      <3>4. \A l : Unclosed(longer, d, l) => Unclosed(longer, i, l)
        BY <1>4, <3>2, <3>3
      <3>5. QED BY <1>2, <2>1, <3>2, <3>3, <3>4
    <2>3. CASE i = n + 1
      <3>1. /\ d \in 1..n /\ text[d].kind = "declare"
            /\ \A l : Unclosed(text, d, l) => Unclosed(text, n, l)
        BY <1>1, <1>2, <1>5, <2>1, <2>3
      <3>2. d \in 1..(i - 1) /\ d \in 0..n /\ n \in 0..n /\ longer[d] = text[d]
        BY <1>2, <2>3, <3>1
      <3>3. ASSUME NEW l, Unclosed(longer, d, l) PROVE Unclosed(longer, n + 1, l)
        <4>1. Unclosed(longer, n, l)
          BY <1>4, <3>1, <3>2, <3>3
        <4>2. l \in 1..n /\ n \in l..n
          BY <1>2, <4>1 DEF Unclosed
        <4>3. Level(longer, n) >= Level(longer, l)
          BY <4>1, <4>2 DEF Unclosed
        <4>4. Level(longer, n + 1) = Level(longer, n) + Rise(longer[n + 1]) /\ Rise(longer[n + 1]) = 0
          BY <1>2, <1>5, <2>3, LevelSteps DEF Rise
        <4>5. Level(longer, n) \in Int
          BY <1>2, LevelFacts
        <4>6. Level(longer, n + 1) >= Level(longer, l)
          BY <4>3, <4>4, <4>5
        <4>7. QED BY <1>2, <4>1, <4>6, UnclosedLater
      <3>4. QED BY <2>1, <2>3, <3>1, <3>2, <3>3
    <2>4. QED BY <1>2, <2>2, <2>3
  <1>6. UsesInScope(longer)
    BY <1>2, <1>5 DEF UsesInScope
  <1>7. IsStack(longer, n + 1, r)
    BY <1>1
  <1>8. IsWritten(longer, r)
    BY <1>2, <1>3, <1>6, <1>7 DEF IsWritten
  <1>9. QED BY <1>1, <1>8
-----------------------------------------------------------------------------
(* What the spans say.                                                        *)
LEMMA GreatestExists ==
  ASSUME NEW n \in Nat, NEW S \in SUBSET (1..n), S # {}
  PROVE  \E t \in S : \A m \in S : m <= t
PROOF
  <1> DEFINE T == {n - m : m \in S}
  <1>1. T \in SUBSET Nat /\ T # {}
    <2>1. \A m \in S : m \in Nat /\ n - m \in Nat
      OBVIOUS
    <2>2. PICK m : m \in S
      OBVIOUS
    <2>3. n - m \in T
      BY <2>2
    <2>4. QED BY <2>1, <2>3
  <1>2. PICK x \in T : \A y \in T : x <= y
    <2> HIDE DEF T
    <2>1. QED BY <1>1, LeastExists
  <1>3. PICK t \in S : x = n - t
    BY <1>2
  <1>4. \A m \in S : n - t <= n - m
    BY <1>2, <1>3
  <1> HIDE DEF T
  <1>5. \A m \in S : m \in Nat /\ t \in Nat
    OBVIOUS
  <1>6. \A m \in S : m <= t
    BY <1>4, <1>5
  <1>7. QED BY <1>6

ContainingIn(text, l) ==
  SmallestIn(text, {m \in LambdasIn(text) : m < l /\ EndIn(text, m) > EndIn(text, l)})
LocalOwnerIn(text, d) == SmallestIn(text, {l \in LambdasIn(text) : AroundIn(text, l, d)})
CapturesIn(text, l) ==
  {text[i].local : i \in {u \in DOMAIN text : text[u].kind = "use" /\ AroundIn(text, l, u)}}
    \ {d \in DOMAIN text : AroundIn(text, l, d)}

LEMMA ContainingSet ==
  ASSUME NEW text, Closes(text), NEW l \in LambdasIn(text)
  PROVE  ContainingIn(text, l) = SmallestIn(text, UnclosedAt(text, l - 1))
PROOF
  <1>1. {m \in LambdasIn(text) : m < l /\ EndIn(text, m) > EndIn(text, l)} = UnclosedAt(text, l - 1)
    BY ContainingIsUnclosed DEF UnclosedAt
  <1>2. QED BY <1>1 DEF ContainingIn

LEMMA OwningSet ==
  ASSUME NEW text, Closes(text), NEW d \in DOMAIN text, text[d].kind \notin {"open", "close"}
  PROVE  LocalOwnerIn(text, d) = SmallestIn(text, UnclosedAt(text, d))
PROOF
  <1>1. {l \in LambdasIn(text) : AroundIn(text, l, d)} = UnclosedAt(text, d)
    BY AroundIsUnclosed DEF UnclosedAt
  <1>2. QED BY <1>1 DEF LocalOwnerIn

LEMMA CapturedAtHand ==
  ASSUME NEW text, Closes(text), UsesInScope(text), NEW l \in LambdasIn(text), NEW d \in CapturesIn(text, l)
  PROVE  \/ LocalOwnerIn(text, d) = ContainingIn(text, l)
         \/ ContainingIn(text, l) # Callable /\ d \in CapturesIn(text, ContainingIn(text, l))
PROOF
  <1>1. PICK n : n = Len(text)
    OBVIOUS
  <1>2. n \in Nat /\ DOMAIN text = 1..n /\ l \in 1..n /\ l \in Nat /\ l - 1 \in 0..n /\ text[l].kind = "open"
    BY <1>1 DEF Closes, LambdasIn
  <1>3. PICK i \in DOMAIN text : text[i].kind = "use" /\ AroundIn(text, l, i) /\ d = text[i].local
    BY DEF CapturesIn
  <1>4. /\ d \in 1..(i - 1) /\ text[d].kind = "declare"
        /\ \A m : Unclosed(text, d, m) => Unclosed(text, i, m)
    BY <1>3 DEF UsesInScope
  <1>5. d \in 1..n /\ d \in DOMAIN text /\ i \in 1..n /\ d \in Nat /\ i \in Nat /\ d < i /\ d \in 0..n
    BY <1>2, <1>3, <1>4
  <1>6. EndIn(text, l) \in Nat /\ l <= i /\ i <= EndIn(text, l)
    <2>1. EndIn(text, l) \in 1..n
      BY <1>2, EndFacts
    <2>2. QED BY <1>2, <1>3, <1>5, <2>1 DEF AroundIn
  <1>7. d < l
    <2>1. ~ AroundIn(text, l, d)
      BY <1>5 DEF CapturesIn
    <2>2. QED BY <1>2, <1>5, <1>6, <2>1 DEF AroundIn
  <1>8. PICK U, V : U = UnclosedAt(text, l - 1) /\ V = UnclosedAt(text, d)
    OBVIOUS
  <1>9. /\ ContainingIn(text, l) = SmallestIn(text, U)
        /\ LocalOwnerIn(text, d) = SmallestIn(text, V)
    BY <1>4, <1>5, <1>8, ContainingSet, OwningSet
  <1>10. ASSUME NEW m \in V PROVE m \in U
    <2>1. m \in LambdasIn(text) /\ Unclosed(text, d, m) /\ Unclosed(text, i, m)
      BY <1>4, <1>8 DEF UnclosedAt
    <2>2. m \in 1..d /\ m \in 1..(l - 1) /\ \A x \in m..(l - 1) : x \in m..i
      BY <1>2, <1>5, <1>6, <1>7, <2>1 DEF Unclosed
    <2>3. Unclosed(text, l - 1, m)
      BY <2>1, <2>2 DEF Unclosed
    <2>4. QED BY <1>8, <2>1, <2>3 DEF UnclosedAt
  <1>11. CASE U = {}
    <2>1. V = {}
      BY <1>10, <1>11
    <2>2. QED BY <1>9, <1>11, <2>1
  <1>12. CASE U # {}
    <2>1. U \in SUBSET (1..n) /\ \A m \in U : m \in LambdasIn(text) /\ m \in 1..(l - 1)
      BY <1>2, <1>8 DEF UnclosedAt, LambdasIn, Unclosed
    <2>2. PICK t \in U : \A m \in U : m <= t
      BY <1>2, <1>12, <2>1, GreatestExists
    <2>3. SmallestIn(text, U) = t
      <3>1. l - 1 \in 0..Len(text) /\ U \in SUBSET UnclosedAt(text, l - 1)
        BY <1>1, <1>2, <1>8
      <3>2. QED BY <2>2, <3>1, LatestIsSmallest
    <2>4. t # Callable
      BY <1>2, <2>1, <2>2, CallableAssumption
    <2>5. CASE t \in V
      <3>1. d \in 0..Len(text) /\ V \in SUBSET UnclosedAt(text, d) /\ \A m \in V : m <= t
        BY <1>1, <1>5, <1>8, <1>10, <2>2
      <3>2. SmallestIn(text, V) = t
        BY <2>5, <3>1, LatestIsSmallest
      <3>3. QED BY <1>9, <2>3, <3>2
    <2>6. CASE t \notin V
      <3>1. t \in LambdasIn(text) /\ t \in Nat /\ t < l /\ EndIn(text, t) > EndIn(text, l)
        <4>1. t \in LambdasIn(text) /\ Unclosed(text, l - 1, t)
          BY <1>8, <2>2 DEF UnclosedAt
        <4>2. EndIn(text, t) > EndIn(text, l)
          BY <4>1, ContainingIsUnclosed
        <4>3. t \in 1..(l - 1)
          BY <2>1, <2>2
        <4>4. QED BY <1>2, <4>1, <4>2, <4>3
      <3>2. EndIn(text, t) \in Nat
        <4>1. t \in DOMAIN text /\ text[t].kind = "open"
          BY <3>1 DEF LambdasIn
        <4>2. EndIn(text, t) \in DOMAIN text
          BY <4>1, EndFacts
        <4>3. QED BY <1>2, <4>2
      <3>3. AroundIn(text, t, i)
        BY <1>2, <1>5, <1>6, <3>1, <3>2 DEF AroundIn
      <3>4. ~ AroundIn(text, t, d)
        <4>1. ~ Unclosed(text, d, t)
          BY <1>8, <2>6, <3>1 DEF UnclosedAt
        <4>2. QED BY <1>4, <1>5, <3>1, <4>1, AroundIsUnclosed
      <3>5. d \in CapturesIn(text, t)
        BY <1>3, <3>3, <3>4 DEF CapturesIn
      <3>6. QED BY <1>9, <2>3, <2>4, <3>5
    <2>7. QED BY <2>5, <2>6
  <1>13. QED BY <1>11, <1>12
-----------------------------------------------------------------------------
(* The operators of module LambdaOwnership are those of the text.             *)
LEMMA WalkCounts ==
  /\ \A S : Walk!Cardinality(S) = Cardinality(S)
  /\ \A a, b : Walk!Balanced(a, b) <=> IsEven(tokens, a, b)
PROOF
  <1>1. \A S : Walk!Cardinality(S) = Cardinality(S)
    BY DEF Walk!Cardinality, Cardinality
  <1>2. QED BY <1>1 DEF Walk!Balanced, IsEven, Counted

LEMMA WalkSpans ==
  /\ Walk!Lambdas = LambdasIn(tokens)
  /\ \A l : Walk!End(l) = EndIn(tokens, l)
  /\ \A l, i : Walk!Around(l, i, i) <=> AroundIn(tokens, l, i)
  /\ \A S : Walk!Smallest(S) = SmallestIn(tokens, S)
PROOF
  <1>1. Walk!Lambdas = LambdasIn(tokens)
    BY DEF Walk!Lambdas, Walk!Places, LambdasIn
  <1>2. \A l : Walk!End(l) = EndIn(tokens, l)
    BY WalkCounts DEF Walk!End, Walk!Places, EndIn
  <1>3. \A l, i : Walk!Around(l, i, i) <=> AroundIn(tokens, l, i)
    BY <1>2 DEF Walk!Around, AroundIn
  <1>4. ASSUME NEW S PROVE Walk!Smallest(S) = SmallestIn(tokens, S)
    <2>1. \A l : (\A m \in S : Walk!End(l) - l <= Walk!End(m) - m)
                   <=> (\A m \in S : EndIn(tokens, l) - l <= EndIn(tokens, m) - m)
      BY <1>2
    <2>2. (CHOOSE l \in S : \A m \in S : Walk!End(l) - l <= Walk!End(m) - m)
            = CHOOSE l \in S : \A m \in S : EndIn(tokens, l) - l <= EndIn(tokens, m) - m
      BY <2>1
    <2>3. CASE S = {}
      BY <2>3 DEF Walk!Smallest, SmallestIn
    <2>4. CASE S # {}
      <3>1. Walk!Smallest(S) = CHOOSE l \in S : \A m \in S : Walk!End(l) - l <= Walk!End(m) - m
        BY <2>4 DEF Walk!Smallest
      <3>2. SmallestIn(tokens, S)
              = CHOOSE l \in S : \A m \in S : EndIn(tokens, l) - l <= EndIn(tokens, m) - m
        BY <2>4 DEF SmallestIn
      <3>3. QED BY <2>2, <3>1, <3>2
    <2>5. QED BY <2>3, <2>4
  <1>5. QED BY <1>1, <1>2, <1>3, <1>4

LEMMA WalkOwners ==
  /\ \A l : Walk!ContainingSymbol(l) = ContainingIn(tokens, l)
  /\ \A d : Walk!LocalOwner(d) = LocalOwnerIn(tokens, d)
  /\ \A l : Walk!Captures(l) = CapturesIn(tokens, l)
PROOF
  <1>1. \A l : Walk!ContainingSymbol(l) = ContainingIn(tokens, l)
    BY WalkSpans DEF Walk!ContainingSymbol, ContainingIn
  <1>2. \A d : Walk!LocalOwner(d) = LocalOwnerIn(tokens, d)
    BY WalkSpans DEF Walk!LocalOwner, LocalOwnerIn
  <1>3. \A l : Walk!Captures(l) = CapturesIn(tokens, l)
    BY WalkSpans DEF Walk!Captures, Walk!UsesWithin, Walk!Places, CapturesIn
  <1>4. QED BY <1>1, <1>2, <1>3
-----------------------------------------------------------------------------
(* The owners along the walk: the callable, and above it the stack.           *)
LEMMA OwnersOnTop ==
  ASSUME NEW s \in Seq(Nat)
  PROVE  LET owners == <<Callable>> \o s IN
         /\ owners[Len(owners)] = IF s = <<>> THEN Callable ELSE s[Len(s)]
         /\ \A x \in Nat : Append(owners, x) = <<Callable>> \o Append(s, x)
         /\ s # <<>> => SubSeq(owners, 1, Len(owners) - 1) = <<Callable>> \o SubSeq(s, 1, Len(s) - 1)
PROOF
  <1> DEFINE S == Nat \union {Callable}
             owners == <<Callable>> \o s
  <1>1. PICK n : n = Len(s)
    OBVIOUS
  <1>2. n \in Nat /\ DOMAIN s = 1..n /\ s \in Seq(S) /\ (s = <<>> <=> n = 0) /\ \A i \in 1..n : s[i] \in Nat
    BY <1>1, EmptySeq
  <1>3. /\ owners \in Seq(S) /\ Len(owners) = n + 1 /\ DOMAIN owners = 1..(n + 1)
        /\ owners[1] = Callable /\ \A i \in 1..n : owners[i + 1] = s[i]
    <2>1. <<Callable>> \in Seq(S) /\ Len(<<Callable>>) = 1
      OBVIOUS
    <2>2. QED BY <1>1, <1>2, <2>1, ConcatProperties
  <1> HIDE DEF owners
  <1>4. owners[Len(owners)] = IF s = <<>> THEN Callable ELSE s[Len(s)]
    BY <1>1, <1>2, <1>3
  <1>5. ASSUME NEW x \in Nat PROVE Append(owners, x) = <<Callable>> \o Append(s, x)
    <2>1. PICK l, r, a : l = Append(owners, x) /\ a = Append(s, x) /\ r = <<Callable>> \o a
      OBVIOUS
    <2>2. a \in Seq(S) /\ Len(a) = n + 1 /\ a[n + 1] = x /\ \A i \in 1..n : a[i] = s[i]
      BY <1>1, <1>2, <2>1
    <2>3. <<Callable>> \in Seq(S) /\ Len(<<Callable>>) = 1 /\ x \in S
      OBVIOUS
    <2>4. r \in Seq(S) /\ Len(r) = n + 2 /\ r[1] = Callable /\ \A i \in 1..(n + 1) : r[i + 1] = a[i]
      BY <1>2, <2>1, <2>2, <2>3, ConcatProperties
    <2>5. /\ l \in Seq(S) /\ Len(l) = n + 2 /\ l[n + 2] = x
          /\ \A i \in 1..(n + 1) : l[i] = owners[i]
      BY <1>2, <1>3, <2>1, <2>3
    <2>6. ASSUME NEW i \in 1..(n + 2) PROVE l[i] = r[i]
      <3>1. CASE i = 1
        <4>1. 1 \in 1..(n + 1)
          BY <1>2
        <4>2. QED BY <1>3, <2>4, <2>5, <3>1, <4>1
      <3>2. CASE i = n + 2
        <4>1. n + 1 \in 1..(n + 1) /\ (n + 1) + 1 = n + 2
          BY <1>2
        <4>2. QED BY <2>2, <2>4, <2>5, <3>2, <4>1
      <3>3. CASE i # 1 /\ i # n + 2
        <4>1. PICK k \in 1..n : i = k + 1
          <5>1. i - 1 \in 1..n /\ i = (i - 1) + 1
            BY <1>2, <3>3
          <5>2. QED BY <5>1
        <4>2. k \in 1..(n + 1) /\ k + 1 \in 1..(n + 1)
          BY <1>2
        <4>3. l[k + 1] = s[k] /\ r[k + 1] = s[k]
          BY <1>3, <2>2, <2>4, <2>5, <4>2
        <4>4. QED BY <4>1, <4>3
      <3>4. QED BY <3>1, <3>2, <3>3
    <2>7. l = r
      BY <2>4, <2>5, <2>6, SeqEqual
    <2>8. QED BY <2>1, <2>7
  <1>6. ASSUME s # <<>> PROVE SubSeq(owners, 1, Len(owners) - 1) = <<Callable>> \o SubSeq(s, 1, Len(s) - 1)
    <2>1. PICK m, l, a, r : /\ m = n - 1 /\ l = SubSeq(owners, 1, n) /\ a = SubSeq(s, 1, m)
                            /\ r = <<Callable>> \o a
      OBVIOUS
    <2>2. m \in Nat /\ n = m + 1 /\ n \in Nat /\ Len(owners) - 1 = n /\ Len(s) - 1 = m
      BY <1>1, <1>2, <1>3, <1>6, <2>1
    <2>3. a = [i \in 1..m |-> s[i]] /\ \A i \in 1..m : i \in 1..n /\ s[i] \in S
      BY <1>2, <2>1, <2>2
    <2>4. a \in Seq(S) /\ Len(a) = m /\ \A i \in 1..m : a[i] = s[i]
      BY <2>2, <2>3
    <2>5. <<Callable>> \in Seq(S) /\ Len(<<Callable>>) = 1
      OBVIOUS
    <2>6. r \in Seq(S) /\ Len(r) = n /\ r[1] = Callable /\ \A i \in 1..m : r[i + 1] = a[i]
      BY <2>1, <2>2, <2>4, <2>5, ConcatProperties
    <2>7. l = [i \in 1..n |-> owners[i]] /\ \A i \in 1..n : i \in 1..(n + 1) /\ owners[i] \in S
      BY <1>3, <2>1, <2>2
    <2>8. l \in Seq(S) /\ Len(l) = n /\ \A i \in 1..n : l[i] = owners[i]
      BY <2>2, <2>7
    <2>9. ASSUME NEW i \in 1..n PROVE l[i] = r[i]
      <3>1. CASE i = 1
        BY <1>3, <2>6, <2>8, <3>1
      <3>2. CASE i # 1
        <4>1. PICK k \in 1..m : i = k + 1
          <5>1. i - 1 \in 1..m /\ i = (i - 1) + 1
            BY <2>2, <3>2
          <5>2. QED BY <5>1
        <4>2. k \in 1..n
          BY <2>2
        <4>3. l[k + 1] = s[k] /\ r[k + 1] = s[k]
          BY <1>3, <2>4, <2>6, <2>8, <4>1, <4>2
        <4>4. QED BY <4>1, <4>3
      <3>3. QED BY <3>1, <3>2
    <2>10. l = r
      BY <2>6, <2>8, <2>9, SeqEqual
    <2>11. QED BY <2>1, <2>2, <2>10
  <1>7. QED BY <1>4, <1>5, <1>6 DEF owners
-----------------------------------------------------------------------------
(* What always holds of the walk. While the text is written, its unclosed     *)
(* lambdas are on the stack and each use is in scope; during the walk the     *)
(* owners are the callable and the stack, and what was collected so far has   *)
(* the owners that the spans say.                                             *)
CreationsBefore(text, k) ==
  {[owner |-> ContainingIn(text, l), lambda |-> l] : l \in {m \in LambdasIn(text) : m < k}}
CallsBefore(text, k) ==
  {[caller |-> LocalOwnerIn(text, i), at |-> i] :
     i \in {p \in {q \in DOMAIN text : text[q].kind = "call"} : p < k}}

OwnersStand(text, k, owners) == \E s : IsStack(text, k, s) /\ owners = <<Callable>> \o s

WalkStands ==
  /\ IsWritten(tokens, open) /\ walking \in BOOLEAN
  /\ ~ walking => at = 1 /\ owner = <<Callable>> /\ collected = {} /\ creations = {}
  /\ walking =>
       /\ open = <<>> /\ at \in 1..(Len(tokens) + 1)
       /\ OwnersStand(tokens, at - 1, owner)
       /\ creations = CreationsBefore(tokens, at) /\ collected = CallsBefore(tokens, at)

LEMMA WalkAtFirst ==
  ASSUME Walk!Init
  PROVE  WalkStands
PROOF
  <1>1. tokens = <<>> /\ open = <<>> /\ walking = FALSE
        /\ at = 1 /\ owner = <<Callable>> /\ collected = {} /\ creations = {}
    BY DEF Walk!Init
  <1>2. Len(tokens) = 0 /\ tokens \in Seq(Tokens) /\ DOMAIN tokens = {} /\ Level(tokens, 0) = 0
    BY <1>1, LevelAtFirst
  <1>3. IsStack(tokens, 0, open)
    BY <1>1, <1>2 DEF IsStack
  <1>4. \A k \in 0..Len(tokens) : Level(tokens, k) \in Nat
    <2>1. \A k \in 0..Len(tokens) : k = 0
      BY <1>2
    <2>2. QED BY <1>2, <2>1
  <1>5. UsesInScope(tokens)
    BY <1>2 DEF UsesInScope
  <1>6. IsWritten(tokens, open)
    BY <1>2, <1>3, <1>4, <1>5 DEF IsWritten
  <1>7. QED BY <1>1, <1>6 DEF WalkStands

(* The text grows by a token that leaves the stack or changes it.             *)
LEMMA Written ==
  ASSUME WalkStands, ~ walking, NEW token \in Tokens,
         tokens' = Append(tokens, token), walking' = walking, at' = at, owner' = owner,
         collected' = collected, creations' = creations,
         CASE token.kind = "open"  -> open' = Append(open, Len(tokens) + 1)
           [] token.kind = "close" -> open # <<>> /\ open' = SubSeq(open, 1, Len(open) - 1)
           [] OTHER                -> open' = open,
         token.kind = "use" =>
           /\ token.local \in DOMAIN tokens /\ tokens[token.local].kind = "declare"
           /\ \A l : Unclosed(tokens, token.local, l) => Unclosed(tokens, Len(tokens), l)
  PROVE  WalkStands'
PROOF
  <1>1. PICK n, longer, r : n = Len(tokens) /\ longer = Append(tokens, token) /\ r = open'
    OBVIOUS
  <1>2. n \in Nat /\ DOMAIN tokens = 1..n /\ tokens \in Seq(Tokens) /\ IsStack(tokens, n, open)
    BY <1>1 DEF WalkStands, IsWritten
  <1>3. longer[n + 1] = token /\ \A i \in 1..n : longer[i] = tokens[i]
    BY <1>1, <1>2
  <1>4. IsStack(longer, n, open)
    BY <1>2, <1>3, StackMoves
  <1>5. IsStack(longer, n + 1, r)
    <2>1. CASE token.kind = "open"
      <3>1. r = Append(open, n + 1)
        BY <1>1, <2>1
      <3>2. QED BY <1>2, <1>3, <1>4, <2>1, <3>1, StackPushed
    <2>2. CASE token.kind = "close"
      <3>1. open # <<>> /\ r = SubSeq(open, 1, Len(open) - 1)
        BY <1>1, <2>2
      <3>2. QED BY <1>2, <1>3, <1>4, <2>2, <3>1, StackPopped
    <2>3. CASE token.kind \notin {"open", "close"}
      <3>1. r = open
        BY <1>1, <2>3
      <3>2. QED BY <1>2, <1>3, <1>4, <2>3, <3>1, StackKept
    <2>4. QED BY <2>1, <2>2, <2>3
  <1>6. IsWritten(longer, r)
    BY <1>1, <1>5, TextGrows DEF WalkStands
  <1>7. QED BY <1>1, <1>6 DEF WalkStands

LEMMA UseIsInScope ==
  ASSUME WalkStands, NEW d \in DOMAIN tokens, Walk!InScope(d), NEW l, Unclosed(tokens, d, l)
  PROVE  Unclosed(tokens, Len(tokens), l)
PROOF
  <1>1. PICK n : n = Len(tokens)
    OBVIOUS
  <1>2. n \in Nat /\ DOMAIN tokens = 1..n /\ d \in 1..n /\ d \in Nat /\ IsStack(tokens, n, open)
    BY <1>1 DEF WalkStands, IsWritten
  <1>3. tokens[d].kind = "declare"
    BY DEF Walk!InScope
  <1>4. l \in 1..d /\ tokens[l].kind = "open" /\ l # d /\ \A x \in l..d : Level(tokens, x) >= Level(tokens, l)
    BY <1>3 DEF Unclosed
  <1>5. l \in 1..(d - 1) /\ l \in Nat /\ l # 0 /\ l - 1 \in Nat
    BY <1>2, <1>4
  <1>6. Level(tokens, l - 1) = Level(tokens, l) - 1 /\ Level(tokens, l) \in Int
    <2>1. Level(tokens, l) = Level(tokens, l - 1) + Rise(tokens[l]) /\ Rise(tokens[l]) = 1
      BY <1>4, <1>5, LevelFacts DEF Rise
    <2>2. Level(tokens, l) \in Int /\ Level(tokens, l - 1) \in Int
      BY <1>5, LevelFacts
    <2>3. QED BY <2>1, <2>2
  <1>7. ASSUME NEW e \in l..d PROVE ~ Walk!Balanced(l, e)
    <2>1. e \in Nat /\ 1 <= l /\ l <= e + 1
      BY <1>5
    <2>2. Level(tokens, e) # Level(tokens, l - 1)
      <3>1. Level(tokens, e) >= Level(tokens, l) /\ Level(tokens, e) \in Int
        BY <1>4, <2>1, LevelFacts
      <3>2. QED BY <1>6, <3>1
    <2>3. ~ IsEven(tokens, l, e)
      BY <1>5, <2>1, <2>2, EvenIsLevel
    <2>4. QED BY <2>3, WalkCounts
  <1>8. PICK i \in DOMAIN open : open[i] = l
    BY <1>4, <1>5, <1>7 DEF Walk!InScope
  <1>9. QED BY <1>1, <1>2, <1>8 DEF IsStack

LEMMA WriteKeeps ==
  ASSUME WalkStands,
         Walk!OpenLambda \/ Walk!CloseLambda \/ Walk!Declare \/ Walk!CallSomething \/ Walk!Use
  PROVE  WalkStands'
PROOF
  <1>1. CASE Walk!OpenLambda
    <2>1. PICK token : token = [kind |-> "open", local |-> None]
      OBVIOUS
    <2>2. token \in Tokens /\ token.kind = "open"
      BY <2>1 DEF Tokens
    <2>3. /\ ~ walking /\ tokens' = Append(tokens, token) /\ walking' = walking /\ at' = at
          /\ owner' = owner /\ collected' = collected /\ creations' = creations
          /\ open' = Append(open, Len(tokens) + 1)
      BY <1>1, <2>1 DEF Walk!OpenLambda, Walk!Write, Walk!Token
    <2>4. QED BY <2>2, <2>3, Written
  <1>2. CASE Walk!CloseLambda
    <2>1. PICK token : token = [kind |-> "close", local |-> None]
      OBVIOUS
    <2>2. token \in Tokens /\ token.kind = "close"
      BY <2>1 DEF Tokens
    <2>3. /\ ~ walking /\ tokens' = Append(tokens, token) /\ walking' = walking /\ at' = at
          /\ owner' = owner /\ collected' = collected /\ creations' = creations
          /\ open # <<>> /\ open' = SubSeq(open, 1, Len(open) - 1)
      BY <1>2, <2>1 DEF Walk!CloseLambda, Walk!Token
    <2>4. QED BY <2>2, <2>3, Written
  <1>3. CASE Walk!Declare \/ Walk!CallSomething
    <2>1. PICK kind \in {"declare", "call"} : Walk!Write(Walk!Token(kind, None)) /\ open' = open
      BY <1>3 DEF Walk!Declare, Walk!CallSomething
    <2>2. PICK token : token = [kind |-> kind, local |-> None]
      OBVIOUS
    <2>3. token \in Tokens /\ token.kind \in {"declare", "call"}
      BY <2>2 DEF Tokens
    <2>4. /\ ~ walking /\ tokens' = Append(tokens, token) /\ walking' = walking /\ at' = at
          /\ owner' = owner /\ collected' = collected /\ creations' = creations /\ open' = open
      BY <2>1, <2>2 DEF Walk!Write, Walk!Token
    <2>5. QED BY <2>3, <2>4, Written
  <1>4. CASE Walk!Use
    <2>1. PICK d \in DOMAIN tokens : Walk!InScope(d) /\ Walk!Write(Walk!Token("use", d)) /\ open' = open
      BY <1>4 DEF Walk!Use, Walk!Places
    <2>2. PICK token : token = [kind |-> "use", local |-> d]
      OBVIOUS
    <2>3. token \in Tokens /\ token.kind = "use" /\ token.local = d
      <3>1. d \in Nat
        BY DEF WalkStands, IsWritten
      <3>2. QED BY <2>2, <3>1 DEF Tokens
    <2>4. /\ ~ walking /\ tokens' = Append(tokens, token) /\ walking' = walking /\ at' = at
          /\ owner' = owner /\ collected' = collected /\ creations' = creations /\ open' = open
      BY <2>1, <2>2 DEF Walk!Write, Walk!Token
    <2>5. /\ token.local \in DOMAIN tokens /\ tokens[token.local].kind = "declare"
          /\ \A l : Unclosed(tokens, token.local, l) => Unclosed(tokens, Len(tokens), l)
      BY <2>1, <2>3, UseIsInScope DEF Walk!InScope
    <2>6. QED BY <2>3, <2>4, <2>5, Written
  <1>5. QED BY <1>1, <1>2, <1>3, <1>4

LEMMA EndOfTextKeeps ==
  ASSUME WalkStands, Walk!EndOfText
  PROVE  WalkStands'
PROOF
  <1>1. /\ ~ walking /\ open = <<>> /\ walking' = TRUE
        /\ tokens' = tokens /\ open' = open /\ at' = at /\ owner' = owner
        /\ collected' = collected /\ creations' = creations
    BY DEF Walk!EndOfText
  <1>2. at = 1 /\ owner = <<Callable>> /\ collected = {} /\ creations = {} /\ IsWritten(tokens, open)
    BY <1>1 DEF WalkStands
  <1>3. /\ Len(tokens) \in Nat /\ DOMAIN tokens = 1..Len(tokens)
        /\ at \in 1..(Len(tokens) + 1) /\ at - 1 = 0
    BY <1>2 DEF IsWritten
  <1>4. OwnersStand(tokens, 0, owner)
    <2>1. IsStack(tokens, 0, <<>>)
      BY LevelAtFirst DEF IsStack
    <2>2. <<Callable>> = <<Callable>> \o <<>>
      OBVIOUS
    <2>3. QED BY <1>2, <2>1, <2>2 DEF OwnersStand
  <1>5. CreationsBefore(tokens, 1) = {} /\ CallsBefore(tokens, 1) = {}
    <2>1. {m \in LambdasIn(tokens) : m < 1} = {}
      BY <1>3 DEF LambdasIn
    <2>2. {p \in {q \in DOMAIN tokens : tokens[q].kind = "call"} : p < 1} = {}
      BY <1>3
    <2>3. QED BY <2>1, <2>2 DEF CreationsBefore, CallsBefore
  <1>6. QED BY <1>1, <1>2, <1>3, <1>4, <1>5 DEF WalkStands

(* What the walk keeps of a text that is complete.                            *)
LEMMA Walking ==
  ASSUME WalkStands, walking
  PROVE  /\ Closes(tokens) /\ UsesInScope(tokens)
         /\ Len(tokens) \in Nat /\ DOMAIN tokens = 1..Len(tokens)
         /\ at \in 1..(Len(tokens) + 1) /\ OwnersStand(tokens, at - 1, owner)
         /\ creations = CreationsBefore(tokens, at) /\ collected = CallsBefore(tokens, at)
PROOF
  <1>1. IsWritten(tokens, open) /\ open = <<>>
    BY DEF WalkStands
  <1>2. Len(open) = 0 /\ Level(tokens, Len(tokens)) = Len(open)
    BY <1>1 DEF IsWritten, IsStack
  <1>3. Closes(tokens) /\ UsesInScope(tokens) /\ Len(tokens) \in Nat /\ DOMAIN tokens = 1..Len(tokens)
    BY <1>1, <1>2 DEF IsWritten, Closes
  <1>4. QED BY <1>3 DEF WalkStands

LEMMA BeforeNext ==
  ASSUME NEW k \in Nat, NEW S \in SUBSET Nat
  PROVE  {m \in S : m < k + 1} = {m \in S : m < k} \union (IF k \in S THEN {k} ELSE {})
PROOF
  <1>1. \A m \in S : m < k + 1 <=> m < k \/ m = k
    OBVIOUS
  <1>2. \A m : m \in {x \in S : x < k + 1}
                 <=> m \in {x \in S : x < k} \union (IF k \in S THEN {k} ELSE {})
    BY <1>1
  <1>3. QED BY <1>2

(* The owner on top is the one that the spans say, of a lambda that is        *)
(* created and of a call.                                                     *)
LEMMA OwnerOnTop ==
  ASSUME NEW text, Closes(text), NEW k \in Nat, k + 1 \in DOMAIN text, NEW s, IsStack(text, k, s)
  PROVE  /\ text[k + 1].kind = "open" =>
              (<<Callable>> \o s)[Len(<<Callable>> \o s)] = ContainingIn(text, k + 1)
         /\ text[k + 1].kind \notin {"open", "close"} =>
              (<<Callable>> \o s)[Len(<<Callable>> \o s)] = LocalOwnerIn(text, k + 1)
PROOF
  <1>1. PICK n, top : n = Len(text) /\ top = (<<Callable>> \o s)[Len(<<Callable>> \o s)]
    OBVIOUS
  <1>2. n \in Nat /\ DOMAIN text = 1..n /\ k \in 0..n /\ k + 1 \in 0..n /\ s \in Seq(Nat) /\ (k + 1) - 1 = k
    BY <1>1 DEF Closes, IsStack
  <1>3. top = IF s = <<>> THEN Callable ELSE s[Len(s)]
    BY <1>1, <1>2, OwnersOnTop
  <1>4. ASSUME text[k + 1].kind = "open" PROVE top = ContainingIn(text, k + 1)
    <2>1. PICK l : l = k + 1
      OBVIOUS
    <2>2. l \in LambdasIn(text) /\ l - 1 = k
      BY <1>2, <1>4, <2>1 DEF LambdasIn
    <2>3. ContainingIn(text, l) = SmallestIn(text, UnclosedAt(text, k))
      BY <2>2, ContainingSet
    <2>4. SmallestIn(text, UnclosedAt(text, k)) = IF s = <<>> THEN Callable ELSE s[Len(s)]
      BY <1>1, <1>2, TopIsSmallest
    <2>5. QED BY <1>3, <2>1, <2>3, <2>4
  <1>5. ASSUME text[k + 1].kind \notin {"open", "close"} PROVE top = LocalOwnerIn(text, k + 1)
    <2>1. PICK l : l = k + 1
      OBVIOUS
    <2>2. l \in DOMAIN text /\ text[l].kind \notin {"open", "close"} /\ l \in 0..Len(text)
      BY <1>1, <1>2, <1>5, <2>1
    <2>3. LocalOwnerIn(text, l) = SmallestIn(text, UnclosedAt(text, l))
      BY <2>2, OwningSet
    <2>4. IsStack(text, l, s)
      BY <1>5, <2>1, StackKept
    <2>5. SmallestIn(text, UnclosedAt(text, l)) = IF s = <<>> THEN Callable ELSE s[Len(s)]
      BY <2>2, <2>4, TopIsSmallest
    <2>6. QED BY <1>3, <2>1, <2>3, <2>5
  <1>6. QED BY <1>1, <1>4, <1>5

(* One step of the walk, whatever the token is.                               *)
LEMMA Walked ==
  ASSUME WalkStands, walking, NEW s, IsStack(tokens, at - 1, s), owner = <<Callable>> \o s,
         at \in DOMAIN tokens, tokens' = tokens, open' = open, walking' = walking, at' = at + 1,
         NEW r, IsStack(tokens, at, r), owner' = <<Callable>> \o r,
         creations' = CreationsBefore(tokens, at + 1), collected' = CallsBefore(tokens, at + 1)
  PROVE  WalkStands'
PROOF
  <1>1. at \in 1..Len(tokens) /\ Len(tokens) \in Nat
    BY Walking
  <1>2. at + 1 \in 1..(Len(tokens) + 1) /\ (at + 1) - 1 = at
    BY <1>1
  <1>3. OwnersStand(tokens, (at + 1) - 1, owner')
    BY <1>2 DEF OwnersStand
  <1>4. IsWritten(tokens, open) /\ open = <<>> /\ walking = TRUE
    BY DEF WalkStands
  <1>5. QED BY <1>2, <1>3, <1>4 DEF WalkStands

LEMMA CollectedNext ==
  ASSUME WalkStands, walking, at \in DOMAIN tokens
  PROVE  /\ CreationsBefore(tokens, at + 1)
              = creations \union (IF tokens[at].kind = "open"
                                  THEN {[owner |-> ContainingIn(tokens, at), lambda |-> at]} ELSE {})
         /\ CallsBefore(tokens, at + 1)
              = collected \union (IF tokens[at].kind = "call"
                                  THEN {[caller |-> LocalOwnerIn(tokens, at), at |-> at]} ELSE {})
PROOF
  <1>1. PICK S, C, k : /\ S = LambdasIn(tokens) /\ C = {q \in DOMAIN tokens : tokens[q].kind = "call"}
                       /\ k = at
    OBVIOUS
  <1>2. /\ S \in SUBSET Nat /\ C \in SUBSET Nat /\ k \in Nat
        /\ (k \in S <=> tokens[k].kind = "open") /\ (k \in C <=> tokens[k].kind = "call")
    <2>1. DOMAIN tokens \subseteq Nat
      BY Walking
    <2>2. QED BY <1>1, <2>1 DEF LambdasIn
  <1>3. /\ {m \in S : m < k + 1} = {m \in S : m < k} \union (IF k \in S THEN {k} ELSE {})
        /\ {m \in C : m < k + 1} = {m \in C : m < k} \union (IF k \in C THEN {k} ELSE {})
    BY <1>2, BeforeNext
  <1>4. CreationsBefore(tokens, k + 1)
          = CreationsBefore(tokens, k)
              \union (IF k \in S THEN {[owner |-> ContainingIn(tokens, k), lambda |-> k]} ELSE {})
    BY <1>1, <1>3 DEF CreationsBefore
  <1>5. CallsBefore(tokens, k + 1)
          = CallsBefore(tokens, k)
              \union (IF k \in C THEN {[caller |-> LocalOwnerIn(tokens, k), at |-> k]} ELSE {})
    BY <1>1, <1>3 DEF CallsBefore
  <1>6. creations = CreationsBefore(tokens, k) /\ collected = CallsBefore(tokens, k)
    BY <1>1, Walking
  <1>7. QED BY <1>1, <1>2, <1>4, <1>5, <1>6

LEMMA WalkKeeps ==
  ASSUME WalkStands, Walk!EnterLambda \/ Walk!LeaveLambda \/ Walk!CollectCall \/ Walk!PassOver
  PROVE  WalkStands'
PROOF
  <1>1. /\ walking /\ at \in DOMAIN tokens /\ at' = at + 1
        /\ tokens' = tokens /\ open' = open /\ walking' = walking
    BY DEF Walk!EnterLambda, Walk!LeaveLambda, Walk!CollectCall, Walk!PassOver, Walk!Places
  <1>2. Closes(tokens) /\ DOMAIN tokens = 1..Len(tokens) /\ Len(tokens) \in Nat
    BY <1>1, Walking
  <1>3. PICK s : IsStack(tokens, at - 1, s) /\ owner = <<Callable>> \o s
    BY <1>1, Walking DEF OwnersStand
  <1>4. PICK k : k = at - 1
    OBVIOUS
  <1>5. k \in Nat /\ at = k + 1 /\ IsStack(tokens, k, s) /\ s \in Seq(Nat) /\ k + 1 \in DOMAIN tokens /\ at \in Nat
    BY <1>1, <1>2, <1>3, <1>4 DEF IsStack
  <1>6. CASE Walk!EnterLambda
    <2>1. /\ tokens[at].kind = "open" /\ owner' = Append(owner, at) /\ collected' = collected
          /\ creations' = creations \union {[owner |-> Walk!Owner, lambda |-> at]}
      BY <1>6 DEF Walk!EnterLambda
    <2>2. IsStack(tokens, at, Append(s, at))
      BY <1>5, <2>1, StackPushed
    <2>3. owner' = <<Callable>> \o Append(s, at)
      BY <1>3, <1>5, <2>1, OwnersOnTop
    <2>4. Walk!Owner = ContainingIn(tokens, at)
      BY <1>2, <1>3, <1>5, <2>1, OwnerOnTop DEF Walk!Owner
    <2>5. /\ creations' = CreationsBefore(tokens, at + 1)
          /\ collected' = CallsBefore(tokens, at + 1)
      BY <1>1, <2>1, <2>4, CollectedNext
    <2>6. QED BY <1>1, <1>3, <2>2, <2>3, <2>5, Walked
  <1>7. CASE Walk!LeaveLambda
    <2>1. /\ tokens[at].kind = "close" /\ owner' = SubSeq(owner, 1, Len(owner) - 1)
          /\ collected' = collected /\ creations' = creations
      BY <1>7 DEF Walk!LeaveLambda
    <2>2. s # <<>>
      <3>1. Level(tokens, k + 1) \in Nat
        BY <1>2, <1>5 DEF Closes
      <3>2. Level(tokens, k + 1) = Level(tokens, k) + Rise(tokens[k + 1]) /\ Rise(tokens[k + 1]) = 0 - 1
        BY <1>5, <2>1, LevelSteps DEF Rise
      <3>3. Level(tokens, k) = Len(s) /\ Len(s) \in Nat
        BY <1>5 DEF IsStack
      <3>4. Len(s) # 0
        BY <3>1, <3>2, <3>3
      <3>5. QED BY <3>4
    <2>3. IsStack(tokens, at, SubSeq(s, 1, Len(s) - 1))
      BY <1>5, <2>1, <2>2, StackPopped
    <2>4. owner' = <<Callable>> \o SubSeq(s, 1, Len(s) - 1)
      BY <1>3, <1>5, <2>1, <2>2, OwnersOnTop
    <2>5. /\ creations' = CreationsBefore(tokens, at + 1)
          /\ collected' = CallsBefore(tokens, at + 1)
      BY <1>1, <2>1, CollectedNext
    <2>6. QED BY <1>1, <1>3, <2>3, <2>4, <2>5, Walked
  <1>8. CASE Walk!CollectCall
    <2>1. /\ tokens[at].kind = "call" /\ owner' = owner /\ creations' = creations
          /\ collected' = collected \union {[caller |-> Walk!Owner, at |-> at]}
      BY <1>8 DEF Walk!CollectCall
    <2>2. IsStack(tokens, at, s)
      BY <1>5, <2>1, StackKept
    <2>3. Walk!Owner = LocalOwnerIn(tokens, at)
      BY <1>2, <1>3, <1>5, <2>1, OwnerOnTop DEF Walk!Owner
    <2>4. /\ creations' = CreationsBefore(tokens, at + 1)
          /\ collected' = CallsBefore(tokens, at + 1)
      BY <1>1, <2>1, <2>3, CollectedNext
    <2>5. QED BY <1>1, <1>3, <2>1, <2>2, <2>4, Walked
  <1>9. CASE Walk!PassOver
    <2>1. /\ tokens[at].kind \in {"declare", "use"} /\ owner' = owner
          /\ creations' = creations /\ collected' = collected
      BY <1>9 DEF Walk!PassOver
    <2>2. IsStack(tokens, at, s)
      BY <1>5, <2>1, StackKept
    <2>3. /\ creations' = CreationsBefore(tokens, at + 1)
          /\ collected' = CallsBefore(tokens, at + 1)
      BY <1>1, <2>1, CollectedNext
    <2>4. QED BY <1>1, <1>3, <2>1, <2>2, <2>3, Walked
  <1>10. QED BY <1>6, <1>7, <1>8, <1>9

(* The inductive invariant of the walk and of the report after it.            *)
THEOREM WalkInvariance == ReportSpec => []WalkStands
PROOF
  <1>1. ReportInit => WalkStands
    BY WalkAtFirst DEF ReportInit
  <1>2. WalkStands /\ [ReportNext]_<<vars, walk>> => WalkStands'
    <2> SUFFICES ASSUME WalkStands, [ReportNext]_<<vars, walk>> PROVE WalkStands'
      OBVIOUS
    <2>1. CASE Walk!Next
      BY <2>1, WriteKeeps, EndOfTextKeeps, WalkKeeps DEF Walk!Next
    <2>2. CASE UNCHANGED walk
      BY <2>2 DEF walk, WalkStands
    <2>3. QED BY <2>1, <2>2 DEF ReportNext, Collect, Find, Report
  <1>3. QED BY <1>1, <1>2, PTL DEF ReportSpec

(* For a body of any length, with lambdas in and beside each other: the walk  *)
(* over the syntax and the spans name the same owner of every lambda and of   *)
(* every call (collect_owned_call_nodes, collect_lambda_symbols).             *)
THEOREM OwnersAlwaysAgree == ReportSpec => []OwnersAgree
PROOF
  <1>1. WalkStands => OwnersAgree
    <2> SUFFICES ASSUME WalkStands, walking, at \notin DOMAIN tokens
                 PROVE  /\ creations = {[owner |-> Walk!ContainingSymbol(l), lambda |-> l] : l \in Walk!Lambdas}
                        /\ collected = {[caller |-> Walk!LocalOwner(i), at |-> i] :
                                          i \in {p \in Walk!Places : tokens[p].kind = "call"}}
      BY DEF OwnersAgree, Walk!OwnersAgree, Walk!Walked, Walk!Places
    <2>1. /\ DOMAIN tokens = 1..Len(tokens) /\ Len(tokens) \in Nat /\ at = Len(tokens) + 1
          /\ creations = CreationsBefore(tokens, at) /\ collected = CallsBefore(tokens, at)
      BY Walking
    <2>2. \A p \in DOMAIN tokens : p < at
      BY <2>1
    <2>3. {m \in LambdasIn(tokens) : m < at} = LambdasIn(tokens)
      BY <2>2 DEF LambdasIn
    <2>4. {p \in {q \in DOMAIN tokens : tokens[q].kind = "call"} : p < at}
            = {p \in Walk!Places : tokens[p].kind = "call"}
      BY <2>2 DEF Walk!Places
    <2>5. creations = {[owner |-> Walk!ContainingSymbol(l), lambda |-> l] : l \in Walk!Lambdas}
      BY <2>1, <2>3, WalkSpans, WalkOwners DEF CreationsBefore
    <2>6. collected = {[caller |-> Walk!LocalOwner(i), at |-> i] :
                         i \in {p \in Walk!Places : tokens[p].kind = "call"}}
      BY <2>1, <2>4, WalkOwners DEF CallsBefore
    <2>7. QED BY <2>5, <2>6
  <1>2. QED BY <1>1, WalkInvariance, PTL

(* However lambdas lie in each other, what a lambda captures is a local of    *)
(* the symbol that creates it, or is captured by that symbol itself           *)
(* (lambda_captures).                                                         *)
THEOREM CapturesAreAlwaysAtHand == ReportSpec => []CapturesAreAtHand
PROOF
  <1>1. WalkStands => CapturesAreAtHand
    <2> SUFFICES ASSUME WalkStands, walking, NEW c \in creations, NEW d \in Walk!Captures(c.lambda)
                 PROVE  \/ Walk!LocalOwner(d) = c.owner
                        \/ c.owner # Callable /\ d \in Walk!Captures(c.owner)
      BY DEF CapturesAreAtHand, Walk!CapturesAreAtHand, Walk!Walked
    <2>1. Closes(tokens) /\ UsesInScope(tokens) /\ creations = CreationsBefore(tokens, at)
      BY Walking
    <2>2. PICK l \in LambdasIn(tokens) : c = [owner |-> ContainingIn(tokens, l), lambda |-> l]
      BY <2>1 DEF CreationsBefore
    <2>3. d \in CapturesIn(tokens, l)
      BY <2>2, WalkOwners
    <2>4. \/ LocalOwnerIn(tokens, d) = ContainingIn(tokens, l)
          \/ ContainingIn(tokens, l) # Callable /\ d \in CapturesIn(tokens, ContainingIn(tokens, l))
      BY <2>1, <2>3, CapturedAtHand
    <2>5. QED BY <2>2, <2>4, WalkOwners
  <1>2. QED BY <1>1, WalkInvariance, PTL
=============================================================================
