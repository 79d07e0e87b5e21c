------------------------------ MODULE CallSites ------------------------------
(* normalize_call_sites, and the call graph that is made of its result. The   *)
(* analysis finds call sites in the order of bodies, rounds and dispatches;   *)
(* entries of one key are one call site, whose targets are those of all of    *)
(* them and which is complete only if all of them are. The code sorts, and    *)
(* compares each entry with the last one it kept.                             *)
EXTENDS Naturals, Sequences

CONSTANTS
  Keys,      \* location, caller and dispatch, in the order of call_site_key
  Callables, \* what a call can reach
  MaxSites   \* bounds the call sites of one input

ASSUME KeysAssumption == Keys \subseteq Nat
ASSUME MaxSitesAssumption == MaxSites \in Nat

(* Targets are a set: they are sorted and deduplicated wherever they change. *)
Sites == [key: Keys, targets: SUBSET Callables, complete: BOOLEAN]
Inputs == UNION {[1..n -> Sites] : n \in 0..MaxSites}

VARIABLES
  found,   \* the call sites as they were found
  order,   \* the positions of found in the order of the sort
  next,    \* the entry of order that is compared next
  merged,  \* the entries that were kept
  calls,   \* the edges of the call graph
  stage    \* "sort", "merge", "flatten" or "reported"

vars == <<found, order, next, merged, calls, stage>>
-----------------------------------------------------------------------------
Site(i) == found[order[i]]

(* Faulty: the entries stay in the order they were found in.                  *)
SortNot ==
  /\ stage = "sort"
  /\ order' = [i \in DOMAIN found |-> i]
  /\ stage' = "merge"
  /\ UNCHANGED <<found, next, merged, calls>>

(* sort_by compares the keys only; the code's sort is stable, which entries   *)
(* of equal keys cannot tell.                                                 *)
Sort ==
  /\ stage = "sort"
  /\ order' \in [DOMAIN found -> DOMAIN found]
  /\ \A i \in DOMAIN found : \E j \in DOMAIN found : order'[j] = i
  /\ \A i, j \in DOMAIN found : order'[i] = order'[j] => i = j
  /\ \A i, j \in DOMAIN found : i < j => found[order'[i]].key <= found[order'[j]].key
  /\ stage' = "merge"
  /\ UNCHANGED <<found, next, merged, calls>>

(* Faulty: the last entry of a key decides completeness alone.                *)
UniteLastWins(site, other) ==
  [site EXCEPT !.targets = @ \union other.targets, !.complete = other.complete]

Unite(site, other) ==
  [site EXCEPT !.targets = @ \union other.targets, !.complete = @ /\ other.complete]

SameAsLast == merged # <<>> /\ merged[Len(merged)].key = Site(next).key

Absorb ==
  /\ stage = "merge"
  /\ next \in DOMAIN order
  /\ SameAsLast
  /\ merged' = [merged EXCEPT ![Len(merged)] = Unite(@, Site(next))]
  /\ next' = next + 1
  /\ UNCHANGED <<found, order, calls, stage>>

Keep ==
  /\ stage = "merge"
  /\ next \in DOMAIN order
  /\ ~ SameAsLast
  /\ merged' = Append(merged, Site(next))
  /\ next' = next + 1
  /\ UNCHANGED <<found, order, calls, stage>>

Normalized ==
  /\ stage = "merge"
  /\ next \notin DOMAIN order
  /\ stage' = "flatten"
  /\ UNCHANGED <<found, order, next, merged, calls>>

(* Faulty: only calls whose targets are all known become edges.               *)
FlattenComplete ==
  /\ stage = "flatten"
  /\ calls' = {e \in Keys \X Callables :
                 \E i \in DOMAIN merged :
                   /\ merged[i].complete
                   /\ merged[i].key = e[1] /\ e[2] \in merged[i].targets}
  /\ stage' = "reported"
  /\ UNCHANGED <<found, order, next, merged>>

(* One edge for each target of each call site; sorted and deduplicated. *)
Flatten ==
  /\ stage = "flatten"
  /\ calls' = {e \in Keys \X Callables :
                 \E i \in DOMAIN merged : merged[i].key = e[1] /\ e[2] \in merged[i].targets}
  /\ stage' = "reported"
  /\ UNCHANGED <<found, order, next, merged>>

Init ==
  /\ found \in Inputs
  /\ order = [i \in DOMAIN found |-> i]
  /\ next = 1
  /\ merged = <<>>
  /\ calls = {}
  /\ stage = "sort"

Next == Sort \/ Absorb \/ Keep \/ Normalized \/ Flatten

Spec == Init /\ [][Next]_vars
-----------------------------------------------------------------------------
TypeOK ==
  /\ found \in Seq(Sites)
  /\ order \in [DOMAIN found -> DOMAIN found]
  /\ next \in 1..(Len(found) + 1)
  /\ merged \in Seq(Sites)
  /\ calls \in SUBSET (Keys \X Callables)
  /\ stage \in {"sort", "merge", "flatten", "reported"}

(* Whatever order the call sites were found in, there is one entry for each   *)
(* key, and the entries are in the order of their keys.                       *)
OneEntryPerKey ==
  \A i, j \in DOMAIN merged : i < j => merged[i].key < merged[j].key

(* The entries say exactly what the analysis found: a target is listed if and *)
(* only if it was found somewhere under this key, a call is complete if and   *)
(* only if it was complete everywhere, and no key is missing.                 *)
EntriesAreWhatWasFound ==
  stage \in {"flatten", "reported"} =>
    /\ \A i \in DOMAIN found : \E j \in DOMAIN merged : merged[j].key = found[i].key
    /\ \A j \in DOMAIN merged :
         /\ \A t \in Callables :
              t \in merged[j].targets <=>
                \E i \in DOMAIN found : found[i].key = merged[j].key /\ t \in found[i].targets
         /\ merged[j].complete <=>
              \A i \in DOMAIN found : found[i].key = merged[j].key => found[i].complete

(* The call graph is the call sites flattened: every target that was found    *)
(* for a call is an edge, also where the call is incomplete, and every edge   *)
(* is a target of an entry.                                                   *)
GraphIsTheSites ==
  stage = "reported" =>
    \A e \in Keys \X Callables :
      e \in calls <=>
        \E i \in DOMAIN found : found[i].key = e[1] /\ e[2] \in found[i].targets
=============================================================================
