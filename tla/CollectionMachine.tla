------------------------- MODULE CollectionMachine -------------------------
(***************************************************************************)
(* One collection of callables while a program runs, beside the abstract   *)
(* value that the analysis keeps for the local that holds it.  Each action *)
(* is one method call: it changes the concrete collection as the Tolk      *)
(* runtime does and the abstract value as apply_collection_mutations does. *)
(* Fork and Join are a branch of the control flow and the point where it   *)
(* meets the other branch.                                                 *)
(***************************************************************************)
EXTENDS Collections

CONSTANTS Foreign,    \* callables that come from outside the analysed program
          Keys,       \* the constant keys and indexes that calls use
          MaxLength,  \* bound on the elements of an array or a list
          MaxCalls,   \* bound on the calls of one behaviour
          Starts      \* the collections the local may start with: records of
                      \* kind, abstract value, concrete contents, and the
                      \* methods that the program uses on it

ASSUME BoundsAssumption == MaxLength \in Nat /\ MaxCalls \in Nat /\ Foreign \cap Target = {}

VARIABLES
  kind,    \* the collection kind of the local
  methods, \* the methods the program uses on it
  value,   \* the abstract value the analysis has for it
  store,   \* what it holds: a sequence, or for a map a function
  saved,   \* the pair (value, store) of the branch not taken, or <<>>
  calls    \* number of calls made

vars == <<kind, methods, value, store, saved, calls>>

Callable == Target \cup Foreign

(***************************************************************************)
(* A value argument: the callable passed and what the analysis knows of    *)
(* the expression that passes it.                                          *)
(***************************************************************************)
Arguments ==
  {<<c, TargetValue(c)>> : c \in Target} \cup {<<c, Unknown>> : c \in Callable}

(* A key argument: the key at run time and whether the analysis can read   *)
(* it as a constant.                                                       *)
KeyArguments == Keys \X (Keys \cup {NoKey})
Fits(key) == key[2] \in {key[1], NoKey}

Init ==
  \E start \in Starts :
    /\ kind = start.kind
    /\ methods = start.methods
    /\ value = start.value
    /\ store = start.store
    /\ saved = <<>>
    /\ calls = 0

Call(method, key, w) ==
  /\ method \in methods
  /\ calls < MaxCalls
  /\ calls' = calls + 1
  /\ value' = Written(kind, method, value, key, w)
  /\ UNCHANGED <<kind, methods, saved>>

ArrayPush ==
  /\ kind = "Array" /\ Len(store) < MaxLength
  /\ \E arg \in Arguments :
       Call("push", NoKey, arg[2]) /\ store' = Append(store, arg[1])

ArraySet ==
  /\ kind = "Array"
  /\ \E i \in DOMAIN store, constant \in BOOLEAN, arg \in Arguments :
       /\ Call("set", IF constant THEN IntKey(i - 1) ELSE NoKey, arg[2])
       /\ store' = [store EXCEPT ![i] = arg[1]]

ArrayPopLast ==
  /\ kind = "Array" /\ store # <<>>
  /\ Call("pop", NoKey, Unknown)
  /\ store' = Front(store)

ListPrepend ==
  /\ kind = "LispList" /\ Len(store) < MaxLength
  /\ \E arg \in Arguments :
       Call("prependHead", NoKey, arg[2]) /\ store' = <<arg[1]>> \o store

ListPop ==
  /\ kind = "LispList" /\ store # <<>>
  /\ Call("popHead", NoKey, Unknown)
  /\ store' = Tail(store)

With(map, key, c) == [k \in DOMAIN map \cup {key} |-> IF k = key THEN c ELSE map[k]]

MapStore ==
  /\ kind = "Map"
  /\ \E key \in KeyArguments, arg \in Arguments, method \in Stores :
       /\ Fits(key) /\ Call(method, key[2], arg[2])
       /\ store' = With(store, key[1], arg[1])

MapReplace ==
  /\ kind = "Map"
  /\ \E key \in KeyArguments, arg \in Arguments,
         method \in {"replaceIfExists", "replaceAndGetPrevious"} :
       /\ Fits(key) /\ Call(method, key[2], arg[2])
       /\ store' = IF key[1] \in DOMAIN store THEN With(store, key[1], arg[1]) ELSE store

MapAdd ==
  /\ kind = "Map"
  /\ \E key \in KeyArguments, arg \in Arguments,
         method \in {"addIfNotExists", "addOrGetExisting"} :
       /\ Fits(key) /\ Call(method, key[2], arg[2])
       /\ store' = IF key[1] \in DOMAIN store THEN store ELSE With(store, key[1], arg[1])

MapDeleteEntry ==
  /\ kind = "Map"
  /\ \E key \in KeyArguments, method \in Deletes :
       /\ Fits(key) /\ Call(method, key[2], Unknown)
       /\ store' = [k \in DOMAIN store \ {key[1]} |-> store[k]]

(* The program reaches a branch: the other branch starts from here.        *)
Fork ==
  /\ saved = <<>>
  /\ saved' = <<value, store>>
  /\ UNCHANGED <<kind, methods, value, store, calls>>

(* The branches meet: merge_callable_states merges the two values in the   *)
(* order the worklist delivered them, and either branch was the one run.   *)
Join2 ==
  /\ saved # <<>>
  /\ value' \in {Merge(saved[1], value), Merge(value, saved[1])}
  /\ store' \in {store, saved[2]}
  /\ saved' = <<>>
  /\ UNCHANGED <<kind, methods, calls>>

Next ==
  \/ ArrayPush \/ ArraySet \/ ArrayPopLast
  \/ ListPrepend \/ ListPop
  \/ MapStore \/ MapReplace \/ MapAdd \/ MapDeleteEntry
  \/ Fork \/ Join2

Spec == Init /\ [][Next]_vars

-----------------------------------------------------------------------------
(* A value describes a callable it may denote: a call through it that is   *)
(* reported complete lists the callable among its targets.                 *)
Describes(v, c) == ReportsComplete(v) => c \in Targets(v)

(* Whatever an array method returns is described by the value the analysis *)
(* gives the call: get at a constant and at an unknown index, first, last  *)
(* and pop.                                                                *)
ArrayReadsAreSound ==
  kind = "Array" =>
    /\ \A i \in DOMAIN store : \A key \in {IntKey(i - 1), NoKey} :
         Describes(Returned(kind, "get", value, key, Unknown), store[i])
    /\ store # <<>> =>
         /\ Describes(Returned(kind, "first", value, NoKey, Unknown), store[1])
         /\ Describes(Returned(kind, "last", value, NoKey, Unknown), store[Len(store)])

(* While the analysis tracks the length of an array, the real length is    *)
(* one of the tracked ones; push and pop rely on it to choose slots.       *)
LengthIsTracked ==
  kind = "Array" /\ value[<<>>].lengths # {} => Len(store) \in value[<<>>].lengths

(* Whatever a map method returns is described: mustGet, a lookup followed  *)
(* by loadValue, and the ordered traversals.                               *)
MapReadsAreSound ==
  kind = "Map" =>
    \A k \in DOMAIN store :
      /\ \A key \in {k, NoKey} :
           /\ Describes(Returned(kind, "mustGet", value, key, Unknown), store[k])
           /\ Describes(Member(Returned(kind, "get", value, key, Unknown), MapValue), store[k])
      /\ Describes(Member(Returned(kind, "findFirst", value, NoKey, Unknown), MapValue), store[k])

(* The head of every tail of a list is described.                          *)
ListReadsAreSound ==
  kind = "LispList" =>
    \A i \in DOMAIN store :
      Describes(ListHead(FoldLeft(LAMBDA list, n : ListTail(list), value, [n \in 1 .. (i - 1) |-> n])),
                store[i])

(* Packing a collection into a low-level tuple and unpacking it elsewhere  *)
(* (toTuple, fromTuple) loses the layout but no element.                   *)
PackingKeepsElements ==
  \A k \in DOMAIN store :
    \A slot \in {IntKey(0), FieldKey("0")} :
      Describes(Member(UnpackedTuple(PackedTuple(value)), slot), store[k])

-----------------------------------------------------------------------------
(***************************************************************************)
(* What the reads rest on: a description of the contents that every call,  *)
(* fork and join keeps.  A node covers a callable when it is not bottom    *)
(* and lists it if it is complete.                                         *)
(***************************************************************************)
Covers(label, c) == ~label.bottom /\ (label.complete => c \in label.targets)

(* The entry under a key is covered where the key leads, or by what was    *)
(* written under keys the analysis does not know.                          *)
EntryIsCovered(v, key, c) ==
  \/ Covers(LabelOr(v, <<key>>), c)
  \/ <<Dynamic>> \in DOMAIN v /\ Covers(v[<<Dynamic>>], c)

(* Push merges into the slot of every tracked length and would make one    *)
(* that is missing, which may only stand for nothing.                      *)
ArrayIsDescribed(v, contents) ==
  /\ \A i \in DOMAIN contents : EntryIsCovered(v, IntKey(i - 1), contents[i])
  /\ v[<<>>].lengths # {} => Len(contents) \in v[<<>>].lengths /\ v[<<>>].membersComplete
  /\ IsFiniteSet(v[<<>>].lengths)

(* A conditional add makes a missing entry in the same way.                *)
Adds == {"addIfNotExists", "addOrGetExisting"}
MapIsDescribed(v, contents, used) ==
  /\ \A k \in DOMAIN contents : EntryIsCovered(v, k, contents[k])
  /\ used \cap Adds # {} => v[<<>>].membersComplete

(* A list goes down through tvmTuple and second members in turn.           *)
Other(key) == IF key = TvmTuple THEN Second ELSE TvmTuple
OnSpine(p, key) == \A j \in 1 .. Len(p) : p[j] = IF j % 2 = 1 THEN key ELSE Other(key)
SpineIsPlain(v, key) ==
  \A p \in DOMAIN v : OnSpine(p, key) =>
    ~v[p].bottom /\ v[p].targets = {} /\ Append(p, Dynamic) \notin DOMAIN v

(* The head of cell n, and that it is covered: where its path ends early,  *)
(* the node it ends at does not know its members.                          *)
HeadOf(n) == [j \in 1 .. 2 * n |->
                IF j = 2 * n THEN First ELSE IF j % 2 = 1 THEN TvmTuple ELSE Second]
HeadIsCovered(v, p, c) ==
  IF p \in DOMAIN v THEN Covers(v[p], c)
  ELSE \A i \in 0 .. (Len(p) - 1) :
         Upto(p, i) \in DOMAIN v /\ Upto(p, i + 1) \notin DOMAIN v =>
           ~v[Upto(p, i)].membersComplete
ListIsDescribed(v, contents) ==
  /\ SpineIsPlain(v, TvmTuple)
  /\ \A i \in DOMAIN contents : HeadIsCovered(v, HeadOf(i), contents[i])

IsDescribed(k, used, v, contents) ==
  /\ k \in {"Array", "Map", "LispList"}
  /\ IsValue(v) /\ Normal(v) /\ IsFiniteSet(DOMAIN v)
  /\ ~IsBottom(v) /\ v[<<>>].targets = {}
  /\ k = "Array" => contents \in Seq(Callable) /\ ArrayIsDescribed(v, contents)
  /\ k = "Map" => DOMAIN contents \subseteq Keys /\ MapIsDescribed(v, contents, used)
  /\ k = "LispList" => contents \in Seq(Callable) /\ ListIsDescribed(v, contents)

(* The branch that runs and the branch that waits are both described.      *)
ContentsAreDescribed ==
  /\ IsDescribed(kind, methods, value, store)
  /\ saved # <<>> => IsDescribed(kind, methods, saved[1], saved[2])

=============================================================================
