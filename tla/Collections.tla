---------------------------- MODULE Collections ----------------------------
(***************************************************************************)
(* What the methods of the standard collections do to the abstract value   *)
(* of their receiver, and what they return: the arms of                    *)
(* apply_collection_mutations, collection_call_value and                   *)
(* callable_value_depth for array, map and lisp_list                       *)
(* (crates/tolk-inspect-core/src/lib.rs).                                  *)
(*                                                                         *)
(* A key argument is a member of Key when collection_key can read it as a  *)
(* constant, and NoKey when it cannot.                                     *)
(***************************************************************************)
EXTENDS CallableValue

NoKey == <<"none", 0>>

(* collection_lookup                                                       *)
Lookup(v, key) == IF key = NoKey THEN AnyMember(v) ELSE Member(v, key)

(* A write at a constant key replaces the entry, at any other key it may   *)
(* have landed anywhere.                                                   *)
Insert(v, key, w) == IF key = NoKey THEN SetDynamicMember(v, w) ELSE Put(v, <<key>>, w)

(***************************************************************************)
(* Arrays.                                                                 *)
(***************************************************************************)
ArrayLiteral(elements) ==
  FoldLeftDomain(LAMBDA array, i : Put(array, <<IntKey(i - 1)>>, elements[i]),
                 Leaf([AggregateLabel EXCEPT !.lengths = {Len(elements)}]), elements)

ArrayFirst(v) == Member(v, IntKey(0))

ArrayLast(v) ==
  LET lengths == v[<<>>].lengths
  IN  IF lengths = {} THEN AnyMember(v)
      ELSE FoldSet(LAMBDA n, value : Merge(value, Member(v, IntKey(n - 1))),
                   Bottom, lengths \ {0})

ArrayPop(v) ==
  [v EXCEPT ![<<>>].lengths = {IF n = 0 THEN 0 ELSE n - 1 : n \in @}]

(***************************************************************************)
(* Maps.                                                                   *)
(***************************************************************************)
(* Faulty: a conditional write is taken to happen.                         *)
MapOfferAlways(v, key, w) == Insert(v, key, w)

(* replaceIfExists, replaceAndGetPrevious, addIfNotExists and              *)
(* addOrGetExisting: the entry keeps what it had or gets the value.        *)
MapOffer(v, key, w) == IF key = NoKey THEN SetDynamicMember(v, w) ELSE MergeMember(v, key, w)

MapDelete(v, key) == IF key = NoKey THEN v ELSE RemoveMember(v, key)

(* map_lookup_result: a lookup that may fail returns a result object whose *)
(* loadValue gives the value.                                              *)
MapLookupResult(v) == Put(EmptyAggregate, <<MapValue>>, v)

(***************************************************************************)
(* Lisp lists: an object whose tvmTuple member is a pair of head and tail. *)
(***************************************************************************)
TvmTuple == FieldKey("tvmTuple")
First == FieldKey("0")
Second == FieldKey("1")

Pair(head, tail) == Put(Put(EmptyAggregate, <<First>>, head), <<Second>>, tail)

EmptyList == Put(EmptyAggregate, <<TvmTuple>>, NonCallable)

(* lisp_list_value of a literal cast                                       *)
ListLiteral(elements) ==
  FoldRight(LAMBDA element, list : Put(EmptyAggregate, <<TvmTuple>>, Pair(element, list)),
            elements, EmptyList)

ListHead(v) == Member(Member(v, TvmTuple), First)
ListTail(v) == Member(Member(v, TvmTuple), Second)

(* Faulty: the tail is mistaken for its pair.                              *)
PopHeadToTail(v) == Put(v, <<TvmTuple>>, ListTail(v))

PrependHead(v, w) == Put(v, <<TvmTuple>>, Pair(w, v))
PopHead(v) == Put(v, <<TvmTuple>>, Member(ListTail(v), TvmTuple))

(***************************************************************************)
(* The arms by method name.  Reads are the methods that return a tracked   *)
(* value without changing the receiver, Writes those that change it; some  *)
(* writes return a value too, taken from the receiver before the change.   *)
(***************************************************************************)
Stores == {"set", "setAndGetPrevious"}
Offers == {"replaceIfExists", "replaceAndGetPrevious", "addIfNotExists", "addOrGetExisting"}
Deletes == {"delete", "deleteAndGetDeleted"}
Traversals == {"findFirst", "findLast", "findKeyGreater", "findKeyGreaterOrEqual",
               "findKeyLess", "findKeyLessOrEqual", "iterateNext", "iteratePrev"}

Writes(kind) ==
  CASE kind = "Array" -> {"push", "set", "pop"}
    [] kind = "Map" -> Stores \cup Offers \cup Deletes
    [] kind = "LispList" -> {"prependHead", "popHead"}

Results(kind) ==
  CASE kind = "Array" -> {"get", "first", "last", "pop"}
    [] kind = "Map" -> {"get", "mustGet", "toLowLevelDict", "set", "setAndGetPrevious",
                        "replaceAndGetPrevious", "addOrGetExisting", "deleteAndGetDeleted"}
                       \cup Traversals
    [] kind = "LispList" -> {"getHead", "popHead", "getTail"}

(* The receiver after a call of a method of Writes(kind); w is the value   *)
(* argument of the methods that have one.                                  *)
Written(kind, method, v, key, w) ==
  CASE kind = "Array" /\ method = "push" -> PushArrayMember(v, w)
    [] kind = "Array" /\ method = "set" -> Insert(v, key, w)
    [] kind = "Array" /\ method = "pop" -> ArrayPop(v)
    [] kind = "Map" /\ method \in Stores -> Insert(v, key, w)
    [] kind = "Map" /\ method \in Offers -> MapOffer(v, key, w)
    [] kind = "Map" /\ method \in Deletes -> MapDelete(v, key)
    [] kind = "LispList" /\ method = "prependHead" -> PrependHead(v, w)
    [] kind = "LispList" /\ method = "popHead" -> PopHead(v)

(* What a call of a method of Results(kind) returns.                       *)
Returned(kind, method, v, key, w) ==
  CASE kind = "Array" /\ method = "get" -> Lookup(v, key)
    [] kind = "Array" /\ method = "first" -> ArrayFirst(v)
    [] kind = "Array" /\ method \in {"last", "pop"} -> ArrayLast(v)
    [] kind = "LispList" /\ method \in {"getHead", "popHead"} -> ListHead(v)
    [] kind = "LispList" /\ method = "getTail" -> ListTail(v)
    [] kind = "Map" /\ method = "mustGet" -> Lookup(v, key)
    [] kind = "Map" /\ method = "toLowLevelDict" -> v
    [] kind = "Map" /\ method = "set" -> Insert(v, key, w)
    [] kind = "Map" /\ method \in Traversals -> MapLookupResult(AnyMember(v))
    [] kind = "Map" /\ method \in Results("Map") \ (Traversals \cup {"mustGet", "toLowLevelDict", "set"}) ->
         MapLookupResult(Lookup(v, key))

=============================================================================
