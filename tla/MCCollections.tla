--------------------------- MODULE MCCollections ---------------------------
EXTENDS CollectionMachine

CONSTANTS f, g, x

MCTarget == {f, g}
MCForeign == {x}
MCKeys == {IntKey(0), IntKey(1)}
MCKey == ({"int"} \X Nat) \cup {Dynamic, MapValue, TvmTuple, First, Second}
NoEntries == [k \in {} |-> x]

Start(k, v, contents, used) ==
  [kind |-> k, value |-> v, store |-> contents, methods |-> used]

(* One method for each arm of the code, so that the runs do not repeat the *)
(* same step under two names.                                              *)
OnePerArm ==
  UNION {Writes(k) : k \in {"Array", "Map", "LispList"}}
    \ {"setAndGetPrevious", "replaceAndGetPrevious", "addOrGetExisting", "deleteAndGetDeleted"}
AddOnly == {"addIfNotExists", "addOrGetExisting"}

(* Empty and literal collections, whose contents the program knows.        *)
Known ==
  {Start("Array", ArrayLiteral(<<>>), <<>>, OnePerArm),
   Start("Array", ArrayLiteral(<<TargetValue(f), TargetValue(g)>>), <<f, g>>, OnePerArm),
   Start("Map", EmptyAggregate, NoEntries, OnePerArm),
   Start("LispList", ListLiteral(<<>>), <<>>, OnePerArm),
   Start("LispList", ListLiteral(<<TargetValue(f)>>), <<f>>, OnePerArm)}

(* Collections that come from outside: a parameter of an entrypoint.       *)
ExternalMap(used) ==
  {Start("Map", Unknown, m, used) : m \in {NoEntries, [k \in {IntKey(0)} |-> x]}}
External(used) ==
  {Start("Array", Unknown, s, used) : s \in {<<>>, <<x>>}}
    \cup {Start("LispList", Unknown, <<x>>, used)} \cup ExternalMap(used)

(* All methods but the conditional adds, whose effect on a map of unknown  *)
(* contents is looked at alone.                                            *)
WithoutAdd == {"push", "pop", "set", "replaceIfExists", "deleteAndGetDeleted",
               "prependHead", "popHead"}

KnownAndExternal == Known \cup External(WithoutAdd)
ExternalMapAdd == ExternalMap(AddOnly)

(* The theorems of CollectionProofs assume this of the starts; it is what  *)
(* a conditional add on a map from outside lacks.                          *)
ASSUME KnownAndExternalAreSound ==
  /\ \A start \in KnownAndExternal :
       IsDescribed(start.kind, start.methods, start.value, start.store)
  /\ \A start \in ExternalMapAdd :
       ~IsDescribed(start.kind, start.methods, start.value, start.store)

=============================================================================
