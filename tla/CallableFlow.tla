---------------------------- MODULE CallableFlow ----------------------------
(***************************************************************************)
(* How the analysis evaluates an expression of the program and what one    *)
(* node of a control-flow graph does to the values of the locals:          *)
(* callable_value_depth with the helpers it calls, and                     *)
(* transfer_callable_state with the three kinds of write it applies        *)
(* (crates/tolk-inspect-core/src/lib.rs).  The operators recurse over the  *)
(* syntax tree as the code does, so this module is for TLC only.           *)
(*                                                                         *)
(* A syntax node is a record whose `op` is its kind.  A dot access carries *)
(* what resolution and type inference found: the method or function its    *)
(* field resolves to, and the collection kind of its object.               *)
(***************************************************************************)
EXTENDS Collections

CONSTANT MaxDepth  \* the depth at which evaluation gives up: 12 in the code

NoSymbol == "-"
NoKind == "none"

(***************************************************************************)
(* Syntax.                                                                 *)
(***************************************************************************)
Local(name) == [op |-> "local", name |-> name]
Function(symbol) == [op |-> "function", symbol |-> symbol]
Lambda(symbol) == [op |-> "lambda", symbol |-> symbol]
Literal(key) == [op |-> "literal", key |-> key]
Number(n) == Literal(IntKey(n))
Opaque == [op |-> "opaque"]
Field(obj, field) ==
  [op |-> "dot", obj |-> obj, field |-> field, method |-> NoSymbol, kind |-> NoKind]
Method(obj, kind, field) ==
  [op |-> "dot", obj |-> obj, field |-> field, method |-> field, kind |-> kind]
Generic(inner) == [op |-> "generic", inner |-> inner]
Parens(inner) == [op |-> "parens", inner |-> inner]
NotNull(inner) == [op |-> "notNull", inner |-> inner]
Cast(inner, from, to) == [op |-> "cast", inner |-> inner, from |-> from, to |-> to]
Ternary(then, else) == [op |-> "ternary", then |-> then, else |-> else]
Tensor(elements) == [op |-> "tensor", elements |-> elements]
Array(elements) == [op |-> "array", elements |-> elements]
Object(names, elements) == [op |-> "object", names |-> names, elements |-> elements]
Call(callee, args) == [op |-> "call", callee |-> callee, args |-> args]
CallMethod(obj, kind, field, args) == Call(Method(obj, kind, field), args)

Wrappers == {"generic", "parens", "notNull"}

SubExpressions(e) ==
  CASE e.op = "dot" -> <<e.obj>>
    [] e.op \in Wrappers \cup {"cast"} -> <<e.inner>>
    [] e.op = "ternary" -> <<e.then, e.else>>
    [] e.op \in {"tensor", "array", "object"} -> e.elements
    [] e.op = "call" -> <<e.callee>> \o e.args
    [] OTHER -> <<>>

(* The calls of an expression, innermost first, without those in the body  *)
(* of a lambda.                                                            *)
RECURSIVE CallsIn(_)
CallsIn(e) ==
  FlattenSeq([i \in DOMAIN SubExpressions(e) |-> CallsIn(SubExpressions(e)[i])])
    \o (IF e.op = "call" THEN <<e>> ELSE <<>>)

(* The callee without its type arguments.                                  *)
Bare(callee) == IF callee.op = "generic" THEN callee.inner ELSE callee

(* direct_callable_target                                                  *)
RECURSIVE DirectTarget(_)
DirectTarget(e) ==
  CASE e.op = "function" -> e.symbol
    [] e.op = "dot" -> e.method
    [] e.op \in Wrappers \cup {"cast"} -> DirectTarget(e.inner)
    [] OTHER -> NoSymbol

(* collection_key: the constant an index or key argument stands for.       *)
RECURSIVE ConstantKey(_)
ConstantKey(e) ==
  CASE e.op = "literal" -> e.key
    [] e.op \in {"parens", "notNull", "cast"} -> ConstantKey(e.inner)
    [] OTHER -> NoKey

(* A path from a local through fields: the storage an expression denotes.  *)
NoPath == <<>>
RECURSIVE LocalPath(_)
LocalPath(e) ==
  CASE e.op = "local" -> <<e.name>>
    [] e.op = "parens" -> LocalPath(e.inner)
    [] e.op = "dot" -> LET path == LocalPath(e.obj)
                       IN  IF path = NoPath THEN NoPath ELSE Append(path, FieldKey(e.field))
    [] OTHER -> NoPath

ReadState(state, name) == IF name \in DOMAIN state THEN state[name] ELSE Unknown

(* Store a value at a path: the whole local, or a member of it.            *)
WritePath(state, path, v) ==
  [state EXCEPT ![Head(path)] = IF Len(path) = 1 THEN v ELSE SetMemberPath(@, Tail(path), v)]

(* The key and the value argument of a collection method.                  *)
KeyArgument(call) ==
  LET position == IF call.callee.kind = "Array" /\ call.callee.field = "set" THEN 2 ELSE 1
  IN  IF position \in DOMAIN call.args THEN ConstantKey(call.args[position]) ELSE NoKey

ValueArgument(call) ==
  LET position == IF call.callee.kind = "Map" THEN 2 ELSE 1
  IN  IF position \in DOMAIN call.args THEN call.args[position] ELSE Opaque

(***************************************************************************)
(* Evaluation.  A call is tried as a builtin, then as a method of a        *)
(* collection, then through the values its targets return; the returned    *)
(* value is cut at the depth that is left.                                 *)
(***************************************************************************)
Constructors == {"createEmptyMap", "createEmptyTuple", "createMapFromLowLevelDict",
                 "toTuple", "fromTuple"}

EmptyTuple == Leaf([AggregateLabel EXCEPT !.lengths = {0}])

(* What a call through `called` returns.                                   *)
ReturnedBy(called, returns, depth) ==
  LET given(f) == IF f \in DOMAIN returns THEN returns[f] ELSE Unknown
      merged == IF Targets(called) = {} THEN Unknown
                ELSE FoldSet(LAMBDA f, v : Merge(v, given(f)), Bottom, Targets(called))
      known == called[<<>>].complete
  IN  IF IsBottom(called) THEN Bottom
      ELSE LimitMemberDepth([merged EXCEPT ![<<>>].complete = @ /\ known,
                                           ![<<>>].membersComplete = @ /\ known],
                            MaxDepth - depth)

Members(keys, values) ==
  FoldLeftDomain(LAMBDA v, i : Put(v, <<keys[i]>>, values[i]), EmptyAggregate, keys)

RECURSIVE Eval(_, _, _, _)
Eval(e, state, returns, depth) ==
  LET At(x) == Eval(x, state, returns, depth + 1)
      all(elements) == [i \in DOMAIN elements |-> At(elements[i])]
      builtin(name, call) ==
        CASE name = "createEmptyMap" -> EmptyAggregate
          [] name = "createEmptyTuple" -> EmptyTuple
          [] name = "createMapFromLowLevelDict" -> At(call.args[1])
          [] name = "toTuple" -> PackedTuple(At(Bare(call.callee).obj))
          [] name = "fromTuple" -> UnpackedTuple(At(call.args[1]))
      called(call) ==
        LET callee == Bare(call.callee)
            onObject == callee.op = "dot"
            object == At(callee.obj)
        IN  CASE DirectTarget(callee) \in Constructors -> builtin(DirectTarget(callee), call)
              [] onObject /\ callee.field = "loadValue" /\ <<MapValue>> \in DOMAIN object ->
                   Member(object, MapValue)
              [] onObject /\ callee.kind # NoKind /\ callee.field \in Results(callee.kind) ->
                   Returned(callee.kind, callee.field, object,
                            KeyArgument([call EXCEPT !.callee = callee]),
                            At(ValueArgument([call EXCEPT !.callee = callee])))
              [] OTHER -> ReturnedBy(At(call.callee), returns, depth)
  IN  IF depth >= MaxDepth THEN Unknown
      ELSE CASE DirectTarget(e) # NoSymbol -> TargetValue(DirectTarget(e))
             [] e.op = "local" -> ReadState(state, e.name)
             [] e.op = "lambda" -> TargetValue(e.symbol)
             [] e.op = "call" -> called(e)
             [] e.op = "dot" -> Member(At(e.obj), FieldKey(e.field))
             [] e.op \in Wrappers -> At(e.inner)
             [] e.op = "cast" /\ e.to = "LispList" /\ e.inner.op = "array" ->
                  ListLiteral(all(e.inner.elements))
             [] e.op = "cast" /\ e.to = "LispList" ->
                  IF IsBottom(At(e.inner)) THEN At(e.inner)
                  ELSE Put(EmptyAggregate, <<TvmTuple>>, At(e.inner))
             [] e.op = "cast" /\ e.from = "LispList" -> Member(At(e.inner), TvmTuple)
             [] e.op = "cast" -> At(e.inner)
             [] e.op = "ternary" -> Merge(At(e.then), At(e.else))
             [] e.op = "array" -> ArrayLiteral(all(e.elements))
             [] e.op = "tensor" ->
                  Members([i \in DOMAIN e.elements |-> FieldKey(ToString(i - 1))], all(e.elements))
             [] e.op = "object" ->
                  Members([i \in DOMAIN e.names |-> FieldKey(e.names[i])], all(e.elements))
             [] e.op = "literal" -> NonCallable
             [] OTHER -> Unknown

(***************************************************************************)
(* collect_callable_assignments: what an assignment stores where.  The     *)
(* left side is a local, a path, or a pattern of left sides; the slots of  *)
(* a pattern are indexes of an array or positions of a tensor.             *)
(***************************************************************************)
Pattern(elements) == [op |-> "pattern", elements |-> elements]

RECURSIVE Assigned(_, _)
Assigned(left, v) ==
  LET slot(i) == IF v[<<>>].lengths # {} THEN IntKey(i - 1) ELSE FieldKey(ToString(i - 1))
  IN  CASE left.op = "pattern" ->
             FlattenSeq([i \in DOMAIN left.elements |-> Assigned(left.elements[i], Member(v, slot(i)))])
        [] LocalPath(left) # NoPath -> <<<<LocalPath(left), v>>>>
        [] OTHER -> <<>>

(***************************************************************************)
(* apply_collection_mutations, at one call: a method that writes to a      *)
(* collection held at a path from a local.                                 *)
(***************************************************************************)
MutateCollection(state, call, returns) ==
  LET callee == Bare(call.callee)
      bare == [call EXCEPT !.callee = callee]
      value(e) == Eval(e, state, returns, 0)
  IN  IF /\ callee.op = "dot"
         /\ callee.kind # NoKind
         /\ callee.field \in Writes(callee.kind)
         /\ LocalPath(callee.obj) # NoPath
      THEN WritePath(state, LocalPath(callee.obj),
                     Written(callee.kind, callee.field, value(callee.obj),
                             KeyArgument(bare), value(ValueArgument(bare))))
      ELSE state

(***************************************************************************)
(* apply_interprocedural_mutations, at one call: what the possible callees *)
(* leave in their mutable parameters replaces the arguments that are       *)
(* paths; several callees are merged first.  A parameter of no known       *)
(* output, or whose output is still bottom, leaves its argument alone.     *)
(***************************************************************************)
NoOutput == <<>>

AddUpdate(updates, path, output) ==
  IF \E i \in DOMAIN updates : updates[i][1] = path
  THEN [i \in DOMAIN updates |->
          IF updates[i][1] = path THEN <<path, Merge(updates[i][2], output)>> ELSE updates[i]]
  ELSE Append(updates, <<path, output>>)

Called(state, call, returns) ==
  IF DirectTarget(call.callee) # NoSymbol THEN {DirectTarget(call.callee)}
  ELSE Targets(Eval(call.callee, state, returns, 0))

MutateArguments(state, call, returns, mutations) ==
  LET callee == Bare(call.callee)
      onObject == callee.op = "dot"
      own == onObject /\ callee.kind = "LispList" /\ callee.field \in Writes("LispList")
      called == Called(state, call, returns)
      actuals(f) == IF onObject /\ Len(mutations[f]) = Len(call.args) + 1
                    THEN <<callee.obj>> \o call.args ELSE call.args
      offered(f) ==
        SelectSeq([i \in 1 .. Min({Len(mutations[f]), Len(actuals(f))}) |->
                     <<LocalPath(actuals(f)[i]), mutations[f][i]>>],
                  LAMBDA offer : /\ offer[1] # NoPath
                                 /\ offer[2] # NoOutput
                                 /\ ~IsBottom(offer[2]))
      updates == FoldLeft(LAMBDA acc, offer : AddUpdate(acc, offer[1], offer[2]), <<>>,
                          FlattenSeq([i \in 1 .. Cardinality(called \cap DOMAIN mutations) |->
                             offered(SetToSeq(called \cap DOMAIN mutations)[i])]))
  IN  IF own THEN state
      ELSE FoldLeft(LAMBDA s, update : WritePath(s, update[1], update[2]), state, updates)

(***************************************************************************)
(* transfer_callable_state.  The assigned values are those before the node;*)
(* the locals it writes are forgotten; then collections and arguments      *)
(* change, innermost call first; then the assigned values are stored, a    *)
(* member of a local into the local as it was before the node.             *)
(*                                                                         *)
(* A flow node is a record of its kind, its left and right side (an        *)
(* assignment), or its expression, and the locals it writes.               *)
(***************************************************************************)
Assignment(left, right, writes) ==
  [kind |-> "assignment", left |-> left, expression |-> right, writes |-> writes]
Statement(expression) ==
  [kind |-> "expression", left |-> Opaque, expression |-> expression, writes |-> {}]
ReturnOf(expression) ==
  [kind |-> "return", left |-> Opaque, expression |-> expression, writes |-> {}]
Synthetic(kind) == [kind |-> kind, left |-> Opaque, expression |-> Opaque, writes |-> {}]

NodeCalls(node) == CallsIn(node.expression)

AssignedBy(node, state, returns) ==
  IF node.kind = "assignment" THEN Assigned(node.left, Eval(node.expression, state, returns, 0))
  ELSE <<>>

Forget(state, locals) == [l \in DOMAIN state |-> IF l \in locals THEN Unknown ELSE state[l]]

AfterCollections(node, state, returns) ==
  FoldLeft(LAMBDA s, call : MutateCollection(s, call, returns), state, NodeCalls(node))

AfterArguments(node, state, returns, mutations) ==
  FoldLeft(LAMBDA s, call : MutateArguments(s, call, returns, mutations), state, NodeCalls(node))

StoreAssigned(state, incoming, path, v) ==
  IF Len(path) = 1 THEN WritePath(state, path, v)
  ELSE [state EXCEPT ![Head(path)] = SetMemberPath(incoming[Head(path)], Tail(path), v)]

TransferNode(node, incoming, returns, mutations) ==
  FoldLeft(LAMBDA s, a : StoreAssigned(s, incoming, a[1], a[2]),
           AfterArguments(node, AfterCollections(node, Forget(incoming, node.writes), returns),
                          returns, mutations),
           AssignedBy(node, incoming, returns))

=============================================================================
