------------------------------ MODULE Execution ------------------------------
(***************************************************************************)
(* A program running beside what the analysis said of it.  The analysis of *)
(* module ProgramCalls runs first; then an entrypoint of the same program  *)
(* is called from outside and the program runs along its control-flow      *)
(* graphs, one node at a time: branches go either way, any node with an    *)
(* exceptional edge may throw, and a call moves into its callee.           *)
(*                                                                         *)
(* The concrete semantics is that of Tolk: values are copied, `mutate`     *)
(* arguments are copied back when the callee returns, lambdas capture by   *)
(* value.  The calls of a node are made one after the other, innermost and *)
(* leftmost first, each on the locals as the calls before it left them;    *)
(* the rest of the expression is evaluated when all of them have returned. *)
(***************************************************************************)
EXTENDS ProgramCalls

CONSTANTS MaxStack,   \* bound on the depth of calls
          MaxLength,  \* bound on the elements of an array or list
          Foreign     \* a callable from outside the program

VARIABLES
  stack,  \* the frames of the running callables
  call    \* the last call made: where and to what

execution == <<stack, call>>
allVars == <<vars, execution>>

-----------------------------------------------------------------------------
(* Concrete values.                                                        *)
Data == [tag |-> "data"]
NoEnv == [l \in {} |-> Data]
Callable(symbol, env) == [tag |-> "callable", symbol |-> symbol, env |-> env]
RecordOf(parts) == [tag |-> "record", at |-> parts]
SequenceOf(kind, items) == [tag |-> kind, items |-> items]
MapOf(parts) == [tag |-> "Map", at |-> parts]

Combinations(sets) == {s \in [DOMAIN sets -> UNION Range(sets)] : \A i \in DOMAIN sets : s[i] \in sets[i]}

Keyed(keys, values) == [k \in Range(keys) |-> values[CHOOSE i \in DOMAIN keys : keys[i] = k]]

(* An expression whose innermost, leftmost call returned v.                *)
Evaluated(v) == [op |-> "value", value |-> v]

WithPart(e, i, part) ==
  CASE e.op = "dot" -> [e EXCEPT !.obj = part]
    [] e.op \in Wrappers \cup {"cast"} -> [e EXCEPT !.inner = part]
    [] e.op \in {"tensor", "array", "object"} -> [e EXCEPT !.elements[i] = part]
    [] e.op = "call" /\ i = 1 -> [e EXCEPT !.callee = part]
    [] e.op = "call" /\ i > 1 -> [e EXCEPT !.args[i - 1] = part]

RECURSIVE AfterCall(_, _)
AfterCall(e, v) ==
  LET parts == SubExpressions(e)
      calling == {i \in DOMAIN parts : CallsIn(parts[i]) # <<>>}
  IN  IF calling = {} THEN Evaluated(v)
      ELSE WithPart(e, Min(calling), AfterCall(parts[Min(calling)], v))

(* The values an expression without calls may have.                        *)
RECURSIVE ValuesOf(_, _)
ValuesOf(e, env) ==
  LET all(elements) == Combinations([i \in DOMAIN elements |-> ValuesOf(elements[i], env)])
  IN  CASE DirectTarget(e) # NoSymbol -> {Callable(DirectTarget(e), NoEnv)}
        [] e.op = "value" -> {e.value}
        [] e.op = "local" -> {env[e.name]}
        [] e.op = "lambda" ->
             {Callable(e.symbol, [l \in prog.defs[e.symbol].captures |-> env[l]])}
        [] e.op = "dot" -> {v.at[FieldKey(e.field)] : v \in ValuesOf(e.obj, env)}
        [] e.op \in Wrappers -> ValuesOf(e.inner, env)
        [] e.op = "cast" /\ e.to = "LispList" ->
             {SequenceOf("LispList", v.items) : v \in ValuesOf(e.inner, env)}
        [] e.op = "cast" /\ e.to # "LispList" -> ValuesOf(e.inner, env)
        [] e.op = "ternary" -> ValuesOf(e.then, env) \cup ValuesOf(e.else, env)
        [] e.op = "array" -> {SequenceOf("Array", vs) : vs \in all(e.elements)}
        [] e.op = "tensor" ->
             {RecordOf(Keyed([i \in DOMAIN vs |-> FieldKey(ToString(i - 1))], vs)) : vs \in all(e.elements)}
        [] e.op = "object" ->
             {RecordOf(Keyed([i \in DOMAIN vs |-> FieldKey(e.names[i])], vs)) : vs \in all(e.elements)}
        [] e.op = "opaque" -> {Callable(Foreign, NoEnv)}
        [] OTHER -> {Data}

RECURSIVE StoreAt(_, _, _)
StoreAt(v, path, w) ==
  IF path = <<>> THEN w ELSE [v EXCEPT !.at[Head(path)] = StoreAt(@, Tail(path), w)]

RECURSIVE ReadAt(_, _)
ReadAt(v, path) == IF path = <<>> THEN v ELSE ReadAt(v.at[Head(path)], Tail(path))

Store(env, path, w) == [env EXCEPT ![Head(path)] = StoreAt(@, Tail(path), w)]
Read(env, path) == ReadAt(env[Head(path)], Tail(path))

RECURSIVE Bind(_, _, _)
Bind(env, left, v) ==
  LET slot(i) == IF v.tag = "record" THEN v.at[FieldKey(ToString(i - 1))] ELSE v.items[i]
  IN  CASE left.op = "pattern" ->
             FoldLeftDomain(LAMBDA e, i : Bind(e, left.elements[i], slot(i)), env, left.elements)
        [] LocalPath(left) # NoPath -> Store(env, LocalPath(left), v)
        [] OTHER -> env

-----------------------------------------------------------------------------
(* What a method does to a concrete collection: the possible pairs of its  *)
(* result and the collection after it; none if the runtime would throw.    *)
Index(key) == key[2] + 1

Effects(kind, method, c, key, w) ==
  CASE kind = "Array" /\ method = "push" ->
         IF Len(c.items) < MaxLength THEN {<<Data, SequenceOf(kind, Append(c.items, w))>>} ELSE {}
    [] kind = "Array" /\ method = "pop" ->
         IF c.items # <<>> THEN {<<Last(c.items), SequenceOf(kind, Front(c.items))>>} ELSE {}
    [] kind = "Array" /\ method = "set" ->
         {<<Data, [c EXCEPT !.items[i] = w]>> :
            i \in IF key = NoKey THEN DOMAIN c.items ELSE {Index(key)} \cap DOMAIN c.items}
    [] kind = "Array" /\ method = "get" ->
         {<<c.items[i], c>> :
            i \in IF key = NoKey THEN DOMAIN c.items ELSE {Index(key)} \cap DOMAIN c.items}
    [] kind = "Array" /\ method = "first" -> {<<c.items[i], c>> : i \in {1} \cap DOMAIN c.items}
    [] kind = "Array" /\ method = "last" ->
         {<<c.items[i], c>> : i \in {Len(c.items)} \cap DOMAIN c.items}
    [] kind = "LispList" /\ method = "prependHead" ->
         IF Len(c.items) < MaxLength THEN {<<Data, SequenceOf(kind, <<w>> \o c.items)>>} ELSE {}
    [] kind = "LispList" /\ method = "popHead" ->
         IF c.items # <<>> THEN {<<Head(c.items), SequenceOf(kind, Tail(c.items))>>} ELSE {}
    [] kind = "LispList" /\ method = "getHead" -> {<<c.items[i], c>> : i \in {1} \cap DOMAIN c.items}
    [] kind = "Map" /\ method = "set" /\ key # NoKey ->
         {<<Data, MapOf([k \in DOMAIN c.at \cup {key} |-> IF k = key THEN w ELSE c.at[k]])>>}
    [] kind = "Map" /\ method = "get" ->
         {<<RecordOf([m \in {MapValue} |-> c.at[k]]), c>> :
            k \in IF key = NoKey THEN DOMAIN c.at ELSE {key} \cap DOMAIN c.at}
    [] kind = "Map" /\ method = "mustGet" ->
         {<<c.at[k], c>> : k \in IF key = NoKey THEN DOMAIN c.at ELSE {key} \cap DOMAIN c.at}

-----------------------------------------------------------------------------
Running == phase = "done" /\ stack # <<>>
Top == Last(stack)
Below == Front(stack)
NodeAt(frame) == prog.defs[frame.symbol].nodes[frame.node]
EdgesAt(frame) == Range(prog.defs[frame.symbol].out[frame.node])
Calls(frame) == CallsIn(frame.rest)
CallIn(frame) == Head(Calls(frame))
CalleeAt(frame) == Bare(CallIn(frame).callee)
MakesCall(frame) == Calls(frame) # <<>>

(* A frame that arrives at a node with all of its expression to evaluate.  *)
ArrivedAt(frame, node, env) ==
  [frame EXCEPT !.node = node, !.env = env, !.now = env,
                !.rest = prog.defs[frame.symbol].nodes[node].expression]

Frame(symbol, env, args) ==
  LET def == prog.defs[symbol]
      position(l) == CHOOSE i \in DOMAIN def.parameters : def.parameters[i] = l
      locals == [l \in def.locals |-> IF l \in DOMAIN env THEN env[l]
                                      ELSE IF l \in Range(def.parameters) THEN args[position(l)]
                                      ELSE Data]
  IN  [symbol |-> symbol, node |-> def.entry, result |-> Data,
       env |-> locals,   \* the locals when the frame arrived at its node
       now |-> locals,   \* the locals as the calls of the node left them
       rest |-> def.nodes[def.entry].expression]

(* The frame one normal edge further, with the node's value v stored.      *)
Advanced(frame, v) ==
  LET node == NodeAt(frame)
      env == IF node.kind = "assignment" THEN Bind(frame.now, node.left, v) ELSE frame.now
  IN  {ArrivedAt([frame EXCEPT !.result = IF node.kind = "return" THEN v ELSE @], e.to, env) :
         e \in {e \in EdgesAt(frame) : ~e.exceptional}}

(* The frame after its next call, which returned v and left the locals so. *)
Resumed(frame, locals, v) == [frame EXCEPT !.now = locals, !.rest = AfterCall(@, v)]

NoCall == <<>>
CallTo(frame, symbol) ==
  <<frame.symbol, frame.node,
    Len(NodeCalls(NodeAt(frame))) - Len(Calls(frame)) + 1, symbol>>

ExecInit == Init /\ stack = <<>> /\ call = NoCall

Enter ==
  /\ phase = "done" /\ stack = <<>> /\ call = NoCall
  /\ \E entry \in prog.entries : stack' = <<Frame(entry.symbol, NoEnv, entry.args)>>
  /\ call' = NoCall
  /\ UNCHANGED vars

(* All calls of the node have returned.                                    *)
Step ==
  /\ Running /\ ~MakesCall(Top)
  /\ \E v \in ValuesOf(Top.rest, Top.now) :
       \E frame \in Advanced(Top, v) : stack' = Append(Below, frame)
  /\ call' = NoCall
  /\ UNCHANGED vars

OnCollection(frame) == CalleeAt(frame).op = "dot" /\ CalleeAt(frame).kind # NoKind

(* A method of a collection: one held at a path from a local is changed,   *)
(* the result of an earlier call only read.                                *)
CallCollection ==
  /\ Running /\ MakesCall(Top) /\ OnCollection(Top)
  /\ LET callee == CalleeAt(Top)
         bare == [CallIn(Top) EXCEPT !.callee = callee]
         path == LocalPath(callee.obj)
         receivers == IF path = NoPath THEN ValuesOf(callee.obj, Top.now) ELSE {Read(Top.now, path)}
         written(c) == IF path = NoPath THEN Top.now ELSE Store(Top.now, path, c)
     IN  \E c \in receivers, w \in ValuesOf(ValueArgument(bare), Top.now) :
           \E effect \in Effects(callee.kind, callee.field, c, KeyArgument(bare), w) :
             stack' = Append(Below, Resumed(Top, written(effect[2]), effect[1]))
  /\ call' = CallTo(Top, DirectTarget(CallIn(Top).callee))
  /\ UNCHANGED vars

(* loadValue of the result object of a map lookup.                         *)
LoadValue ==
  /\ Running /\ MakesCall(Top) /\ ~OnCollection(Top)
  /\ CalleeAt(Top).op = "dot" /\ CalleeAt(Top).field = "loadValue"
  /\ \E object \in ValuesOf(CalleeAt(Top).obj, Top.now) :
       stack' = Append(Below, Resumed(Top, Top.now, object.at[MapValue]))
  /\ call' = CallTo(Top, DirectTarget(CallIn(Top).callee))
  /\ UNCHANGED vars

(* The arguments of a call; a method called by name gets its receiver.     *)
ActualsOf(frame) ==
  LET callee == CalleeAt(frame)
  IN  IF callee.op = "dot" /\ callee.method \in Symbols
      THEN <<callee.obj>> \o CallIn(frame).args ELSE CallIn(frame).args

IsPlainCall(frame) ==
  ~OnCollection(frame) /\ ~(CalleeAt(frame).op = "dot" /\ CalleeAt(frame).field = "loadValue")

Invoke ==
  /\ Running /\ MakesCall(Top) /\ IsPlainCall(Top) /\ Len(stack) < MaxStack
  /\ \E f \in ValuesOf(CallIn(Top).callee, Top.now),
        args \in Combinations([i \in DOMAIN ActualsOf(Top) |-> ValuesOf(ActualsOf(Top)[i], Top.now)]) :
       /\ f.tag = "callable" /\ f.symbol \in Symbols
       /\ stack' = Append(stack, Frame(f.symbol, f.env, args))
       /\ call' = CallTo(Top, f.symbol)
  /\ UNCHANGED vars

(* A callable from outside the program changes nothing and returns data;   *)
(* the builtin constructors return empty collections.                      *)
Given(symbol) ==
  CASE symbol = "createEmptyMap" -> MapOf(NoFunction)
    [] symbol = "createEmptyTuple" -> SequenceOf("Array", <<>>)
    [] OTHER -> Data

InvokeForeign ==
  /\ Running /\ MakesCall(Top) /\ IsPlainCall(Top)
  /\ \E f \in ValuesOf(CallIn(Top).callee, Top.now) :
       /\ f.tag = "callable" /\ f.symbol \notin Symbols
       /\ stack' = Append(Below, Resumed(Top, Top.now, Given(f.symbol)))
       /\ call' = CallTo(Top, f.symbol)
  /\ UNCHANGED vars

(* The callee is at its exit: mutable parameters are copied back and the   *)
(* caller goes on after its call.                                          *)
CopyBack(env, actuals, frame) ==
  LET def == prog.defs[frame.symbol]
  IN  FoldLeftDomain(LAMBDA e, i :
         IF def.mutable[i] /\ LocalPath(actuals[i]) # NoPath
         THEN Store(e, LocalPath(actuals[i]), frame.env[def.parameters[i]]) ELSE e,
         env, def.mutable)

Return ==
  /\ Running /\ Top.node = prog.defs[Top.symbol].exit
  /\ IF Len(stack) = 1 THEN stack' = <<>> /\ call' = <<"returned">>
     ELSE LET caller == Last(Below)
          IN  /\ stack' = Append(Front(Below),
                     Resumed(caller, CopyBack(caller.now, ActualsOf(caller), Top), Top.result))
              /\ call' = NoCall
  /\ UNCHANGED vars

(* Any evaluation may throw: the innermost frame whose node has an         *)
(* exceptional edge goes on there, with nothing of its node done.          *)
Catches(frame) == \E e \in EdgesAt(frame) : e.exceptional

Throw ==
  /\ Running
  /\ \E k \in DOMAIN stack :
       /\ Catches(stack[k]) /\ \A j \in DOMAIN stack : j > k => ~Catches(stack[j])
       /\ \E e \in {e \in EdgesAt(stack[k]) : e.exceptional} :
            stack' = Append(SubSeq(stack, 1, k - 1), ArrivedAt(stack[k], e.to, stack[k].env))
  /\ call' = NoCall
  /\ UNCHANGED vars

Run == \/ Enter \/ Step \/ CallCollection \/ LoadValue
       \/ Invoke \/ InvokeForeign \/ Return \/ Throw

Next == (Analyse /\ UNCHANGED execution) \/ Run

Spec == ExecInit /\ [][Next]_allVars

-----------------------------------------------------------------------------
(* Every call the running program makes was reported, and if its call site *)
(* was reported complete, its callee is among the targets.                 *)
CallsAreReported ==
  phase = "done" /\ Len(call) = 4 =>
    \E site \in sites :
      /\ site.caller = call[1] /\ site.node = call[2] /\ site.index = call[3]
      /\ site.complete => call[4] \in site.targets

(* A value describes a concrete value: it is not bottom, a callable is     *)
(* among its targets unless they are incomplete, and its members describe  *)
(* the parts of the concrete value, at known and at unknown keys.          *)
RECURSIVE DescribesValue(_, _)
DescribesValue(v, c) ==
  /\ ~IsBottom(v)
  /\ CASE c.tag = "callable" -> v[<<>>].complete => c.symbol \in Targets(v)
       [] c.tag = "record" -> \A k \in DOMAIN c.at : DescribesValue(Member(v, k), c.at[k])
       [] c.tag = "Map" -> \A k \in DOMAIN c.at : /\ DescribesValue(Member(v, k), c.at[k])
                                                  /\ DescribesValue(AnyMember(v), c.at[k])
       [] c.tag = "Array" ->
            /\ v[<<>>].lengths # {} => Len(c.items) \in v[<<>>].lengths
            /\ \A i \in DOMAIN c.items : /\ DescribesValue(Member(v, IntKey(i - 1)), c.items[i])
                                         /\ DescribesValue(AnyMember(v), c.items[i])
       [] c.tag = "LispList" ->
            c.items # <<>> => /\ DescribesValue(ListHead(v), Head(c.items))
                              /\ DescribesValue(ListTail(v), SequenceOf("LispList", Tail(c.items)))
       [] OTHER -> TRUE

(* Wherever the program is, in every active callable, the state the        *)
(* analysis found for that node describes every local.                     *)
StatesDescribeTheRun ==
  phase = "done" =>
    \A k \in DOMAIN stack :
      LET state == solved[stack[k].symbol][stack[k].node]
      IN  /\ state # Unvisited
          /\ \A l \in DOMAIN stack[k].env : DescribesValue(state[l], stack[k].env[l])

(* The analysis ends with summaries that another round would not change.   *)
EndsStable == phase = "done" => stable

=============================================================================
