---------------------------- MODULE MCExecution ----------------------------
(***************************************************************************)
(* Small programs in the shapes the documentation of the analysis lists    *)
(* (docs/callable-flow-audit.md), each with the control-flow graph of its  *)
(* bodies.                                                                 *)
(***************************************************************************)
EXTENDS Execution

(* Graphs: entry, the nodes of the body, exit.  Edges are pairs of nodes;  *)
(* the body's nodes are 2 .. Len(body) + 1.                                *)
MaxNodes == 9
MCNode == 1 .. MaxNodes

Chain(body) == {<<i, i + 1>> : i \in 1 .. (Len(body) + 1)}

Definition(parameters, mutable, captures, locals, body, edges, exceptional) ==
  LET exit == Len(body) + 2
      list(pairs, thrown) == {[to |-> p[2], exceptional |-> thrown, from |-> p[1]] : p \in pairs}
      all == list(edges, FALSE) \cup list(exceptional, TRUE)
  IN  [parameters |-> parameters, mutable |-> mutable, captures |-> captures,
       locals |-> locals \cup captures \cup Range(parameters),
       instance |-> FALSE, entry |-> 1, exit |-> exit,
       nodes |-> [n \in MCNode |-> IF n = 1 THEN Synthetic("entry")
                                   ELSE IF n <= Len(body) + 1 THEN body[n - 1]
                                   ELSE Synthetic("exit")],
       out |-> [n \in MCNode |->
                  LET targets == {e \in all : e.from = n}
                  IN  [i \in 1 .. Cardinality(targets) |->
                         [to |-> SetToSortSeq(targets, LAMBDA a, b : a.to < b.to)[i].to,
                          exceptional |-> SetToSortSeq(targets, LAMBDA a, b : a.to < b.to)[i].exceptional]]]]

Straight(parameters, mutable, locals, body) ==
  Definition(parameters, mutable, {}, locals, body, Chain(body), {})

Var(name) == Local(name)
Let(name, e) == Assignment(Local(name), e, {name})
SetField(name, field, e) == Assignment(Field(Local(name), field), e, {name})
Do(e) == Statement(e)
Skip == Statement(Number(0))
CallOf(e) == Statement(Call(e, <<>>))

F == Function("f")
G == Function("g")

(* Functions every program has: two leaves that the calls reach.           *)
Leaf0 == Straight(<<>>, <<>>, {}, <<>>)

Program(defs, order, args) ==
  [defs |-> [s \in DOMAIN defs \cup {"f", "g"} |-> IF s \in DOMAIN defs THEN defs[s] ELSE Leaf0],
   order |-> order \o <<"f", "g">>,
   entries |-> {[symbol |-> "main", args |-> a] : a \in args}]

One(main) == Program([s \in {"main"} |-> main], <<"main">>, {<<>>})
Two(main, name, helper) ==
  Program([s \in {"main", name} |-> IF s = "main" THEN main ELSE helper], <<name, "main">>, {<<>>})

(* var h = f; if (..) { h = g } h()                                        *)
Branch ==
  One(Definition(<<>>, <<>>, {}, {"h"},
        <<Let("h", F), Skip, Let("h", G), CallOf(Var("h"))>>,
        Chain(<<1, 2, 3, 4>>) \cup {<<3, 5>>}, {}))

(* fun forward(v) { return v }  val h = forward(f); h()                    *)
Factory ==
  Two(Straight(<<>>, <<>>, {"h"},
        <<Let("h", Call(Function("forward"), <<F>>)), CallOf(Var("h"))>>),
      "forward", Straight(<<"v">>, <<FALSE>>, {}, <<ReturnOf(Var("v"))>>))

(* fun repeat(v, w) { v(); if (..) { repeat(w, v) } }   repeat(f, g)       *)
Recursion ==
  Two(Straight(<<>>, <<>>, {}, <<Do(Call(Function("repeat"), <<F, G>>))>>),
      "repeat",
      Definition(<<"v", "w">>, <<FALSE, FALSE>>, {}, {},
        <<CallOf(Var("v")), Skip, Do(Call(Function("repeat"), <<Var("w"), Var("v")>>))>>,
        Chain(<<1, 2, 3>>) \cup {<<3, 5>>}, {}))

(* main is called from outside with a callback                             *)
Entrypoint ==
  Program([s \in {"main"} |->
             Definition(<<"h">>, <<FALSE>>, {}, {},
               <<CallOf(Var("h")), Skip, Let("h", F), CallOf(Var("h"))>>,
               Chain(<<1, 2, 3, 4>>) \cup {<<3, 5>>}, {})],
          <<"main">>, {<<Callable(Foreign, NoEnv)>>})

(* fun change(mutate v) { if (..) { v = g } }   var h = f; change(h); h()  *)
Mutation ==
  Two(Straight(<<>>, <<>>, {"h"},
        <<Let("h", F), Do(Call(Function("change"), <<Var("h")>>)), CallOf(Var("h"))>>),
      "change",
      Definition(<<"v">>, <<TRUE>>, {}, {}, <<Skip, Let("v", G)>>,
        Chain(<<1, 2>>) \cup {<<2, 4>>}, {}))

(* fun add(mutate a, v) { a.push(v) }                                      *)
(* var a = [f]; while (..) { add(a, g) } val h = a.last(); h()             *)
Pushing ==
  Two(Definition(<<>>, <<>>, {}, {"a", "h"},
        <<Let("a", Array(<<F>>)), Skip, Do(Call(Function("add"), <<Var("a"), G>>)),
          Let("h", CallMethod(Var("a"), "Array", "last", <<>>)), CallOf(Var("h"))>>,
        {<<1, 2>>, <<2, 3>>, <<3, 4>>, <<4, 3>>, <<3, 5>>, <<5, 6>>, <<6, 7>>}, {}),
      "add",
      Straight(<<"a", "v">>, <<TRUE, FALSE>>, {},
        <<Do(CallMethod(Var("a"), "Array", "push", <<Var("v")>>))>>))

(* var h = f; val l = fun() { h() }; h = g; l()                            *)
Capture ==
  Two(Straight(<<>>, <<>>, {"h", "l"},
        <<Let("h", F), Let("l", Lambda("lambda")), Let("h", G), CallOf(Var("l")), CallOf(Var("h"))>>),
      "lambda",
      Definition(<<>>, <<>>, {"h"}, {}, <<CallOf(Var("h"))>>, Chain(<<1>>), {}))

(* var h = f; try { h = make() } catch { } h()                             *)
Catching ==
  Two(Definition(<<>>, <<>>, {}, {"h"},
        <<Let("h", F), Let("h", Call(Function("make"), <<>>)), Skip, CallOf(Var("h"))>>,
        {<<1, 2>>, <<2, 3>>, <<3, 5>>, <<4, 5>>, <<5, 6>>}, {<<3, 4>>}),
      "make", Straight(<<>>, <<>>, {}, <<ReturnOf(G)>>))

(* map, result object, and a list built by a cast                          *)
Containers ==
  One(Straight(<<>>, <<>>, {"m", "r", "h", "l"},
        <<Let("m", Call(Function("createEmptyMap"), <<>>)),
          Do(CallMethod(Var("m"), "Map", "set", <<Number(1), F>>)),
          Let("r", CallMethod(Var("m"), "Map", "get", <<Opaque>>)),
          Let("h", CallMethod(Var("r"), NoKind, "loadValue", <<>>)), CallOf(Var("h")),
          Let("l", Cast(Array(<<F, G>>), NoKind, "LispList")),
          Let("h", CallMethod(Var("l"), "LispList", "popHead", <<>>))>>))

(* (x, y) = (f, { a: g }); y.a = x; y.a()                                  *)
Destructuring ==
  One(Straight(<<>>, <<>>, {"x", "y", "o"},
        <<Assignment(Pattern(<<Var("x"), Var("y")>>),
                     Tensor(<<F, Object(<<"a">>, <<G>>)>>), {"x", "y"}),
          Assignment(Field(Var("y"), "a"), Var("x"), {"y"}), CallOf(Field(Var("y"), "a"))>>))

(* Several calls in one node: nested, in the callee, side by side.         *)
(* forward(forward(f))()                                                   *)
Forwarded(e) == Call(Function("forward"), <<e>>)
Nested ==
  Two(Straight(<<>>, <<>>, {}, <<CallOf(Forwarded(Forwarded(F)))>>),
      "forward", Straight(<<"v">>, <<FALSE>>, {}, <<ReturnOf(Var("v"))>>))

(* val l = fun() { return h }  with h = g;  m.get(1).loadValue()()()       *)
Chained ==
  Two(Straight(<<>>, <<>>, {"h", "m"},
        <<Let("h", G), Let("m", Call(Function("createEmptyMap"), <<>>)),
          Do(CallMethod(Var("m"), "Map", "set", <<Number(1), Lambda("lambda")>>)),
          CallOf(Call(CallMethod(CallMethod(Var("m"), "Map", "get", <<Number(1)>>),
                                 NoKind, "loadValue", <<>>), <<>>))>>),
      "lambda",
      Definition(<<>>, <<>>, {"h"}, {}, <<ReturnOf(Var("h"))>>, Chain(<<1>>), {}))

(* fun repeat(v, w) { v(); w() }                                           *)
(* var a = [f]; var b = [f, g]; repeat(a.pop(), b.pop()); b.last()()       *)
Popped(a) == CallMethod(Var(a), "Array", "pop", <<>>)
SideBySide ==
  Two(Straight(<<>>, <<>>, {"a", "b"},
        <<Let("a", Array(<<F>>)), Let("b", Array(<<F, G>>)),
          Do(Call(Function("repeat"), <<Popped("a"), Popped("b")>>)),
          CallOf(CallMethod(Var("b"), "Array", "last", <<>>))>>),
      "repeat",
      Straight(<<"v", "w">>, <<FALSE, FALSE>>, {}, <<CallOf(Var("v")), CallOf(Var("w"))>>))

(* Every program that builds an object of a callable and an array, does    *)
(* two of these things to it in sequence, the second in a branch, and      *)
(* calls what it finds.                                                    *)
Effect == {
  SetField("o", "a", G),
  Let("x", Field(Var("o"), "a")),
  Let("x", Ternary(Var("x"), Field(Var("o"), "a"))),
  SetField("o", "a", Var("x")),
  Do(CallMethod(Field(Var("o"), "b"), "Array", "push", <<Var("x")>>)),
  Let("x", CallMethod(Field(Var("o"), "b"), "Array", "pop", <<>>)),
  Do(CallMethod(Field(Var("o"), "b"), "Array", "set", <<Var("x"), Opaque>>)),
  Do(Call(Function("change"), <<Field(Var("o"), "a")>>)),
  Do(Call(Function("swap"), <<Var("o")>>)),
  Do(Call(Var("x"), <<Field(Var("o"), "a")>>)),
  Do(Call(Var("x"), <<CallMethod(Field(Var("o"), "b"), "Array", "pop", <<>>)>>)),
  Let("x", Function("change"))}

Helpers ==
  [s \in {"change", "swap", "f", "g"} |->
     IF s \in {"f", "g"} THEN Straight(<<"p">>, <<TRUE>>, {}, <<>>)
     ELSE IF s = "change"
     THEN Straight(<<"v">>, <<TRUE>>, {}, <<Let("v", G)>>)
     ELSE Straight(<<"p">>, <<TRUE>>, {"t"},
            <<Let("t", Field(Var("p"), "a")),
              SetField("p", "a", Var("t")),
              Do(CallMethod(Field(Var("p"), "b"), "Array", "push", <<Var("t")>>))>>)]

Object0 == Object(<<"a", "b">>, <<F, Array(<<F>>)>>)

Sequences ==
  {Program([s \in {"main", "change", "swap", "f", "g"} |->
              IF s = "main"
              THEN Definition(<<>>, <<>>, {}, {"o", "x", "y"},
                     <<Let("x", F), Let("o", Object0), first, second,
                       Let("y", CallMethod(Field(Var("o"), "b"), "Array", "last", <<>>)),
                       Do(Call(Field(Var("o"), "a"), <<Var("x")>>)), Do(Call(Var("y"), <<Var("x")>>))>>,
                     Chain(<<1, 2, 3, 4, 5, 6, 7>>) \cup {<<5, 4>>, <<4, 6>>}, {})
              ELSE Helpers[s]],
           <<"change", "main", "swap">>, {<<>>}) :
   first \in Effect, second \in Effect}

Shapes == {Branch, Factory, Recursion, Entrypoint, Mutation, Pushing, Capture, Catching,
           Containers, Destructuring, Nested, Chained, SideBySide}

AllPrograms == Shapes \cup Sequences

(* In the documented shapes the analysis ends with summaries that another  *)
(* round would not change, so that its call sites do not depend on the cap *)
(* on the rounds.                                                          *)
ShapesEndStable == ~EndsStable => prog \notin Shapes

MethodNames == {"push", "pop", "set", "get", "last", "first", "mustGet", "loadValue",
                "popHead", "prependHead"}
MCTarget == {"f", "g", "main", "forward", "repeat", "change", "add", "lambda", "make", "swap"}
              \cup Constructors \cup MethodNames
MCKey == {IntKey(n) : n \in 0 .. 20} \cup {Dynamic, MapValue, TvmTuple, First, Second}
           \cup {FieldKey(n) : n \in {"a", "b", "0", "1"}}

(* Knowing more before an operation is not always knowing more after it:   *)
(* merged with an unknown value an array of one element absorbs the array, *)
(* but no longer when both are pushed to.                                  *)
ASSUME PushIsNotMonotone ==
  LET array == Put(Leaf([AggregateLabel EXCEPT !.lengths = {1}]), <<IntKey(0)>>, TargetValue("f"))
      more == Merge(array, Unknown)
      pushed(v) == PushArrayMember(v, TargetValue("g"))
  IN  /\ Merge(more, array) = more
      /\ Merge(pushed(more), pushed(array)) # pushed(more)
=============================================================================
