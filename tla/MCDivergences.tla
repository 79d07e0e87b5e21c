--------------------------- MODULE MCDivergences ---------------------------
(***************************************************************************)
(* Programs on which the analysis does not do what its documentation says. *)
(***************************************************************************)
EXTENDS MCExecution

(* fun swap(mutate p) { val t = p.a; p.a = t; p.b.push(t) }                *)
(* var o = { a: f, b: [f] }; swap(o); if (..) { swap(o) } o.a()            *)
Twice ==
  Program([s \in {"main", "swap"} |->
             IF s = "swap" THEN Helpers["swap"]
             ELSE Definition(<<>>, <<>>, {}, {"o"},
                    <<Let("o", Object0), Do(Call(Function("swap"), <<Var("o")>>)),
                      Do(Call(Function("swap"), <<Var("o")>>)), CallOf(Field(Var("o"), "a"))>>,
                    Chain(<<1, 2, 3, 4>>) \cup {<<3, 5>>}, {})],
          <<"main", "swap">>, {<<>>})

(* var o = { a: f, b: f }; (o.a, o.b) = (g, g); o.a()                      *)
Slots ==
  One(Straight(<<>>, <<>>, {"o"},
        <<Let("o", Object(<<"a", "b">>, <<F, F>>)),
          Assignment(Pattern(<<Field(Var("o"), "a"), Field(Var("o"), "b")>>), Tensor(<<G, G>>), {"o"}),
          CallOf(Field(Var("o"), "a"))>>))

(* var a = [f, g]; val t = [a.pop(), a.pop()]; t.last()()                  *)
BothPops ==
  One(Straight(<<>>, <<>>, {"a", "t"},
        <<Let("a", Array(<<F, G>>)), Let("t", Array(<<Popped("a"), Popped("a")>>)),
          CallOf(CallMethod(Var("t"), "Array", "last", <<>>))>>))

MCTwice == {Twice}
MCBothPops == {BothPops}
MCSlots == {Slots}
=============================================================================
