----------------------------- MODULE MCSnapshot -----------------------------
(* A file is given by several parts, and each slice of the inputs varies one  *)
(* of them while the others are a small example: every tree of up to MaxNodes *)
(* nodes over two bytes; every list of up to two uses from the resolver and   *)
(* from two bodies; every three types, however they contain each other; every *)
(* source of up to MaxChars characters of one to four bytes; lambdas in and   *)
(* beside each other with locals anywhere.                                    *)
EXTENDS Snapshot

CONSTANTS MaxNodes, MaxChars

Width == 2

(* Nodes in source order: each lies in its parent and after its siblings.     *)
Ancestors(parent, n) ==
  LET up[m \in 0..n] == IF m = 0 THEN {} ELSE {m} \union up[parent[m]] IN up[n]

Depth(parent, n) == Cardinality(Ancestors(parent, n))

Spread(parent, start, end) ==
  /\ start[1] = 0 /\ end[1] = Width
  /\ \A n \in DOMAIN parent \ {1} :
       /\ start[parent[n]] <= start[n] /\ start[n] <= end[n] /\ end[n] <= end[parent[n]]
       /\ \A m \in 2..(n - 1) : parent[m] = parent[n] => end[m] <= start[n]

Tree(parent, start, end, listed) ==
  [parent |-> parent, start |-> start, end |-> end, listed |-> listed,
   kind |-> [n \in DOMAIN parent |-> Depth(parent, n)]]

Parents(size) ==
  {p \in [1..size -> 0..(size - 1)] :
     p[1] = 0 /\ \A n \in 2..size : p[n] \in 1..(n - 1) /\ p[n] \in Ancestors(p, n - 1)}

Offsets(size) == [1..size -> 0..Width]

(* From a list of [parent, start, end]. *)
Drawn(list) ==
  Tree([n \in DOMAIN list |-> list[n][1]], [n \in DOMAIN list |-> list[n][2]],
       [n \in DOMAIN list |-> list[n][3]], [n \in DOMAIN list |-> TRUE])

Char(bytes, units, newline) == [bytes |-> bytes, units |-> units, newline |-> newline]
Letter == Char(1, 1, FALSE)
Newline == Char(1, 1, TRUE)
Chars == {Letter, Newline, Char(2, 1, FALSE), Char(3, 1, FALSE), Char(4, 2, FALSE)}
Letters(n) == [i \in 1..n |-> Letter]

Declaration(id, name, body, type, members) ==
  [id |-> id, name |-> name, body |-> body, type |-> type, graph |-> None, members |-> members]
Parameter(id, span, within) ==
  [id |-> id, span |-> span, within |-> within, typeParameter |-> FALSE]
FlowNode(span, reads, writes) == [span |-> span, reads |-> reads, writes |-> writes]
Type(kind, parts, result) == [kind |-> kind, parts |-> parts, result |-> result]
Use(span, name, target) == [start |-> span[1], end |-> span[2], name |-> name, target |-> target]

Member == <<Global, 2>>
Param == <<Local, 1>>

(* A struct with a member, a function with a parameter and two uses, and a    *)
(* contract with a field.                                                     *)
First == <<6, 7>>
Second == <<8, 9>>
Struct(type, member) == Declaration(1, <<0, 1>>, <<0, 3>>, type, << Declaration(2, <<2, 3>>, <<2, 3>>, member, <<>>) >>)

Example ==
  [tree |-> Drawn(<< <<0, 0, 13>>, <<1, 0, 3>>, <<2, 0, 1>>, <<2, 2, 3>>, <<1, 3, 9>>, <<5, 4, 5>>,
                     <<5, 6, 7>>, <<5, 8, 9>>, <<1, 10, 11>>, <<1, 12, 13>> >>),
   source |-> [Letters(13) EXCEPT ![4] = Newline],
   contract |-> << Declaration(0, <<10, 11>>, <<10, 13>>, None,
                               << Declaration(12, <<12, 13>>, <<12, 13>>, None, <<>>) >>) >>,
   globals |-> << Struct(1, 2), [Declaration(3, <<3, 4>>, <<3, 9>>, 3, <<>>) EXCEPT
                    !.graph = << FlowNode(None, {}, {1}), FlowNode(First, {1}, {}), FlowNode(<<6, 9>>, {2}, {}) >>] >>,
   locals |-> << Parameter(1, <<4, 5>>, 3) >>,
   ofLambda |-> None, scope |-> "all", workspace |-> TRUE,
   resolver |-> << Use(First, 1, Param), Use(Second, 1, Unresolved) >>,
   bodies |-> { << Use(Second, 1, Member) >> },
   interner |-> << Type("struct", <<>>, <<>>), Type("array", <<1>>, <<>>), Type("function", <<2>>, <<1>>) >>,
   expressions |-> << [span |-> First, type |-> 1], [span |-> Second, type |-> 2] >>]

Untyped ==
  [Example EXCEPT !.contract = <<>>, !.globals = << Struct(None, None) >>, !.expressions = <<>>]

TreeSlice(file) ==
  \E size \in 1..MaxNodes : \E parent \in Parents(size), start, end \in Offsets(size) :
    /\ Spread(parent, start, end)
    /\ \E listed \in {f \in [1..size -> BOOLEAN] : f[1]} :
         file = [Untyped EXCEPT
           !.tree = Tree(parent, start, end, listed), !.source = Letters(Width), !.locals = <<>>,
           !.globals = << Declaration(1, <<0, 1>>, <<0, 2>>, 1, << Declaration(2, <<1, 2>>, <<1, 2>>, 2, <<>>) >>) >>,
           !.resolver = << Use(<<1, 2>>, 1, Member) >>, !.bodies = {}]

SymbolSlice(file) ==
  \E tree \in {Example.tree, Drawn(<< <<0, 0, 13>> >>)}, span \in {<<4, 5>>, <<5, 5>>}, within \in {3, 9} :
    file = [Example EXCEPT !.tree = tree, !.locals = << Parameter(1, span, within) >>]

(* A function with a lambda in a lambda or beside it, and locals anywhere.    *)
LambdaSlice(file) ==
  \E lambdas \in {<<>>, << <<1, 2, 9>> >>, << <<1, 2, 9>>, <<2, 4, 7>> >>, << <<1, 2, 5>>, <<1, 5, 9>> >>},
     one, two \in 1..8, isType \in BOOLEAN,
     scope \in {"none", "workspace", "all"}, workspace \in BOOLEAN, ofLambda \in {2, 3} :
    /\ one < two
    /\ LET list == << <<0, 0, 10>> >> \o lambdas
           drawn == Drawn(list)
       IN file = [Untyped EXCEPT
            !.tree = [drawn EXCEPT !.kind = [n \in DOMAIN list |-> IF n = 1 THEN 1 ELSE LambdaKind]],
            !.source = Letters(10),
            !.globals = << [Declaration(3, <<0, 1>>, <<0, 10>>, 3, <<>>) EXCEPT
                              !.graph = << FlowNode(<<one, one + 1>>, {1}, {2}) >>] >>,
            !.locals = << [Parameter(1, <<one, one + 1>>, 3) EXCEPT !.typeParameter = isType],
                          Parameter(2, <<two, two + 1>>, 3) >>,
            !.ofLambda = << FlowNode(None, {}, {}), FlowNode(<<two, two + 1>>, {1, ofLambda}, {2}) >>,
            !.scope = scope, !.workspace = workspace,
            !.resolver = << Use(<<two, two + 1>>, 1, <<Local, 1>>) >>, !.bodies = {}]

Targets == {Member, Param, Unresolved}
UsesAt(places) == {Use(p[1], p[2], t) : p \in places, t \in Targets}
InFirst == {<<First, 1>>, <<First, 2>>}
InSecond == {<<Second, 1>>}

UseSlice(file) ==
  \E resolver \in BoundedSeq(UsesAt(InFirst \union InSecond), 2),
     one \in BoundedSeq(UsesAt(InFirst), 2), two \in BoundedSeq(UsesAt(InSecond), 1),
     tree \in {Drawn(<< <<0, 0, 9>> >>), Drawn(<< <<0, 0, 9>>, <<1, 6, 7>>, <<1, 8, 9>> >>)} :
    /\ Len(one) = 2 => one[1].target # one[2].target /\ Len(resolver) < 2
    /\ Len(resolver) = 2 => Len(tree.parent) > 1
    /\ file = [Untyped EXCEPT !.tree = tree, !.source = Letters(9),
                              !.resolver = resolver, !.bodies = {one, two}]

Pairs == BoundedSeq(1..3, 2)
AtMostOne == BoundedSeq(1..3, 1)

TypeSlice(file) ==
  \E one \in Pairs, result \in AtMostOne, two \in Pairs, three \in AtMostOne, wanted \in (1..3) \X (1..3) :
    file = [Untyped EXCEPT
      !.interner = << Type("function", one, result), Type("union", two, <<>>), Type("array", three, <<>>) >>,
      !.tree = Drawn(<< <<0, 0, 1>> >>), !.source = << Letter >>, !.locals = <<>>,
      !.globals = << Declaration(1, <<0, 0>>, <<0, 1>>, wanted[1], <<>>) >>,
      !.expressions = << [span |-> <<0, 1>>, type |-> wanted[2]] >>,
      !.resolver = <<>>, !.bodies = {}]

SourceSlice(file) ==
  \E source \in BoundedSeq(Chars, MaxChars) :
    file = [Untyped EXCEPT !.source = source, !.tree = Drawn(<< <<0, 0, Bytes(source)>> >>),
      !.locals = <<>>, !.bodies = {},
      !.resolver = IF Len(source) < 2 THEN <<>>
                   ELSE << Use(<<Bytes(Before(source, 1)), Bytes(Before(source, 2))>>, 1, Member) >>]

(* The proofs take for granted what is asserted of each of them.              *)
MCIsInput(file) ==
  /\ \/ TreeSlice(file) \/ SymbolSlice(file) \/ LambdaSlice(file)
     \/ UseSlice(file) \/ TypeSlice(file) \/ SourceSlice(file)
  /\ Assert(/\ IsTree(file.tree) /\ KnowsItsTypes(file) /\ ListsItsUses(file) /\ IsText(file.source)
            /\ GivesIds(file) /\ UsesAreWords(file), file)
=============================================================================
