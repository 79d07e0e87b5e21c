----------------------------- MODULE SyntaxNodes -----------------------------
(* collect_node: the walk that copies the syntax tree of a file into a list   *)
(* of nodes, and the two ways a span is later turned into a node. Anonymous   *)
(* tokens are not copied but count in the index of those that are. A node's   *)
(* id is its span, its kind and this index; its parent makes the ids of its   *)
(* children, each child makes its own.                                        *)
EXTENDS Naturals, SequencesExt

CONSTANT None

VARIABLES
  tree,     \* [parent, start, end, kind, listed], numbered in source order
  frames,   \* the recursion of the walk; passed: the children before its index
  nodeIds,  \* node_ids: the last node entered with a span
  nodes     \* the copies, in the order they are pushed

vars == <<tree, frames, nodeIds, nodes>>
-----------------------------------------------------------------------------
Root == 1
Span(n) == <<tree.start[n], tree.end[n]>>
Id(n, index) == <<tree.start[n], tree.end[n], tree.kind[n], index>>
Children(n) == {c \in DOMAIN tree.parent : tree.parent[c] = n}

Frame(n, id, parent) == [node |-> n, id |-> id, parent |-> parent, passed |-> {}, children |-> <<>>]
With(table, key, value) == [k \in DOMAIN table \union {key} |-> IF k = key THEN value ELSE table[k]]

StartWalk ==
  /\ frames = <<Frame(Root, Id(Root, 0), None)>>
  /\ nodeIds = [s \in {Span(Root)} |-> Id(Root, 0)]
  /\ nodes = <<>>

Current == Last(frames)
ChildrenLeft == Children(Current.node) \ Current.passed
Child == Min(ChildrenLeft)
Index == Cardinality(Current.passed)
Passed == [frames EXCEPT ![Len(frames)].passed = @ \union {Child}]

PassToken ==
  /\ frames # <<>> /\ ChildrenLeft # {}
  /\ ~ tree.listed[Child]
  /\ frames' = Passed
  /\ UNCHANGED <<tree, nodeIds, nodes>>

EnterChild ==
  /\ frames # <<>> /\ ChildrenLeft # {}
  /\ tree.listed[Child]
  /\ LET id == Id(Child, Index) IN
     /\ frames' = Append([Passed EXCEPT ![Len(frames)].children = Append(@, id)],
                         Frame(Child, id, Current.id))
     /\ nodeIds' = With(nodeIds, Span(Child), id)
  /\ UNCHANGED <<tree, nodes>>

Copy(frame) == [id |-> frame.id, parent |-> frame.parent, children |-> frame.children,
                start |-> tree.start[frame.node], end |-> tree.end[frame.node]]

(* Faulty: a node is pushed before those in it.                               *)
PushNodeFirst ==
  /\ frames # <<>> /\ ChildrenLeft = {}
  /\ nodes' = <<Copy(Current)>> \o nodes
  /\ frames' = Front(frames)
  /\ UNCHANGED <<tree, nodeIds>>

PushNode ==
  /\ frames # <<>> /\ ChildrenLeft = {}
  /\ nodes' = Append(nodes, Copy(Current))
  /\ frames' = Front(frames)
  /\ UNCHANGED <<tree, nodeIds>>

Walk == PassToken \/ EnterChild \/ PushNode
Walked == frames = <<>>
-----------------------------------------------------------------------------
ExactNode(span) == IF span \in DOMAIN nodeIds THEN nodeIds[span] ELSE None

Size(node) == node.end - node.start

(* min_by_key returns the first of the smallest. *)
SmallestNode(span) ==
  LET around == {i \in DOMAIN nodes : nodes[i].start <= span[1] /\ nodes[i].end >= span[2]}
      smallest == {i \in around : \A j \in around : Size(nodes[i]) <= Size(nodes[j])}
  IN  IF around = {} THEN None ELSE nodes[CHOOSE i \in smallest : \A j \in smallest : i <= j].id

NodeOf(span) == IF ExactNode(span) # None THEN ExactNode(span) ELSE SmallestNode(span)
-----------------------------------------------------------------------------
(* The nodes of the tree that are copied: the root, and those that are listed *)
(* and whose parents are copied.                                              *)
Copied ==
  UNION {S \in SUBSET DOMAIN tree.parent :
           \A n \in S : n = Root \/ (tree.listed[n] /\ tree.parent[n] \in S)}

Before(siblings, n) == {c \in siblings : c < n}
IdOf(n) == Id(n, Cardinality(Before(Children(tree.parent[n]), n)))

Around(span) == {n \in Copied : tree.start[n] <= span[1] /\ tree.end[n] >= span[2]}

(* The two ways to find the node of a span are one: where a node has exactly  *)
(* this span both lead to the innermost such node, although one depends on    *)
(* the order in which nodes are entered and the other on the order in which   *)
(* they are pushed; elsewhere the innermost node around it is found.          *)
InnermostIsFound ==
  Walked =>
    \A start, end \in tree.start[Root]..tree.end[Root] : start < end =>
      LET span == <<start, end>>
          innermost == IdOf(CHOOSE n \in Around(span) : \A m \in Around(span) : m <= n)
      IN  SmallestNode(span) = innermost /\ ExactNode(span) \in {None, innermost}

(* Every node that is copied has one entry, whose parent and children are     *)
(* those of the tree, and which they name in turn.                            *)
NodesFormTheTree ==
  Walked =>
    /\ Len(nodes) = Cardinality(Copied)
    /\ \A n \in Copied : \E i \in DOMAIN nodes :
         /\ nodes[i].id = IdOf(n)
         /\ nodes[i].parent = IF n = Root THEN None ELSE IdOf(tree.parent[n])
         /\ LET copied == Children(n) \intersect Copied
            IN  /\ Len(nodes[i].children) = Cardinality(copied)
                /\ \A c \in copied : nodes[i].children[Cardinality(Before(copied, c)) + 1] = IdOf(c)
=============================================================================
