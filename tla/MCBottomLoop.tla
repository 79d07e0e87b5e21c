---------------------------- MODULE MCBottomLoop ----------------------------
(***************************************************************************)
(* The worklist over callable values, on the body of                       *)
(*                                                                         *)
(*   fun fill(mutate a) {                                                  *)
(*     if (..) { a.set(f, 0) } else { a.set(g, 0); g() }                   *)
(*     while (..) { g(); g() }                                             *)
(*   }                                                                     *)
(*                                                                         *)
(* in the first round, where the parameter is still bottom.  A bottom      *)
(* value keeps the members that are written to it, and a merge of two      *)
(* bottoms returns the one that arrives, so the law MergeAssumption of     *)
(* module Worklist does not hold of such values: the two stores chase each *)
(* other around the loop.                                                  *)
(***************************************************************************)
EXTENDS Collections

CONSTANT Unvisited

VARIABLES task, incoming, work, at, before, after, cursor

Body == {"if", "setF", "setG", "else", "while", "first", "second", "exit"}

To(nodes) == [i \in DOMAIN nodes |-> [to |-> nodes[i], exceptional |-> FALSE]]

Fill ==
  [entry |-> "if",
   initial |-> [l \in {"a"} |-> Bottom],
   out |-> [n \in Body |->
     CASE n = "if" -> To(<<"setF", "setG">>)
       [] n = "setG" -> To(<<"else">>)
       [] n \in {"setF", "else", "second"} -> To(<<"while">>)
       [] n = "while" -> To(<<"first", "exit">>)
       [] n = "first" -> To(<<"second">>)
       [] n = "exit" -> <<>>],
   stored |-> [n \in Body |-> CASE n = "setF" -> {"f"} [] n = "setG" -> {"g"} [] OTHER -> {}]]

(* a.set(.., 0) at the two nodes that have one.                            *)
SetAt(t, n, s) ==
  [l \in DOMAIN s |->
     IF t.stored[n] = {} THEN s[l]
     ELSE Written("Array", "set", s[l], IntKey(0), TargetValue(CHOOSE f \in t.stored[n] : TRUE))]

Loop == INSTANCE Worklist WITH
  Node <- Body, State <- {}, Tasks <- {Fill}, Transfer <- SetAt

vars == <<task, incoming, work, at, before, after, cursor>>

(* The loop is ordinary sequential code: while it can take a step it does. *)
Spec == Loop!Init /\ [][Loop!Next]_vars /\ WF_vars(Loop!Next)

(* The loop ends.                                                          *)
Terminates == Loop!Terminates

MCTarget == {"f", "g"}
MCKey == {IntKey(0), Dynamic}
=============================================================================
