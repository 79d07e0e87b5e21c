------------------------------ MODULE TypeTable ------------------------------
(* TypeBuilder: the types of the snapshot. The interner of the type inference *)
(* holds a graph of types; each type that is asked for is converted with      *)
(* those it consists of, once, by a recursion that remembers the id of a type *)
(* before it descends into it. So an entry may name types that come later in  *)
(* the list, and in a type that contains itself the recursion comes to an end.*)
EXTENDS Naturals, SequencesExt

VARIABLES
  interner,  \* of each type: [kind, parts, result], result a sequence of none or one
  requests,  \* the types that are still to be converted
  typeIds,   \* ids: of the types that were met
  types,     \* the entries, in the order they are pushed
  converting \* the recursion of convert: [type, done], done the ids of operands

vars == <<interner, requests, typeIds, types, converting>>
-----------------------------------------------------------------------------
Operands(t) == interner[t].parts \o interner[t].result

StartTable(wanted) ==
  /\ requests = wanted /\ types = <<>> /\ converting = <<>>
  /\ typeIds = [t \in {} |-> 0]

NewId == Cardinality(DOMAIN typeIds)

(* Faulty: the id of a type is not remembered.                                *)
RememberNothing(t) == typeIds' = typeIds

Remember(t) ==
  typeIds' = [u \in DOMAIN typeIds \union {t} |-> IF u = t THEN NewId ELSE typeIds[u]]

Descend(t, below) ==
  /\ Remember(t)
  /\ converting' = Append(below, [type |-> t, id |-> NewId, done |-> <<>>])

(* convert, called by the loops of build. *)
Request ==
  /\ converting = <<>> /\ requests # <<>>
  /\ requests' = Tail(requests)
  /\ IF Head(requests) \in DOMAIN typeIds
       THEN UNCHANGED <<typeIds, converting>>
       ELSE Descend(Head(requests), <<>>)
  /\ UNCHANGED <<interner, types>>

Converting == Last(converting)
Operand == Operands(Converting.type)[Len(Converting.done) + 1]
OperandsLeft == Len(Converting.done) < Len(Operands(Converting.type))
Answered(stack, id) == [stack EXCEPT ![Len(stack)].done = Append(@, id)]

ConvertKnown ==
  /\ converting # <<>> /\ OperandsLeft
  /\ Operand \in DOMAIN typeIds
  /\ converting' = Answered(converting, typeIds[Operand])
  /\ UNCHANGED <<interner, requests, typeIds, types>>

ConvertNew ==
  /\ converting # <<>> /\ OperandsLeft
  /\ Operand \notin DOMAIN typeIds
  /\ Descend(Operand, converting)
  /\ UNCHANGED <<interner, requests, types>>

PushType ==
  /\ converting # <<>> /\ ~ OperandsLeft
  /\ LET n == Len(interner[Converting.type].parts) IN
     types' = Append(types,
       [id |-> Converting.id, kind |-> interner[Converting.type].kind,
        elements |-> SubSeq(Converting.done, 1, n),
        result |-> SubSeq(Converting.done, n + 1, Len(Converting.done))])
  /\ converting' = IF Len(converting) = 1 THEN <<>> ELSE Answered(Front(converting), Converting.id)
  /\ UNCHANGED <<interner, requests, typeIds>>

Convert == Request \/ ConvertKnown \/ ConvertNew \/ PushType
Converted == requests = <<>> /\ converting = <<>>
-----------------------------------------------------------------------------
(* The table unfolds to the types of the interner, also where a type contains *)
(* itself: each type has one entry, found by its id, that names the entries   *)
(* of its operands; and at no time is a type being converted twice.           *)
TypesUnfold ==
  /\ \A i, j \in DOMAIN converting : converting[i].type = converting[j].type => i = j
  /\ Converted =>
       /\ Len(types) = Cardinality(DOMAIN typeIds)
       /\ \A t \in DOMAIN typeIds : \E i \in DOMAIN types :
            /\ types[i].id = typeIds[t]
            /\ types[i].kind = interner[t].kind
            /\ LET named == types[i].elements \o types[i].result IN
               /\ Len(types[i].elements) = Len(interner[t].parts)
               /\ Len(named) = Len(Operands(t))
               /\ \A k \in DOMAIN named :
                    Operands(t)[k] \in DOMAIN typeIds /\ named[k] = typeIds[Operands(t)[k]]
=============================================================================
