----------------------------- MODULE References -----------------------------
(* collect_references_and_calls up to the calls: the uses of names. Two parts *)
(* of Acton say what a name refers to. The resolver knows scopes; the type    *)
(* inference, body by body, also knows fields and methods. Of one use the     *)
(* resolver's answer counts, unless it has none and the inference has. The    *)
(* bodies come out of a hash map, in any order.                               *)
EXTENDS Naturals, SequencesExt, Orders

CONSTANT Unresolved

VARIABLES
  reading,   \* the uses of the resolver, or of a body, that are left to be read
  inferring, \* the bodies of the inference are being read
  unread,    \* the bodies that are left
  uses       \* of each key: what its name refers to

vars == <<reading, inferring, unread, uses>>
-----------------------------------------------------------------------------
(* A use is [start, end, name, target]. *)
Key(use) == <<use.start, use.end, use.name>>
SpanOf(key) == <<key[1], key[2]>>

StartReading(resolver, bodies) ==
  /\ reading = resolver /\ inferring = FALSE /\ unread = bodies
  /\ uses = [k \in {} |-> Unresolved]

(* Faulty: what the inference has found always counts.                        *)
ReplacesWhenFound(use) == inferring => use.target # Unresolved

(* should_replace; among the resolver's own uses the last one counts. *)
Replaces(use) ==
  \/ ~ inferring
  \/ Key(use) \notin DOMAIN uses
  \/ uses[Key(use)] = Unresolved /\ use.target # Unresolved

ReadUse ==
  /\ reading # <<>>
  /\ uses' = IF Replaces(Head(reading))
               THEN [k \in DOMAIN uses \union {Key(Head(reading))} |->
                       IF k = Key(Head(reading)) THEN Head(reading).target ELSE uses[k]]
               ELSE uses
  /\ reading' = Tail(reading)
  /\ UNCHANGED <<inferring, unread>>

OpenBody ==
  /\ reading = <<>>
  /\ \E body \in unread : reading' = body /\ unread' = unread \ {body}
  /\ inferring' = TRUE
  /\ UNCHANGED uses

Read == ReadUse \/ OpenBody
AllRead == reading = <<>> /\ unread = {}
-----------------------------------------------------------------------------
KeyBefore(k, l) ==
  \/ k[1] < l[1]
  \/ k[1] = l[1] /\ k[2] < l[2]
  \/ k[1] = l[1] /\ k[2] = l[2] /\ k[3] < l[3]

InKeyOrder == InOrder(DOMAIN uses, KeyBefore)

(* resolved_by_span, which the calls are resolved with: it is collected in    *)
(* the order of the keys, so of two names in one place the last one counts.   *)
(* Faulty: the first one counts.                                              *)
ResolvedBySpanFirst(span) ==
  LET there == {k \in DOMAIN uses : SpanOf(k) = span}
  IN  IF there = {} THEN Unresolved
      ELSE uses[CHOOSE k \in there : \A l \in there \ {k} : KeyBefore(k, l)]

ResolvedBySpan(span) ==
  LET there == {k \in DOMAIN uses : SpanOf(k) = span}
  IN  IF there = {} THEN Unresolved
      ELSE uses[CHOOSE k \in there : \A l \in there \ {k} : KeyBefore(l, k)]
-----------------------------------------------------------------------------
UsesOf(read, key) == {i \in DOMAIN read : Key(read[i]) = key}
Found(read, key) == {i \in UsesOf(read, key) : read[i].target # Unresolved}

(* The answers the code should settle on: of the resolver the last, and if it *)
(* has none the first that the body with this use has found.                  *)
BestAnswer(resolver, bodies, key) ==
  LET own == UsesOf(resolver, key)
      found == {body[Min(Found(body, key))].target : body \in {b \in bodies : Found(b, key) # {}}}
  IN  IF own # {} /\ resolver[Max(own)].target # Unresolved THEN {resolver[Max(own)].target}
      ELSE IF found = {} THEN {Unresolved} ELSE found

(* No use is lost, and no body replaces an answer by a lesser one, in         *)
(* whatever order the bodies come out of their hash map: each use that        *)
(* somebody has seen is there, and refers to nothing only where neither the   *)
(* last word of the resolver on it nor any body says what it is. (A resolver  *)
(* that lists a use twice overrules itself, also with nothing.)               *)
BestAnswersAreKept(resolver, bodies) ==
  AllRead =>
    /\ DOMAIN uses = UNION {{Key(read[i]) : i \in DOMAIN read} : read \in bodies \union {resolver}}
    /\ \A key \in DOMAIN uses : uses[key] \in BestAnswer(resolver, bodies, key)
=============================================================================
