--------------------------- MODULE LambdaOwnership ---------------------------
(* Who owns a lambda, a call or a local, and what a lambda captures. The code *)
(* answers twice: symbols are owned by the smallest lambda whose span is      *)
(* around theirs, while calls and creations are attributed by a walk over the *)
(* syntax that carries the owner along. The rounds rely on both: a capture is *)
(* read from the state of the owner at the creation.                          *)
(*                                                                            *)
(* The body of one callable is the sequence of the tokens that matter here.   *)
(* A token's place in the sequence is its offset in the source.               *)
EXTENDS Naturals, Sequences, FiniteSets

CONSTANTS
  Callable,    \* the symbol whose body is walked
  MaxTokens,   \* bounds the body
  None

VARIABLES
  tokens,    \* the body
  open,      \* the places of the lambdas that are not closed yet
  walking,   \* the text is complete and is being walked
  at,        \* the token the walk looks at
  owner,     \* the owners along the recursion of the walk, the current one last
  calls,     \* collected calls: [caller, at]
  creations  \* collected creations: [owner, lambda]

vars == <<tokens, open, walking, at, owner, calls, creations>>
-----------------------------------------------------------------------------
(* Tolk source: a token is [kind, local], where local is the place of the     *)
(* declaration a use refers to.                                               *)
Places == DOMAIN tokens
Token(kind, local) == [kind |-> kind, local |-> local]

(* The lambda that closes at a place, and the span of each lambda. *)
Balanced(from, to) ==
  Cardinality({i \in from..to : tokens[i].kind = "open"})
    = Cardinality({i \in from..to : tokens[i].kind = "close"})
Lambdas == {i \in Places : tokens[i].kind = "open"}
End(lambda) ==
  CHOOSE e \in Places : /\ e > lambda /\ Balanced(lambda, e)
                        /\ \A d \in lambda..(e - 1) : ~ Balanced(lambda, d)

Write(token) ==
  /\ ~ walking
  /\ Len(tokens) + Len(open) < MaxTokens
  /\ tokens' = Append(tokens, token)
  /\ UNCHANGED <<walking, at, owner, calls, creations>>

(* A local is in scope until the lambda around its declaration closes. *)
InScope(d) ==
  /\ tokens[d].kind = "declare"
  /\ \A lambda \in 1..(d - 1) :
       tokens[lambda].kind = "open" /\ ~ (\E e \in lambda..d : Balanced(lambda, e))
         => \E i \in DOMAIN open : open[i] = lambda

OpenLambda ==
  /\ Len(tokens) + Len(open) + 2 <= MaxTokens
  /\ Write(Token("open", None))
  /\ open' = Append(open, Len(tokens) + 1)

CloseLambda ==
  /\ ~ walking
  /\ open # <<>>
  /\ tokens' = Append(tokens, Token("close", None))
  /\ open' = SubSeq(open, 1, Len(open) - 1)
  /\ UNCHANGED <<walking, at, owner, calls, creations>>

Declare == Write(Token("declare", None)) /\ UNCHANGED open
CallSomething == Write(Token("call", None)) /\ UNCHANGED open
Use == \E d \in Places : InScope(d) /\ Write(Token("use", d)) /\ UNCHANGED open

EndOfText ==
  /\ ~ walking
  /\ open = <<>>
  /\ walking' = TRUE
  /\ UNCHANGED <<tokens, open, at, owner, calls, creations>>
-----------------------------------------------------------------------------
(* Spans *)
Around(lambda, start, end) == lambda <= start /\ End(lambda) >= end
Smallest(lambdas) ==
  IF lambdas = {} THEN Callable
  ELSE CHOOSE l \in lambdas : \A m \in lambdas : End(l) - l <= End(m) - m

(* Faulty: the lambda itself counts among those around it.                   *)
ContainingSymbolOrSelf(lambda) ==
  Smallest({l \in Lambdas : l <= lambda /\ End(l) >= End(lambda)})

(* collect_lambda_symbols: around on both sides, strictly. *)
ContainingSymbol(lambda) ==
  Smallest({l \in Lambdas : l < lambda /\ End(l) > End(lambda)})

(* collect_lambda_symbols, its second half: the owner of a local. *)
LocalOwner(d) == Smallest({l \in Lambdas : Around(l, d, d)})

UsesWithin(lambda) ==
  {i \in Places : tokens[i].kind = "use" /\ Around(lambda, i, i)}

(* Faulty: only what the lambda uses itself, not what those inside it use.    *)
CapturesOfItsOwn(lambda) ==
  {tokens[i].local : i \in {u \in UsesWithin(lambda) : LocalOwner(u) = lambda}}
    \ {d \in Places : Around(lambda, d, d)}

(* lambda_captures: the locals used within the span and declared outside it. *)
Captures(lambda) ==
  {tokens[i].local : i \in UsesWithin(lambda)} \ {d \in Places : Around(lambda, d, d)}
-----------------------------------------------------------------------------
(* collect_owned_call_nodes *)
Owner == owner[Len(owner)]

EnterLambda ==
  /\ walking /\ at \in Places
  /\ tokens[at].kind = "open"
  /\ creations' = creations \union {[owner |-> Owner, lambda |-> at]}
  /\ owner' = Append(owner, at)
  /\ at' = at + 1
  /\ UNCHANGED <<tokens, open, walking, calls>>

LeaveLambda ==
  /\ walking /\ at \in Places
  /\ tokens[at].kind = "close"
  /\ owner' = SubSeq(owner, 1, Len(owner) - 1)
  /\ at' = at + 1
  /\ UNCHANGED <<tokens, open, walking, calls, creations>>

CollectCall ==
  /\ walking /\ at \in Places
  /\ tokens[at].kind = "call"
  /\ calls' = calls \union {[caller |-> Owner, at |-> at]}
  /\ at' = at + 1
  /\ UNCHANGED <<tokens, open, walking, owner, creations>>

PassOver ==
  /\ walking /\ at \in Places
  /\ tokens[at].kind \in {"declare", "use"}
  /\ at' = at + 1
  /\ UNCHANGED <<tokens, open, walking, owner, calls, creations>>

Init ==
  /\ tokens = <<>> /\ open = <<>> /\ walking = FALSE
  /\ at = 1 /\ owner = <<Callable>>
  /\ calls = {} /\ creations = {}

Next ==
  \/ OpenLambda \/ CloseLambda \/ Declare \/ CallSomething \/ Use \/ EndOfText
  \/ EnterLambda \/ LeaveLambda \/ CollectCall \/ PassOver

Spec == Init /\ [][Next]_vars
-----------------------------------------------------------------------------
Walked == walking /\ at \notin Places

(* The two answers agree: a lambda is created by the symbol that the spans    *)
(* say contains it, each lambda once; a call is attributed to the smallest    *)
(* lambda around it, as a local declared in its place would be.               *)
OwnersAgree ==
  Walked =>
    /\ creations = {[owner |-> ContainingSymbol(l), lambda |-> l] : l \in Lambdas}
    /\ calls = {[caller |-> LocalOwner(i), at |-> i] :
                  i \in {p \in Places : tokens[p].kind = "call"}}

(* A captured value is at hand where it is captured: what a lambda captures   *)
(* is a local of the symbol that creates it, or one that this symbol captures *)
(* itself. So the creation reads it from its owner's own state.               *)
CapturesAreAtHand ==
  Walked =>
    \A c \in creations : \A d \in Captures(c.lambda) :
      \/ LocalOwner(d) = c.owner
      \/ c.owner # Callable /\ d \in Captures(c.owner)
=============================================================================
