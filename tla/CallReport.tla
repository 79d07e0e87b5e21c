----------------------------- MODULE CallReport -----------------------------
(* From the text of a body to the call graph: collect_program_call_sites      *)
(* walks the body for its calls and their owners, the analysis finds targets  *)
(* for those calls, and the report unites what it found. Call sites are found *)
(* for calls the walk has collected and for no others.                        *)
EXTENDS CallSites

CONSTANTS
  Callable, MaxTokens, None,  \* see LambdaOwnership
  MaxReported                 \* bounds the bodies whose calls are reported

\* A lambda has an id of its own, not that of the callable around it.
ASSUME CallableAssumption == Callable \notin Nat

VARIABLES tokens, open, walking, at, owner, collected, creations

Walk == INSTANCE LambdaOwnership WITH calls <- collected

walk == <<tokens, open, walking, at, owner, collected, creations>>
-----------------------------------------------------------------------------
Collect == stage = "collect" /\ Walk!Next /\ UNCHANGED vars

(* What the rounds found: any entries, in any order, for the collected calls. *)
Find ==
  /\ stage = "collect"
  /\ Walk!Walked
  /\ Len(tokens) <= MaxReported
  /\ found' \in {f \in Inputs : \A i \in DOMAIN f : \E c \in collected : f[i].key = c.at}
  /\ order' = [i \in DOMAIN found' |-> i]
  /\ stage' = "sort"
  /\ UNCHANGED <<next, merged, calls, walk>>

Report == Next /\ UNCHANGED walk

ReportInit ==
  /\ Walk!Init
  /\ found = <<>> /\ order = <<>> /\ next = 1 /\ merged = <<>> /\ calls = {}
  /\ stage = "collect"

ReportNext == Collect \/ Find \/ Report

ReportSpec == ReportInit /\ [][ReportNext]_<<vars, walk>>
-----------------------------------------------------------------------------
(* Owners by spans and owners by the walk are the same, see LambdaOwnership.  *)
OwnersAgree == Walk!OwnersAgree

(* A lambda's captures are at hand where it is created, see LambdaOwnership.  *)
CapturesAreAtHand == Walk!CapturesAreAtHand
=============================================================================
