---------------------------- MODULE ProgramCalls ----------------------------
(***************************************************************************)
(* The whole-program analysis: collect_program_call_sites and              *)
(* analyze_program_calls (crates/tolk-inspect-core/src/lib.rs).  A round   *)
(* analyses every callable body with the summaries of the round before -   *)
(* what its parameters and captures may hold, what the callables return    *)
(* and leave in their mutable parameters - and collects new summaries and  *)
(* the call sites.  Rounds repeat until the summaries are stable, first    *)
(* with parameters that nobody passes taken as bottom, then as unknown.    *)
(*                                                                         *)
(* A body is solved by the loop of module Worklist, step by step, over the *)
(* transfer function of module CallableFlow.                               *)
(***************************************************************************)
EXTENDS CallableFlow

CONSTANTS Node,                 \* the nodes of all control-flow graphs
          Unvisited,            \* no state has reached a node
          Programs,             \* the programs to analyse
          MinRounds,            \* 8 in the code
          RoundsPerDefinition   \* 4 in the code

ASSUME RoundsAssumption == MinRounds \in Nat \ {0} /\ RoundsPerDefinition \in Nat

VARIABLES
  prog,      \* the program: its definitions, their order, its entrypoints
  phase,     \* "internal", "external", then "done"
  round,     \* rounds done in this phase
  todo,      \* definitions this round has still to analyse
  summary,   \* parameters, captures, returns and mutations of the last round
  fresh,     \* those of this round, and its call sites
  stable,    \* whether the last round changed nothing
  sites,     \* the call sites of the last round
  solved,    \* the states the last round found (the code keeps no copy)
  task, incoming, work, at, before, after, cursor   \* the worklist

solver == <<task, incoming, work, at, before, after, cursor>>
program == <<prog, phase, round, todo, summary, fresh, stable, sites, solved>>
vars == <<program, solver>>

Solver == INSTANCE Worklist WITH
  State <- {}, Tasks <- {},
  Transfer <- LAMBDA t, n, s : TransferNode(t.nodes[n], s, t.returns, t.mutations)

NoValue == <<>>   \* None: nobody passed the parameter, no output is known
MergeOptional(current, v) == IF current = NoValue THEN v ELSE Merge(current, v)

Symbols == DOMAIN prog.defs
MaxRounds == Max({MinRounds, RoundsPerDefinition * Cardinality(Symbols)})

(* The graph of a body with the state on its entry: parameters and captures*)
(* hold what the summaries say, other locals are unknown.                  *)
TaskFrom(symbol, known, missing) ==
  LET def == prog.defs[symbol]
      passed(values, i) == IF i \in DOMAIN values /\ values[i] # NoValue THEN values[i] ELSE missing
      given(table) == IF symbol \in DOMAIN table THEN table[symbol] ELSE <<>>
      position(l) == CHOOSE i \in DOMAIN def.parameters : def.parameters[i] = l
  IN  [symbol |-> symbol, nodes |-> def.nodes, entry |-> def.entry, out |-> def.out,
       returns |-> known.returns, mutations |-> known.mutations,
       initial |-> [l \in def.locals |->
         IF l \in def.captures THEN passed(given(known.captures), l)
         ELSE IF l \in Range(def.parameters) THEN passed(given(known.parameters), position(l))
         ELSE Unknown]]

(* Faulty: in the external phase, too, nobody calls from outside.          *)
TaskOfInternal(symbol, known, external) == TaskFrom(symbol, known, Bottom)

TaskOf(symbol, known, external) ==
  TaskFrom(symbol, known, IF external THEN Unknown ELSE Bottom)

NoFunction == [f \in {} |-> f]

FirstSummary(p) ==
  [parameters |-> NoFunction, captures |-> NoFunction,
   returns |-> [f \in DOMAIN p.defs |-> Bottom],
   mutations |-> [f \in DOMAIN p.defs |->
     [i \in DOMAIN p.defs[f].mutable |-> IF p.defs[f].mutable[i] THEN Bottom ELSE NoValue]]]

NothingYet(p) ==
  [parameters |-> [f \in DOMAIN p.defs |-> [i \in DOMAIN p.defs[f].parameters |-> NoValue]],
   captures |-> NoFunction, returns |-> NoFunction,
   mutations |-> [f \in DOMAIN p.defs |-> [i \in DOMAIN p.defs[f].mutable |-> NoValue]],
   sites |-> {}]

Init ==
  /\ prog \in Programs
  /\ phase = "internal"
  /\ round = 0
  /\ todo = prog.order
  /\ summary = FirstSummary(prog)
  /\ fresh = NothingYet(prog)
  /\ stable = FALSE
  /\ sites = {}
  /\ solved = NoFunction
  /\ Solver!StartOn(TaskOf(Head(prog.order), FirstSummary(prog), FALSE))

Restart(t) ==
  /\ task' = t
  /\ incoming' = [n \in Node |-> IF n = t.entry THEN t.initial ELSE Unvisited]
  /\ work' = <<t.entry>>
  /\ at' = t.entry
  /\ before' = t.initial
  /\ after' = t.initial
  /\ cursor' = Len(t.out[t.entry]) + 1

SolveStep == Solver!Next /\ UNCHANGED program

(***************************************************************************)
(* What one solved body contributes.                                       *)
(***************************************************************************)
(* Its call sites: where, and what the callee may be before the node.      *)
Callee(call, state, returns) ==
  IF DirectTarget(call.callee) # NoSymbol THEN TargetValue(DirectTarget(call.callee))
  ELSE Eval(call.callee, state, returns, 0)

Reached(states) == {n \in Node : states[n] # Unvisited}

CallAt(symbol, c) == NodeCalls(prog.defs[symbol].nodes[c[1]])[c[2]]

CallsOf(symbol, states) ==
  UNION {{<<n, k>> : k \in DOMAIN NodeCalls(prog.defs[symbol].nodes[n])} : n \in Reached(states)}

Site(symbol, node, index, call, callee) ==
  [caller |-> symbol, node |-> node, index |-> index,
   direct |-> DirectTarget(call.callee) # NoSymbol,
   targets |-> Targets(callee), complete |-> ReportsComplete(callee)]

SitesOf(symbol, states) ==
  {Site(symbol, c[1], c[2], CallAt(symbol, c),
        Callee(CallAt(symbol, c), states[c[1]], summary.returns)) : c \in CallsOf(symbol, states)}

(* call_argument_values: an instance method called by name gets its        *)
(* receiver first.                                                         *)
Receiver(call) ==
  IF /\ DirectTarget(call.callee) \in Symbols
     /\ prog.defs[DirectTarget(call.callee)].instance
     /\ Bare(call.callee).op = "dot"
  THEN <<Bare(call.callee).obj>> ELSE <<>>

ArgumentValues(call, state, returns) ==
  [i \in DOMAIN (Receiver(call) \o call.args) |->
     Eval((Receiver(call) \o call.args)[i], state, returns, 0)]

(* The arguments of its calls flow into the parameters of their targets.   *)
(* Faulty: the last call decides.                                          *)
PassReplaces(parameters, targets, args) ==
  [f \in DOMAIN parameters |->
     IF f \notin targets THEN parameters[f]
     ELSE [i \in DOMAIN parameters[f] |-> IF i \in DOMAIN args THEN args[i] ELSE parameters[f][i]]]

Pass(parameters, targets, args) ==
  [f \in DOMAIN parameters |->
     IF f \notin targets THEN parameters[f]
     ELSE [i \in DOMAIN parameters[f] |->
             IF i \in DOMAIN args THEN MergeOptional(parameters[f][i], args[i])
             ELSE parameters[f][i]]]

InSourceOrder(c, d) == c[1] < d[1] \/ (c[1] = d[1] /\ c[2] < d[2])

PassedBy(parameters, symbol, states) ==
  FoldLeft(LAMBDA acc, c :
             Pass(acc, Targets(Callee(CallAt(symbol, c), states[c[1]], summary.returns)),
                  ArgumentValues(CallAt(symbol, c), states[c[1]], summary.returns)),
           parameters, SetToSortSeq(CallsOf(symbol, states), InSourceOrder))

(* callable_return_value                                                   *)
ReturnNodes(symbol, states) ==
  {n \in Reached(states) : prog.defs[symbol].nodes[n].kind = "return"}

ReturnedValues(symbol, states) ==
  FoldSet(LAMBDA n, v : MergeOptional(v, Eval(prog.defs[symbol].nodes[n].expression,
                                              states[n], summary.returns, 0)),
          NoValue, ReturnNodes(symbol, states))

ReturnedFrom(symbol, states) ==
  IF ReturnNodes(symbol, states) = {} THEN NonCallable ELSE ReturnedValues(symbol, states)

(* What its mutable parameters hold at its exit.                           *)
LeftBy(symbol, states) ==
  LET def == prog.defs[symbol]
  IN  [i \in DOMAIN def.mutable |->
         IF def.mutable[i] /\ states[def.exit] # Unvisited
         THEN states[def.exit][def.parameters[i]] ELSE NoValue]

(* What the lambdas created in it capture there.                           *)
RECURSIVE LambdasIn(_)
LambdasIn(e) ==
  (IF e.op = "lambda" THEN {e.symbol} ELSE {})
    \cup UNION {LambdasIn(SubExpressions(e)[i]) : i \in DOMAIN SubExpressions(e)}

Creating(symbol, states, f) ==
  {n \in Reached(states) : f \in LambdasIn(prog.defs[symbol].nodes[n].expression)}

CapturedBy(captures, symbol, states) ==
  LET created == {f \in Symbols : prog.defs[f].captures # {} /\ Creating(symbol, states, f) # {}}
      earlier(f, l) == IF f \in DOMAIN captures THEN captures[f][l] ELSE Bottom
  IN  [f \in DOMAIN captures \cup created |->
         IF f \in created
         THEN [l \in prog.defs[f].captures |->
                 FoldSet(LAMBDA n, v : Merge(v, ReadState(states[n], l)), earlier(f, l),
                         Creating(symbol, states, f))]
         ELSE captures[f]]

Contribution(symbol, states) ==
  [parameters |-> PassedBy(fresh.parameters, symbol, states),
   captures |-> CapturedBy(fresh.captures, symbol, states),
   returns |-> [f \in DOMAIN fresh.returns \cup {symbol} |->
                  IF f = symbol THEN ReturnedFrom(symbol, states) ELSE fresh.returns[f]],
   mutations |-> [fresh.mutations EXCEPT ![symbol] = LeftBy(symbol, states)],
   sites |-> fresh.sites \cup SitesOf(symbol, states)]

FinishDefinition ==
  /\ todo # <<>>
  /\ Solver!Done
  /\ fresh' = Contribution(Head(todo), incoming)
  /\ solved' = [f \in DOMAIN solved \cup {Head(todo)} |->
                  IF f = Head(todo) THEN incoming ELSE solved[f]]
  /\ todo' = Tail(todo)
  /\ IF Len(todo) > 1 THEN Restart(TaskOf(todo[2], summary, phase = "external"))
     ELSE UNCHANGED solver
  /\ UNCHANGED <<prog, phase, round, summary, stable, sites>>

(* The end of a round: adopt its summaries and go on, to the next phase    *)
(* once they are stable or the rounds are used up.                         *)
Summaries(r) ==
  [parameters |-> r.parameters, captures |-> r.captures, returns |-> r.returns,
   mutations |-> r.mutations]

EndRoundWhen(over) ==
  /\ todo = <<>> /\ phase # "done"
  /\ summary' = Summaries(fresh)
  /\ sites' = fresh.sites
  /\ stable' = (Summaries(fresh) = summary)
  /\ phase' = IF ~over THEN phase ELSE IF phase = "internal" THEN "external" ELSE "done"
  /\ round' = IF over THEN 0 ELSE round + 1
  /\ fresh' = NothingYet(prog)
  /\ IF phase' = "done" THEN todo' = <<>> /\ UNCHANGED solver
     ELSE /\ todo' = prog.order
          /\ Restart(TaskOf(Head(prog.order), Summaries(fresh), phase' = "external"))
  /\ UNCHANGED <<prog, solved>>

(* Faulty: the rounds end when the call sites no longer change.            *)
EndRoundOnSites == EndRoundWhen(fresh.sites = sites \/ round + 1 = MaxRounds)

EndRound == EndRoundWhen(Summaries(fresh) = summary \/ round + 1 = MaxRounds)

Analyse == SolveStep \/ FinishDefinition \/ EndRound

=============================================================================
