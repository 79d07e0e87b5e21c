--------------------------- MODULE WorklistProofs ---------------------------
(***************************************************************************)
(* Machine-checked proofs about the worklist of callable_states, for every *)
(* graph, every transfer function and every merge with the laws of         *)
(* MergeAssumption.  The inductive invariant is NoEdgeForgotten with three *)
(* facts about the loop's own variables.                                   *)
(***************************************************************************)
EXTENDS Worklist, SequenceTheorems, TLAPS

(* What the entry was given is never lost.                                 *)
EntryHeld == Absorbs(incoming[task.entry], task.initial)

(* Only nodes that have a state are queued.                                *)
QueuedAreVisited == \A n \in Node : Queued(n) => incoming[n] # Unvisited

(* The copies the loop works with are those of the popped node, and are up *)
(* to date unless the node is queued again.                                *)
CopyIsCurrent ==
  Pending =>
    /\ incoming[at] # Unvisited
    /\ after = Transfer(task, at, before)
    /\ Queued(at) \/ incoming[at] = before

IInv == TypeOK /\ EntryHeld /\ QueuedAreVisited /\ CopyIsCurrent /\ NoEdgeForgotten

-----------------------------------------------------------------------------
(* The laws of MergeStates in the form the steps use them.                 *)
LEMMA AbsorbsItself ==
  ASSUME NEW s \in State
  PROVE  Absorbs(s, s)
BY TaskAssumption, MergeAssumption DEF Absorbs, Promise!Absorbs

(* What a merge absorbs: the arriving state, the state that was there, and *)
(* whatever that state had absorbed.                                       *)
LEMMA MergedAbsorbs ==
  ASSUME NEW s \in State \cup {Unvisited}, NEW x \in State
  PROVE  /\ Merged(s, x) \in State
         /\ Absorbs(Merged(s, x), x)
         /\ s # Unvisited => Absorbs(Merged(s, x), s)
         /\ \A y \in State : Absorbs(s, y) => Absorbs(Merged(s, x), y)
<1>1. CASE s = Unvisited
  BY <1>1, AbsorbsItself DEF Merged, Absorbs, Promise!Absorbs
<1>2. CASE s # Unvisited
  <2>1. s \in State /\ Merged(s, x) = MergeStates(s, x)
    BY <1>2 DEF Merged
  <2>2. MergeStates(s, x) \in State /\ MergeStates(s, x) # Unvisited
    BY <2>1, TaskAssumption, MergeAssumption
  <2>3. MergeStates(MergeStates(s, x), x) = MergeStates(s, x)
    BY <2>1, MergeAssumption
  <2>4. \A y \in State : MergeStates(s, y) = s =>
                           MergeStates(MergeStates(s, x), y) = MergeStates(s, x)
    BY <2>1, MergeAssumption
  <2>5. MergeStates(s, s) = s
    BY <2>1, MergeAssumption
  <2> QED
    BY <2>1, <2>2, <2>3, <2>4, <2>5 DEF Absorbs, Promise!Absorbs
<1> QED
  BY <1>1, <1>2

(* The fields of a task, and what flows along an edge, have their types.   *)
LEMMA TaskTypes ==
  ASSUME NEW t \in Tasks, NEW n \in Node
  PROVE  /\ t.entry \in Node
         /\ t.initial \in State
         /\ t.out[n] \in Seq(Edge)
         /\ DOMAIN t.out[n] = 1 .. Len(t.out[n])
         /\ Len(t.out[n]) \in Nat
         /\ \A i \in DOMAIN t.out[n] : t.out[n][i].to \in Node /\ t.out[n][i].exceptional \in BOOLEAN
<1>1. t.out[n] \in Seq(Edge)
  BY TaskAssumption
<1>2. /\ DOMAIN t.out[n] = 1 .. Len(t.out[n])
      /\ Len(t.out[n]) \in Nat
      /\ \A i \in DOMAIN t.out[n] : t.out[n][i] \in Edge
  BY <1>1
<1>3. \A e \in Edge : e.to \in Node /\ e.exceptional \in BOOLEAN
  BY DEF Edge, Promise!Edge
<1>4. t.entry \in Node /\ t.initial \in State
  BY TaskAssumption
<1> QED
  BY <1>1, <1>2, <1>3, <1>4

-----------------------------------------------------------------------------
LEMMA InitIInv == Init => IInv
<1> SUFFICES ASSUME NEW t \in Tasks, StartOn(t)
             PROVE  IInv
  BY DEF Init
<1>1. /\ task = t /\ at = t.entry /\ work = <<t.entry>>
      /\ cursor = Len(t.out[t.entry]) + 1
      /\ before = t.initial /\ after = t.initial
      /\ incoming = [n \in Node |-> IF n = t.entry THEN t.initial ELSE Unvisited]
  BY DEF StartOn
<1>2. t.entry \in Node /\ t.initial \in State /\ Len(t.out[t.entry]) \in Nat
  BY TaskAssumption, TaskTypes
<1>3. TypeOK
  BY <1>1, <1>2 DEF TypeOK
<1>4. ~Pending
  BY <1>1, <1>2 DEF Pending
<1>5. EntryHeld
  BY <1>1, <1>2, AbsorbsItself DEF EntryHeld
<1>6. \A n \in Node : Queued(n) <=> n = t.entry
  <2>1. DOMAIN work = {1} /\ work[1] = t.entry
    BY <1>1
  <2> QED
    BY <2>1 DEF Queued
<1>7. QueuedAreVisited
  BY <1>1, <1>2, <1>6, TaskAssumption DEF QueuedAreVisited
<1>8. NoEdgeForgotten
  BY <1>1, <1>6 DEF NoEdgeForgotten, Outstanding
<1> QED
  BY <1>3, <1>4, <1>5, <1>7, <1>8 DEF IInv, CopyIsCurrent

LEMMA PopKeepsIInv ==
  ASSUME IInv, Pop
  PROVE  IInv'
<1> DEFINE n0 == Head(work)
<1>1. /\ ~Pending /\ work # <<>> /\ at' = n0 /\ work' = Tail(work)
      /\ before' = incoming[n0] /\ after' = Transfer(task, n0, incoming[n0])
      /\ cursor' = 1 /\ task' = task /\ incoming' = incoming
  BY DEF Pop
<1>2. /\ task \in Tasks /\ incoming \in [Node -> State \cup {Unvisited}] /\ work \in Seq(Node)
      /\ at \in Node /\ cursor \in 1 .. (Len(task.out[at]) + 1)
  BY DEF IInv, TypeOK
<1>3. /\ n0 \in Node /\ Tail(work) \in Seq(Node)
      /\ \A n \in Node : Queued(n) <=> n = n0 \/ Queued(n)'
  <2>1. work[1] = n0 /\ 1 \in DOMAIN work /\ n0 \in Node /\ Tail(work) \in Seq(Node)
    BY <1>1, <1>2
  <2>2. \A i \in DOMAIN Tail(work) : i + 1 \in DOMAIN work /\ Tail(work)[i] = work[i + 1]
    BY <1>1, <1>2
  <2>3. \A i \in DOMAIN work : i # 1 => i - 1 \in DOMAIN Tail(work) /\ Tail(work)[i - 1] = work[i]
    BY <1>1, <1>2
  <2>4. ASSUME NEW n \in Node, Queued(n)'
        PROVE  Queued(n)
    BY <1>1, <2>2, <2>4 DEF Queued
  <2>5. ASSUME NEW n \in Node, Queued(n), n # n0
        PROVE  Queued(n)'
    BY <1>1, <2>1, <2>3, <2>5 DEF Queued
  <2> QED
    BY <2>1, <2>4, <2>5 DEF Queued
<1>4. incoming[n0] \in State
  BY <1>2, <1>3 DEF IInv, QueuedAreVisited
<1>5. TypeOK'
  <2>1. Len(task.out[n0]) \in Nat /\ Transfer(task, n0, incoming[n0]) \in State
    BY <1>2, <1>3, <1>4, TaskTypes, TaskAssumption
  <2> QED
    BY <1>1, <1>2, <1>3, <1>4, <2>1 DEF TypeOK
<1>6. EntryHeld' /\ QueuedAreVisited'
  BY <1>1, <1>3 DEF IInv, EntryHeld, QueuedAreVisited
<1>7. CopyIsCurrent'
  BY <1>1, <1>4, TaskAssumption DEF CopyIsCurrent
<1>8. NoEdgeForgotten'
  <2> SUFFICES ASSUME NEW n \in Node, incoming'[n] # Unvisited, NEW i \in DOMAIN task'.out[n],
                      ~Outstanding(n, i)'
               PROVE  Absorbs(incoming'[task'.out[n][i].to],
                              Promise!FlowOf(task', n, incoming'[n], task'.out[n][i]))
    BY DEF NoEdgeForgotten
  <2>1. i \in 1 .. Len(task.out[n])
    BY <1>1, <1>2, TaskTypes
  <2>2. n # n0
    BY <1>1, <2>1 DEF Outstanding
  <2>3. ~Queued(n)
    BY <1>3, <2>2 DEF Outstanding
  <2>4. ~Outstanding(n, i)
    BY <1>1, <1>2, <2>1, <2>3, TaskTypes DEF Outstanding, Pending
  <2> QED
    BY <1>1, <2>4 DEF IInv, NoEdgeForgotten
<1> QED
  BY <1>5, <1>6, <1>7, <1>8 DEF IInv

(* What one iteration of the inner loop does, unfolded once.               *)
LEMMA PropagateEffect ==
  ASSUME IInv, Propagate
  PROVE  \E t \in Node, x \in State :
           /\ cursor \in DOMAIN task.out[at]
           /\ t = task.out[at][cursor].to
           /\ x = IF task.out[at][cursor].exceptional THEN before ELSE after
           /\ Merged(incoming[t], x) \in State
           /\ incoming' = [incoming EXCEPT ![t] = Merged(incoming[t], x)]
           /\ incoming'[t] = Merged(incoming[t], x)
           /\ \A n \in Node : n # t => incoming'[n] = incoming[n]
           /\ incoming'[t] = incoming[t] => work' = work
           /\ incoming'[t] # incoming[t] => work' = Append(work, t)
           /\ cursor' = cursor + 1
           /\ task' = task /\ at' = at /\ before' = before /\ after' = after
<1>1. /\ task \in Tasks /\ incoming \in [Node -> State \cup {Unvisited}]
      /\ at \in Node /\ before \in State /\ after \in State
      /\ cursor \in 1 .. (Len(task.out[at]) + 1)
  BY DEF IInv, TypeOK
<1>2. cursor \in DOMAIN task.out[at]
  BY <1>1, TaskTypes DEF Propagate, Pending
<1> DEFINE t == task.out[at][cursor].to
           x == IF task.out[at][cursor].exceptional THEN before ELSE after
<1>3. t \in Node /\ x \in State
  BY <1>1, <1>2, TaskTypes
<1>4. Merged(incoming[t], x) \in State
  BY <1>1, <1>3, MergedAbsorbs
<1>5. /\ incoming' = [incoming EXCEPT ![t] = Merged(incoming[t], x)]
      /\ work' = IF Merged(incoming[t], x) # incoming[t] THEN Append(work, t) ELSE work
      /\ cursor' = cursor + 1
      /\ task' = task /\ at' = at /\ before' = before /\ after' = after
  BY DEF Propagate
<1>6. /\ incoming'[t] = Merged(incoming[t], x)
      /\ \A n \in Node : n # t => incoming'[n] = incoming[n]
  BY <1>1, <1>3, <1>5
<1> QED
  BY <1>2, <1>3, <1>4, <1>5, <1>6

LEMMA PropagateKeepsIInv ==
  ASSUME IInv, Propagate
  PROVE  IInv'
<1>1. PICK t \in Node, x \in State :
         /\ cursor \in DOMAIN task.out[at]
         /\ t = task.out[at][cursor].to
         /\ x = IF task.out[at][cursor].exceptional THEN before ELSE after
         /\ Merged(incoming[t], x) \in State
         /\ incoming' = [incoming EXCEPT ![t] = Merged(incoming[t], x)]
         /\ incoming'[t] = Merged(incoming[t], x)
         /\ \A n \in Node : n # t => incoming'[n] = incoming[n]
         /\ incoming'[t] = incoming[t] => work' = work
         /\ incoming'[t] # incoming[t] => work' = Append(work, t)
         /\ cursor' = cursor + 1
         /\ task' = task /\ at' = at /\ before' = before /\ after' = after
  BY PropagateEffect
<1>2. /\ task \in Tasks /\ incoming \in [Node -> State \cup {Unvisited}] /\ work \in Seq(Node)
      /\ at \in Node /\ before \in State /\ after \in State
      /\ cursor \in 1 .. (Len(task.out[at]) + 1)
  BY DEF IInv, TypeOK
<1>3. \A n \in Node : Queued(n)' <=> Queued(n) \/ (n = t /\ incoming'[t] # incoming[t])
  <2>1. CASE incoming'[t] = incoming[t]
    BY <1>1, <2>1 DEF Queued
  <2>2. CASE incoming'[t] # incoming[t]
    <3>1. work' = Append(work, t)
      BY <1>1, <2>2
    <3>2. /\ DOMAIN Append(work, t) = 1 .. (Len(work) + 1)
          /\ DOMAIN work = 1 .. Len(work) /\ Len(work) \in Nat
          /\ Append(work, t)[Len(work) + 1] = t
          /\ \A i \in 1 .. Len(work) : Append(work, t)[i] = work[i]
      BY <1>2
    <3>3. ASSUME NEW n \in Node
          PROVE  Queued(n)' <=> Queued(n) \/ n = t
      BY <3>1, <3>2 DEF Queued
    <3> QED
      BY <2>2, <3>3
  <2> QED
    BY <2>1, <2>2
<1>4. Pending /\ incoming[at] # Unvisited /\ after = Transfer(task, at, before)
  BY DEF IInv, CopyIsCurrent, Propagate
<1>5. /\ Absorbs(incoming'[t], x)
      /\ \A y \in State : Absorbs(incoming[t], y) => Absorbs(incoming'[t], y)
  BY <1>1, <1>2, MergedAbsorbs
<1>6. TypeOK'
  <2>1. incoming' \in [Node -> State \cup {Unvisited}]
    BY <1>1, <1>2
  <2>2. work' \in Seq(Node)
    BY <1>1, <1>2
  <2>3. cursor' \in 1 .. (Len(task.out[at]) + 1)
    BY <1>1, <1>2, TaskTypes
  <2> QED
    BY <1>1, <1>2, <2>1, <2>2, <2>3 DEF TypeOK
<1>7. EntryHeld'
  BY <1>1, <1>2, <1>5, TaskTypes DEF IInv, EntryHeld
<1>8. QueuedAreVisited'
  BY <1>1, <1>3, TaskAssumption DEF IInv, QueuedAreVisited
<1>9. CopyIsCurrent'
  <2>1. incoming'[at] # Unvisited
    BY <1>1, <1>2, <1>4, TaskAssumption
  <2>2. Queued(at)' \/ incoming'[at] = before
    BY <1>1, <1>2, <1>3, <1>4 DEF IInv, CopyIsCurrent
  <2> QED
    BY <1>1, <1>4, <2>1, <2>2 DEF CopyIsCurrent, Queued
<1>10. NoEdgeForgotten'
  <2> SUFFICES ASSUME NEW n \in Node, incoming'[n] # Unvisited, NEW i \in DOMAIN task'.out[n],
                      ~Outstanding(n, i)'
               PROVE  Absorbs(incoming'[task'.out[n][i].to],
                              Promise!FlowOf(task', n, incoming'[n], task'.out[n][i]))
    BY DEF NoEdgeForgotten
  <2> DEFINE u == task.out[n][i].to
             y == Promise!FlowOf(task, n, incoming[n], task.out[n][i])
  <2>1. ~Queued(n)' /\ ~Queued(n)
    BY <1>3 DEF Outstanding
  <2>2. incoming'[n] = incoming[n]
    BY <1>1, <1>3, <2>1
  <2>3. i \in DOMAIN task.out[n] /\ u \in Node /\ incoming[n] \in State /\ i \in Nat
    BY <1>1, <1>2, <2>2, TaskTypes
  <2>4. y \in State
    BY <1>2, <2>3, TaskAssumption DEF Promise!FlowOf
  <2>5. Absorbs(incoming'[u], y)
    <3>1. CASE n = at /\ i = cursor
      <4>1. incoming[at] = before
        BY <1>4, <2>1, <3>1 DEF IInv, CopyIsCurrent
      <4>2. u = t /\ y = x
        BY <1>1, <1>4, <3>1, <4>1 DEF Promise!FlowOf
      <4> QED
        BY <1>5, <4>2
    <3>2. CASE ~(n = at /\ i = cursor)
      <4>1. ~Outstanding(n, i)
        BY <1>1, <1>2, <2>1, <2>3, <3>2 DEF Outstanding
      <4>2. Absorbs(incoming[u], y)
        BY <2>2, <2>3, <4>1 DEF IInv, NoEdgeForgotten
      <4>3. CASE u = t
        BY <1>5, <2>4, <4>2, <4>3
      <4>4. CASE u # t
        BY <1>1, <2>3, <4>2, <4>4
      <4> QED
        BY <4>3, <4>4
    <3> QED
      BY <3>1, <3>2
  <2> QED
    BY <1>1, <2>2, <2>5
<1> QED
  BY <1>6, <1>7, <1>8, <1>9, <1>10 DEF IInv

(* IInv is inductive, so it always holds.                                  *)
THEOREM Invariance == Spec => []IInv
<1>1. Init => IInv
  BY InitIInv
<1>2. IInv /\ [Next]_vars => IInv'
  <2> SUFFICES ASSUME IInv, [Next]_vars
               PROVE  IInv'
    OBVIOUS
  <2>1. CASE Pop
    BY <2>1, PopKeepsIInv
  <2>2. CASE Propagate
    BY <2>2, PropagateKeepsIInv
  <2>3. CASE UNCHANGED vars
    <3>1. UNCHANGED <<task, incoming, work, at, before, after, cursor>>
      BY <2>3 DEF vars
    <3>2. TypeOK'
      BY <3>1 DEF IInv, TypeOK
    <3>3. EntryHeld' /\ QueuedAreVisited'
      BY <3>1 DEF IInv, EntryHeld, QueuedAreVisited, Queued
    <3>4. CopyIsCurrent'
      BY <3>1 DEF IInv, CopyIsCurrent, Pending, Queued
    <3>5. NoEdgeForgotten'
      BY <3>1 DEF IInv, NoEdgeForgotten, Outstanding, Queued
    <3> QED
      BY <3>2, <3>3, <3>4, <3>5 DEF IInv
  <2> QED
    BY <2>1, <2>2, <2>3 DEF Next
<1> QED
  BY <1>1, <1>2, PTL DEF Spec

(* The loop's variables keep their types.                                  *)
THEOREM TypeCorrect == Spec => []TypeOK
BY Invariance, PTL DEF IInv

(* No edge of callable_states' graph is ever dropped: it has been followed *)
(* since its source last changed, or the loop still owes it a visit.       *)
THEOREM NoEdgeIsForgotten == Spec => []NoEdgeForgotten
BY Invariance, PTL DEF IInv

(* What callable_states returns solves the flow equations of its graph.    *)
LEMMA DoneSolves == IInv /\ Done => Promise!Solves(task, incoming)
<1> SUFFICES ASSUME IInv, Done
             PROVE  Promise!Solves(task, incoming)
  OBVIOUS
<1>1. Promise!Absorbs(incoming[task.entry], task.initial)
  BY DEF IInv, EntryHeld, Absorbs
<1>2. ASSUME NEW n \in Node, incoming[n] # Unvisited, NEW i \in Promise!EdgeIndices(task, n)
      PROVE  Promise!Absorbs(incoming[task.out[n][i].to],
                             Promise!FlowOf(task, n, incoming[n], task.out[n][i]))
  <2>1. task \in Tasks /\ at \in Node /\ cursor \in 1 .. (Len(task.out[at]) + 1)
    BY DEF IInv, TypeOK
  <2>2. i \in 1 .. Len(task.out[n])
    BY <1>2, <2>1, TaskTypes DEF Promise!EdgeIndices
  <2>3. Len(task.out[at]) \in Nat /\ i \in DOMAIN task.out[n]
    BY <2>1, <2>2, TaskTypes
  <2>4. ~Outstanding(n, i)
    BY <2>1, <2>2, <2>3 DEF Done, Pending, Outstanding, Queued
  <2> QED
    BY <1>2, <2>3, <2>4 DEF IInv, NoEdgeForgotten, Absorbs
<1> QED
  BY <1>1, <1>2 DEF Promise!Solves

THEOREM SolvedAtTheEnd == Spec => []SolvedWhenDone
<1>1. IInv => SolvedWhenDone
  BY DoneSolves DEF SolvedWhenDone
<1> QED
  BY <1>1, Invariance, PTL

(* A step of the inner loop only adds to what is known on entry to a node. *)
LEMMA StepGrows ==
  ASSUME IInv, [Next]_vars, NEW n \in Node, incoming[n] # Unvisited
  PROVE  Absorbs(incoming'[n], incoming[n])
<1>1. incoming[n] \in State /\ Absorbs(incoming[n], incoming[n])
  BY AbsorbsItself DEF IInv, TypeOK
<1>2. CASE Pop \/ UNCHANGED vars
  BY <1>1, <1>2 DEF Pop, vars
<1>3. CASE Propagate
  <2>1. PICK t \in Node, x \in State :
          /\ incoming'[t] = Merged(incoming[t], x)
          /\ \A m \in Node : m # t => incoming'[m] = incoming[m]
    BY <1>3, PropagateEffect
  <2>2. CASE n = t
    BY <1>1, <2>1, <2>2, MergedAbsorbs
  <2> QED
    BY <1>1, <2>1, <2>2
<1> QED
  BY <1>2, <1>3 DEF Next

(* The state on entry to a node never loses what it knew.                  *)
THEOREM StatesGrow == Spec => StatesOnlyGrow
<1>1. IInv /\ [Next]_vars =>
        [\A n \in Node : incoming[n] # Unvisited => Absorbs(incoming'[n], incoming[n])]_vars
  BY StepGrows
<1> QED
  BY <1>1, Invariance, PTL DEF Spec, StatesOnlyGrow

-----------------------------------------------------------------------------
(* The loop implements module Dataflow: a Pop that leaves nothing to do    *)
(* and a Propagate along the last edge are its Finish, a Propagate that    *)
(* changes a node is its Grow, everything else a stutter.                  *)
LEMMA StepImplements == IInv /\ IInv' /\ [Next]_vars => [Promise!Next]_(Promise!vars)
<1> SUFFICES ASSUME IInv, IInv', [Next]_vars
             PROVE  [Promise!Next]_(Promise!vars)
  OBVIOUS
<1>1. CASE UNCHANGED vars
  BY <1>1 DEF vars, Promise!vars, Done, Pending
<1>2. ASSUME ~Done, task' = task, incoming' = incoming
      PROVE  [Promise!Next]_(Promise!vars)
  <2>1. CASE Done'
    <3>1. (IInv /\ Done => Promise!Solves(task, incoming))'
      BY DoneSolves, PTL
    <3>2. Promise!Solves(task', incoming')
      BY <2>1, <3>1
    <3>3. Promise!Solves(task, incoming)
      BY <1>2, <3>2
    <3>4. Done' = TRUE
      BY <2>1 DEF Done
    <3> QED
      BY <1>2, <3>3, <3>4 DEF Promise!Next, Promise!Finish
  <2>2. CASE ~Done'
    <3>1. Done' = Done
      BY <1>2, <2>2 DEF Done
    <3> QED
      BY <1>2, <3>1 DEF Promise!vars
  <2> QED
    BY <2>1, <2>2
<1>3. CASE Pop
  BY <1>2, <1>3 DEF Pop, Done
<1>4. CASE Propagate
  <2>1. PICK t \in Node, x \in State :
          /\ cursor \in DOMAIN task.out[at]
          /\ t = task.out[at][cursor].to
          /\ Merged(incoming[t], x) \in State
          /\ incoming' = [incoming EXCEPT ![t] = Merged(incoming[t], x)]
          /\ incoming'[t] = Merged(incoming[t], x)
          /\ \A n \in Node : n # t => incoming'[n] = incoming[n]
          /\ incoming'[t] # incoming[t] => work' = Append(work, t)
          /\ task' = task
    BY <1>4, PropagateEffect
  <2>2. ~Done /\ at \in Node /\ work \in Seq(Node)
    BY <1>4 DEF Propagate, Done, IInv, TypeOK
  <2>3. CASE incoming'[t] = incoming[t]
    <3>1. incoming' = incoming
      BY <2>1, <2>3 DEF IInv, TypeOK
    <3> QED
      BY <1>2, <2>1, <2>2, <3>1
  <2>4. CASE incoming'[t] # incoming[t]
    <3>1. ~Done'
      BY <2>1, <2>2, <2>4 DEF Done
    <3>2. incoming[at] # Unvisited
      BY <1>4 DEF Propagate, IInv, CopyIsCurrent
    <3>3. incoming[t] # Unvisited => Promise!Absorbs(Merged(incoming[t], x), incoming[t])
      BY <2>1, MergedAbsorbs DEF IInv, TypeOK, Absorbs
    <3>4. Done' = Done
      BY <2>2, <3>1 DEF Done
    <3>5. cursor \in Promise!EdgeIndices(task, at)
      BY <2>1 DEF Promise!EdgeIndices
    <3>6. Promise!Grow
      BY <2>1, <2>2, <3>2, <3>3, <3>4, <3>5 DEF Promise!Grow
    <3> QED
      BY <3>6 DEF Promise!Next
  <2> QED
    BY <2>3, <2>4
<1> QED
  BY <1>1, <1>3, <1>4 DEF Next

THEOREM Implements == Spec => ImplementsDataflow
<1>1. Init => Promise!Init
  <2> SUFFICES ASSUME NEW t \in Tasks, StartOn(t)
               PROVE  Promise!Init
    BY DEF Init
  <2> QED
    BY DEF StartOn, Promise!Init, Done
<1>2. IInv /\ IInv' /\ [Next]_vars => [Promise!Next]_(Promise!vars)
  BY StepImplements
<1> QED
  BY <1>1, <1>2, Invariance, PTL DEF Spec, ImplementsDataflow, Promise!Spec

-----------------------------------------------------------------------------
(* The loop invents nothing.  A region allows each node some states; it is *)
(* closed when it allows the initial state at the entry and whatever flows *)
(* along an edge from an allowed state, by itself and merged into another  *)
(* allowed state.  What the loop finds lies in every closed region.  This  *)
(* asks nothing of Transfer beyond its type: that of callable_states is    *)
(* not monotone.                                                           *)
Regions == [Node -> SUBSET State]

Closed(t, region) ==
  /\ t.initial \in region[t.entry]
  /\ \A n \in Node : \A i \in DOMAIN t.out[n] : \A s \in region[n] :
       LET edge == t.out[n][i]
           x == Promise!FlowOf(t, n, s, edge)
       IN  x \in region[edge.to] /\ \A y \in region[edge.to] : MergeStates(y, x) \in region[edge.to]

OnlyWhatFlows ==
  \A region \in Regions : Closed(task, region) =>
    \A n \in Node : incoming[n] # Unvisited => incoming[n] \in region[n]

(* In the middle of the edges of a node its copy is allowed there too.     *)
CopyIsAllowed ==
  \A region \in Regions : Closed(task, region) => (Pending => before \in region[at])

LEMMA InitAllowed == Init => OnlyWhatFlows /\ CopyIsAllowed
<1> SUFFICES ASSUME NEW t \in Tasks, StartOn(t)
             PROVE  OnlyWhatFlows /\ CopyIsAllowed
  BY DEF Init
<1>1. /\ task = t /\ at = t.entry /\ cursor = Len(t.out[t.entry]) + 1
      /\ incoming = [n \in Node |-> IF n = t.entry THEN t.initial ELSE Unvisited]
  BY DEF StartOn
<1>2. t.entry \in Node /\ Len(t.out[t.entry]) \in Nat
  BY TaskAssumption, TaskTypes
<1>3. ~Pending
  BY <1>1, <1>2 DEF Pending
<1>4. \A n \in Node : incoming[n] # Unvisited => n = t.entry /\ incoming[n] = t.initial
  BY <1>1
<1>5. \A region \in Regions : Closed(task, region) => t.initial \in region[t.entry]
  BY <1>1 DEF Closed
<1> QED
  BY <1>3, <1>4, <1>5 DEF OnlyWhatFlows, CopyIsAllowed

LEMMA StepAllowed ==
  ASSUME IInv, OnlyWhatFlows, CopyIsAllowed, [Next]_vars
  PROVE  OnlyWhatFlows' /\ CopyIsAllowed'
<1>1. task' = task /\ at \in Node /\ work \in Seq(Node)
  BY DEF IInv, TypeOK, Next, Pop, Propagate, vars
<1> SUFFICES ASSUME NEW region \in Regions, Closed(task, region)
             PROVE  /\ \A n \in Node : incoming'[n] # Unvisited => incoming'[n] \in region[n]
                    /\ Pending' => before' \in region[at']
  BY <1>1 DEF OnlyWhatFlows, CopyIsAllowed, Closed
<1>2. /\ \A n \in Node : incoming[n] # Unvisited => incoming[n] \in region[n]
      /\ Pending => before \in region[at]
  BY DEF OnlyWhatFlows, CopyIsAllowed
<1>3. CASE UNCHANGED vars
  BY <1>2, <1>3 DEF vars, Pending
<1>4. CASE Pop
  <2>1. work # <<>> /\ at' = Head(work) /\ before' = incoming[Head(work)] /\ incoming' = incoming
    BY <1>4 DEF Pop
  <2>2. 1 \in DOMAIN work /\ work[1] = Head(work) /\ Head(work) \in Node
    BY <1>1, <2>1
  <2>3. incoming[Head(work)] # Unvisited
    BY <2>2 DEF IInv, QueuedAreVisited, Queued
  <2> QED
    BY <1>2, <2>1, <2>2, <2>3
<1>5. CASE Propagate
  <2>1. PICK t \in Node, x \in State :
          /\ cursor \in DOMAIN task.out[at]
          /\ t = task.out[at][cursor].to
          /\ x = IF task.out[at][cursor].exceptional THEN before ELSE after
          /\ incoming'[t] = Merged(incoming[t], x)
          /\ \A n \in Node : n # t => incoming'[n] = incoming[n]
          /\ at' = at /\ before' = before
    BY <1>5, PropagateEffect
  <2>2. Pending /\ after = Transfer(task, at, before)
    BY <1>5 DEF IInv, CopyIsCurrent, Propagate
  <2>3. x = Promise!FlowOf(task, at, before, task.out[at][cursor])
    BY <2>1, <2>2 DEF Promise!FlowOf
  <2>4. x \in region[t] /\ \A y \in region[t] : MergeStates(y, x) \in region[t]
    BY <1>1, <1>2, <2>1, <2>2, <2>3 DEF Closed
  <2>5. Merged(incoming[t], x) \in region[t]
    BY <1>2, <2>4 DEF Merged
  <2> QED
    BY <1>2, <2>1, <2>2, <2>5
<1> QED
  BY <1>3, <1>4, <1>5 DEF Next

(* Whatever a state of callable_states says at a node has come there: from *)
(* the initial state, along edges, and by merging; at every moment, and in *)
(* whatever order the nodes are visited.                                   *)
THEOREM NothingIsInvented == Spec => []OnlyWhatFlows
<1>1. Init => OnlyWhatFlows /\ CopyIsAllowed
  BY InitAllowed
<1>2. IInv /\ OnlyWhatFlows /\ CopyIsAllowed /\ [Next]_vars => OnlyWhatFlows' /\ CopyIsAllowed'
  BY StepAllowed
<1> QED
  BY <1>1, <1>2, Invariance, PTL DEF Spec

=============================================================================
