---------------------------- MODULE SerialExecutor ----------------------------
(***************************************************************************)
(* What ActorThreadPool promises its users: the tasks submitted for one    *)
(* actor are run one at a time, in the order of their submission.          *)
(***************************************************************************)
EXTENDS Naturals, Sequences

CONSTANTS Actor, Task, NONE

VARIABLES
  waiting,    \* actor -> the tasks submitted for it and not begun, in order
  running     \* actor -> its task that is being run, or NONE

serialVars == <<waiting, running>>

Init ==
  /\ waiting = [a \in Actor |-> <<>>]
  /\ running = [a \in Actor |-> NONE]

Enqueue(a, t) ==
  /\ waiting' = [waiting EXCEPT ![a] = Append(@, t)]
  /\ UNCHANGED running

Begin(a) ==
  /\ running[a] = NONE
  /\ waiting[a] # <<>>
  /\ running' = [running EXCEPT ![a] = Head(waiting[a])]
  /\ waiting' = [waiting EXCEPT ![a] = Tail(@)]

Finish(a) ==
  /\ running[a] # NONE
  /\ running' = [running EXCEPT ![a] = NONE]
  /\ UNCHANGED waiting

Next == \E a \in Actor : Begin(a) \/ Finish(a) \/ \E t \in Task : Enqueue(a, t)

Spec == Init /\ [][Next]_serialVars
=============================================================================
