---------------------------- MODULE ActorThreadPool ----------------------------
(***************************************************************************)
(* ActorThreadPool: runs tasks for actors on a fixed pool of threads, the  *)
(* tasks of one actor one at a time.  The Reactor submits the frames read  *)
(* from a connection to the actor of that connection.                      *)
(*                                                                         *)
(* submit and complete hold the monitor of the actor ("synchronized        *)
(* (act)"); pc[th] is where thread th is in one of them.                   *)
(***************************************************************************)
EXTENDS Naturals, Sequences, FiniteSets

CONSTANTS
  Actor,       \* the objects tasks are submitted for
  Submitter,   \* the threads that call submit
  Worker,      \* the threads of the executor
  Task,        \* bound: the tasks that are ever submitted, each once
  NONE         \* no thread, no job

Thread == Submitter \cup Worker

ASSUME PoolAssumption ==
  /\ Submitter \cap Worker = {}
  /\ NONE \notin Thread
  /\ NONE \notin Task

Job == [act : Actor, task : Task]

VARIABLES
  playingNow,  \* the set of that name: actors with a task in the executor
  pending,     \* pendingRunnablesOf: actor -> the tasks put aside, no queue being an empty one
  queue,       \* the executor's queue of jobs
  monitor,     \* actor -> the thread in a block synchronized on it, or NONE
  pc,          \* thread -> where it is
  job,         \* thread -> the job it submits, runs or completes, or NONE
  unborn       \* the tasks not submitted yet

vars == <<playingNow, pending, queue, monitor, pc, job, unborn>>

Init ==
  /\ playingNow = {}
  /\ pending = [a \in Actor |-> <<>>]
  /\ queue = <<>>
  /\ monitor = [a \in Actor |-> NONE]
  /\ pc = [th \in Thread |-> "idle"]
  /\ job = [th \in Thread |-> NONE]
  /\ unborn = Task

Goto(th, label) == pc' = [pc EXCEPT ![th] = label]

At(th, label) == pc[th] = label

actor(th) == job[th].act

task(th) == job[th].task

(* The end of a synchronized block, which is the end of the method.        *)
Leave(th) ==
  /\ monitor' = [monitor EXCEPT ![actor(th)] = NONE]
  /\ job' = [job EXCEPT ![th] = NONE]
  /\ Goto(th, "idle")
-----------------------------------------------------------------------------
(* submit(act, r) is called.                                               *)
Call(s, a, t) ==
  /\ At(s, "idle")
  /\ t \in unborn
  /\ unborn' = unborn \ {t}
  /\ job' = [job EXCEPT ![s] = [act |-> a, task |-> t]]
  /\ Goto(s, "submit")
  /\ UNCHANGED <<playingNow, pending, queue, monitor>>

(* Mutant of Enter: submit is not synchronized.                            *)
EnterFreely(s) ==
  /\ At(s, "submit")
  /\ monitor' = [monitor EXCEPT ![actor(s)] = s]
  /\ Goto(s, "test")
  /\ UNCHANGED <<playingNow, pending, queue, job, unborn>>

Enter(s) ==
  /\ At(s, "submit")
  /\ monitor[actor(s)] = NONE
  /\ monitor' = [monitor EXCEPT ![actor(s)] = s]
  /\ Goto(s, "test")
  /\ UNCHANGED <<playingNow, pending, queue, job, unborn>>

TestPlaying(s) ==
  /\ At(s, "test")
  /\ Goto(s, IF actor(s) \in playingNow THEN "append" ELSE "play")
  /\ UNCHANGED <<playingNow, pending, queue, monitor, job, unborn>>

(* playingNow.add(act); execute(r, act)                                    *)
Play(s) ==
  /\ At(s, "play")
  /\ playingNow' = playingNow \cup {actor(s)}
  /\ queue' = Append(queue, job[s])
  /\ Leave(s)
  /\ UNCHANGED <<pending, unborn>>

(* Mutant of PutAside: the task goes to the front.                         *)
PutAsideFront(s) ==
  /\ At(s, "append")
  /\ pending' = [pending EXCEPT ![actor(s)] = <<task(s)>> \o @]
  /\ Leave(s)
  /\ UNCHANGED <<playingNow, queue, unborn>>

(* pendingRunnablesOf(act).add(r)                                          *)
PutAside(s) ==
  /\ At(s, "append")
  /\ pending' = [pending EXCEPT ![actor(s)] = Append(@, task(s))]
  /\ Leave(s)
  /\ UNCHANGED <<playingNow, queue, unborn>>
-----------------------------------------------------------------------------
(* An idle thread of the executor takes the job that waits longest.        *)
Take(w) ==
  /\ At(w, "idle")
  /\ queue # <<>>
  /\ job' = [job EXCEPT ![w] = Head(queue)]
  /\ queue' = Tail(queue)
  /\ Goto(w, "run")
  /\ UNCHANGED <<playingNow, pending, monitor, unborn>>

(* Mutant of Return: a task that throws ends the job without complete.     *)
ReturnOrThrow(w) ==
  /\ At(w, "run")
  /\ \/ Goto(w, "complete") /\ UNCHANGED job
     \/ Goto(w, "idle") /\ job' = [job EXCEPT ![w] = NONE]
  /\ UNCHANGED <<playingNow, pending, queue, monitor, unborn>>

(* r.run() returns or throws: "finally" calls complete in either case.     *)
Return(w) ==
  /\ At(w, "run")
  /\ Goto(w, "complete")
  /\ UNCHANGED <<playingNow, pending, queue, monitor, job, unborn>>

(* Mutant of Complete: complete is not synchronized.                       *)
CompleteFreely(w) ==
  /\ At(w, "complete")
  /\ monitor' = [monitor EXCEPT ![actor(w)] = w]
  /\ Goto(w, IF pending[actor(w)] = <<>> THEN "remove" ELSE "poll")
  /\ UNCHANGED <<playingNow, pending, queue, job, unborn>>

(* complete(act): the monitor and the isEmpty test.                        *)
Complete(w) ==
  /\ At(w, "complete")
  /\ monitor[actor(w)] = NONE
  /\ monitor' = [monitor EXCEPT ![actor(w)] = w]
  /\ Goto(w, IF pending[actor(w)] = <<>> THEN "remove" ELSE "poll")
  /\ UNCHANGED <<playingNow, pending, queue, job, unborn>>

(* playingNow.remove(act)                                                  *)
Remove(w) ==
  /\ At(w, "remove")
  /\ playingNow' = playingNow \ {actor(w)}
  /\ Leave(w)
  /\ UNCHANGED <<pending, queue, unborn>>

(* execute(pending.poll(), act)                                            *)
Poll(w) ==
  /\ At(w, "poll")
  /\ queue' = Append(queue, [act |-> actor(w), task |-> Head(pending[actor(w)])])
  /\ pending' = [pending EXCEPT ![actor(w)] = Tail(@)]
  /\ Leave(w)
  /\ UNCHANGED <<playingNow, unborn>>

SubmitStep(s) == Enter(s) \/ TestPlaying(s) \/ Play(s) \/ PutAside(s)

WorkerStep(w) == Take(w) \/ Return(w) \/ Complete(w) \/ Remove(w) \/ Poll(w)

Next ==
  \/ \E s \in Submitter : SubmitStep(s) \/ \E a \in Actor, t \in Task : Call(s, a, t)
  \/ \E w \in Worker : WorkerStep(w)

Spec == Init /\ [][Next]_vars

(* Threads run on, tasks come to their end, and a thread that waits for a  *)
(* monitor gets it: with finitely many tasks weak fairness says so.        *)
FairSpec ==
  /\ Spec
  /\ \A s \in Submitter : WF_vars(SubmitStep(s))
  /\ \A w \in Worker : WF_vars(WorkerStep(w))
=============================================================================
