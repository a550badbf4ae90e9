----------------------- MODULE ActorThreadPool_proofs -----------------------
(***************************************************************************)
(* The pool runs the tasks of every actor one at a time and in order, for  *)
(* any number of actors, submitters, workers and tasks.                    *)
(***************************************************************************)
EXTENDS ActorThreadPoolProperties, SequenceTheorems, TLAPS

(* No thread both submits and works.                                       *)
LEMMA TwoKinds ==
  /\ \A s \in Submitter : s \in Thread /\ s \notin Worker
  /\ \A w \in Worker : w \in Thread /\ w \notin Submitter
  BY PoolAssumption DEF Thread

(* At first nothing is submitted, and nothing is held.                     *)
LEMMA InitInv == Init => PoolInv
<1> SUFFICES ASSUME Init PROVE PoolInv
  OBVIOUS
<1> USE TwoKinds, PoolAssumption DEF Init
<1>1. TypeOK
  BY DEF TypeOK, SubmitLabel, WorkerLabel, At
<1>2. MonitorHeld
  BY DEF MonitorHeld, Inside
<1>3. ReadStillTrue /\ AsideMeansPlaying
  BY DEF ReadStillTrue, AsideMeansPlaying, At
<1>4. OneJob
  BY DEF OneJob, Queued, Works
<1> QED BY <1>1, <1>2, <1>3, <1>4 DEF PoolInv

(* A job at the end of the queue is one more index of its actor.           *)
LEMMA QueueAppend ==
  ASSUME queue \in Seq(Job), NEW j \in Job, queue' = Append(queue, j), NEW a
  PROVE  /\ Len(queue) + 1 \notin Queued(a)
         /\ \A i \in Queued(a) : queue'[i] = queue[i]
         /\ queue'[Len(queue) + 1] = j
         /\ Queued(a)' = IF j.act = a THEN Queued(a) \cup {Len(queue) + 1} ELSE Queued(a)
<1>1. /\ DOMAIN queue' = 1..(Len(queue) + 1)
      /\ DOMAIN queue = 1..Len(queue)
      /\ Len(queue) \in Nat
      /\ \A i \in 1..Len(queue) : queue'[i] = queue[i]
      /\ queue'[Len(queue) + 1] = j
  OBVIOUS
<1> QED BY <1>1 DEF Queued

(* Taking the head shifts the indices.                                     *)
LEMMA QueueTail ==
  ASSUME queue \in Seq(Job), queue # <<>>, queue' = Tail(queue), NEW a
  PROVE  /\ Head(queue) \in Job
         /\ Head(queue) = queue[1]
         /\ 1 \in Queued(a) <=> Head(queue).act = a
         /\ \A i \in Queued(a) : i \in Nat \ {0}
         /\ \A i \in Nat \ {0} : i \in Queued(a)' <=> i + 1 \in Queued(a)
         /\ \A i \in Queued(a)' : i \in Nat \ {0} /\ queue'[i] = queue[i + 1]
<1>1. /\ DOMAIN queue' = 1..(Len(queue) - 1)
      /\ DOMAIN queue = 1..Len(queue)
      /\ Len(queue) \in Nat \ {0}
      /\ \A i \in 1..(Len(queue) - 1) : queue'[i] = queue[i + 1]
      /\ Head(queue) = queue[1]
      /\ queue[1] \in Job
  OBVIOUS
<1> QED BY <1>1 DEF Queued

(* The steps of one thread.                                                *)
Step(th) ==
  \/ th \in Submitter /\ (SubmitStep(th) \/ \E a \in Actor, t \in Task : Call(th, a, t))
  \/ th \in Worker /\ WorkerStep(th)

(* Every step keeps the types.                                             *)
LEMMA TypeStep ==
  ASSUME PoolInv, NEW th \in Thread, Step(th)
  PROVE  TypeOK'
<1> USE TwoKinds, PoolAssumption DEF TypeOK, SubmitLabel, WorkerLabel, At, Goto, Leave, actor, task
<1>0. TypeOK /\ ReadStillTrue
  BY DEF PoolInv
<1>j. ~At(th, "idle") => job[th] \in Job /\ actor(th) \in Actor /\ task(th) \in Task
  BY <1>0 DEF Job
<1>1. ASSUME NEW a \in Actor, NEW t \in Task, th \in Submitter, Call(th, a, t) PROVE TypeOK'
  BY <1>0, <1>1 DEF Call, Job
<1>2. CASE th \in Submitter /\ Enter(th)
  BY <1>0, <1>j, <1>2 DEF Enter
<1>3. CASE th \in Submitter /\ TestPlaying(th)
  BY <1>0, <1>j, <1>3 DEF TestPlaying
<1>4. CASE th \in Submitter /\ Play(th)
  BY <1>0, <1>j, <1>4 DEF Play
<1>5. CASE th \in Submitter /\ PutAside(th)
  BY <1>0, <1>j, <1>5 DEF PutAside
<1>6. CASE th \in Worker /\ Take(th)
  BY <1>0, <1>6 DEF Take
<1>7. CASE th \in Worker /\ Return(th)
  BY <1>0, <1>j, <1>7 DEF Return
<1>8. CASE th \in Worker /\ Complete(th)
  BY <1>0, <1>j, <1>8 DEF Complete
<1>9. CASE th \in Worker /\ Remove(th)
  BY <1>0, <1>j, <1>9 DEF Remove
<1>10. CASE th \in Worker /\ Poll(th)
  BY <1>0, <1>j, <1>10 DEF Poll, ReadStillTrue, Job
<1> QED
  BY <1>1, <1>2, <1>3, <1>4, <1>5, <1>6, <1>7, <1>8, <1>9, <1>10 DEF Step, SubmitStep, WorkerStep

(* A monitor is taken when it is free and given back by its holder.        *)
LEMMA MonitorStep ==
  ASSUME PoolInv, NEW th \in Thread, Step(th)
  PROVE  MonitorHeld'
<1> USE TwoKinds, PoolAssumption DEF MonitorHeld, Inside, At, Goto, Leave, actor, task
<1>0. TypeOK /\ MonitorHeld
  BY DEF PoolInv
<1>j. ~At(th, "idle") => job[th] \in Job /\ actor(th) \in Actor /\ task(th) \in Task
  BY <1>0 DEF Job, TypeOK
<1>1. ASSUME NEW a \in Actor, NEW t \in Task, th \in Submitter, Call(th, a, t) PROVE MonitorHeld'
  BY <1>0, <1>1 DEF Call, TypeOK
<1>2. CASE th \in Submitter /\ Enter(th)
  BY <1>0, <1>j, <1>2 DEF Enter, TypeOK
<1>3. CASE th \in Submitter /\ TestPlaying(th)
  BY <1>0, <1>j, <1>3 DEF TestPlaying, TypeOK
<1>4. CASE th \in Submitter /\ Play(th)
  BY <1>0, <1>j, <1>4 DEF Play, TypeOK
<1>5. CASE th \in Submitter /\ PutAside(th)
  BY <1>0, <1>j, <1>5 DEF PutAside, TypeOK
<1>6. CASE th \in Worker /\ Take(th)
  BY <1>0, <1>j, <1>6 DEF Take, TypeOK, Job
<1>7. CASE th \in Worker /\ Return(th)
  BY <1>0, <1>j, <1>7 DEF Return, TypeOK
<1>8. CASE th \in Worker /\ Complete(th)
  BY <1>0, <1>j, <1>8 DEF Complete, TypeOK
<1>9. CASE th \in Worker /\ Remove(th)
  BY <1>0, <1>j, <1>9 DEF Remove, TypeOK
<1>10. CASE th \in Worker /\ Poll(th)
  BY <1>0, <1>j, <1>10 DEF Poll, TypeOK
<1> QED
  BY <1>1, <1>2, <1>3, <1>4, <1>5, <1>6, <1>7, <1>8, <1>9, <1>10 DEF Step, SubmitStep, WorkerStep

(* What a thread read in its block stays true until the block ends: all    *)
(* others that could change it wait for the monitor.                       *)
LEMMA ReadStep ==
  ASSUME PoolInv, NEW th \in Thread, Step(th)
  PROVE  ReadStillTrue'
<1> USE TwoKinds, PoolAssumption DEF ReadStillTrue, At, Goto, Leave, actor, task
<1>0. TypeOK /\ MonitorHeld /\ ReadStillTrue
  BY DEF PoolInv
<1>j. ~At(th, "idle") => job[th] \in Job /\ actor(th) \in Actor /\ task(th) \in Task
  BY <1>0 DEF Job, TypeOK
<1>1. ASSUME NEW a \in Actor, NEW t \in Task, th \in Submitter, Call(th, a, t) PROVE ReadStillTrue'
  BY <1>0, <1>1 DEF Call, TypeOK
<1>2. CASE th \in Submitter /\ Enter(th)
  BY <1>0, <1>j, <1>2 DEF Enter, TypeOK
<1>3. CASE th \in Submitter /\ TestPlaying(th)
  BY <1>0, <1>j, <1>3 DEF TestPlaying, TypeOK
<1>4. CASE th \in Submitter /\ Play(th)
  BY <1>0, <1>j, <1>4 DEF Play, TypeOK, MonitorHeld, Inside
<1>5. CASE th \in Submitter /\ PutAside(th)
  BY <1>0, <1>j, <1>5 DEF PutAside, TypeOK, MonitorHeld, Inside
<1>6. CASE th \in Worker /\ Take(th)
  BY <1>0, <1>j, <1>6 DEF Take, TypeOK
<1>7. CASE th \in Worker /\ Return(th)
  BY <1>0, <1>j, <1>7 DEF Return, TypeOK
<1>8. CASE th \in Worker /\ Complete(th)
  BY <1>0, <1>j, <1>8 DEF Complete, TypeOK
<1>9. CASE th \in Worker /\ Remove(th)
  BY <1>0, <1>j, <1>9 DEF Remove, TypeOK, MonitorHeld, Inside
<1>10. CASE th \in Worker /\ Poll(th)
  BY <1>0, <1>j, <1>10 DEF Poll, TypeOK, MonitorHeld, Inside
<1> QED
  BY <1>1, <1>2, <1>3, <1>4, <1>5, <1>6, <1>7, <1>8, <1>9, <1>10 DEF Step, SubmitStep, WorkerStep

(* Tasks are put aside for actors that play, and an actor stops playing    *)
(* when it has none.                                                       *)
LEMMA AsideStep ==
  ASSUME PoolInv, NEW th \in Thread, Step(th)
  PROVE  AsideMeansPlaying'
<1> USE TwoKinds, PoolAssumption DEF AsideMeansPlaying, At, Goto, Leave, actor, task
<1>0. TypeOK /\ ReadStillTrue /\ AsideMeansPlaying
  BY DEF PoolInv
<1>j. ~At(th, "idle") => job[th] \in Job /\ actor(th) \in Actor /\ task(th) \in Task
  BY <1>0 DEF Job, TypeOK
<1>1. ASSUME NEW a \in Actor, NEW t \in Task, th \in Submitter, Call(th, a, t) PROVE AsideMeansPlaying'
  BY <1>0, <1>1 DEF Call, TypeOK
<1>2. CASE th \in Submitter /\ Enter(th)
  BY <1>0, <1>j, <1>2 DEF Enter, TypeOK
<1>3. CASE th \in Submitter /\ TestPlaying(th)
  BY <1>0, <1>j, <1>3 DEF TestPlaying, TypeOK
<1>4. CASE th \in Submitter /\ Play(th)
  BY <1>0, <1>j, <1>4 DEF Play, TypeOK, ReadStillTrue
<1>5. CASE th \in Submitter /\ PutAside(th)
  BY <1>0, <1>j, <1>5 DEF PutAside, TypeOK, ReadStillTrue
<1>6. CASE th \in Worker /\ Take(th)
  BY <1>0, <1>j, <1>6 DEF Take, TypeOK
<1>7. CASE th \in Worker /\ Return(th)
  BY <1>0, <1>j, <1>7 DEF Return, TypeOK
<1>8. CASE th \in Worker /\ Complete(th)
  BY <1>0, <1>j, <1>8 DEF Complete, TypeOK
<1>9. CASE th \in Worker /\ Remove(th)
  BY <1>0, <1>j, <1>9 DEF Remove, TypeOK, ReadStillTrue
<1>10. CASE th \in Worker /\ Poll(th)
  BY <1>0, <1>j, <1>10 DEF Poll, TypeOK, ReadStillTrue
<1> QED
  BY <1>1, <1>2, <1>3, <1>4, <1>5, <1>6, <1>7, <1>8, <1>9, <1>10 DEF Step, SubmitStep, WorkerStep

(* A job enters the executor when its actor has none there, or when the     *)
(* worker that had it completes.                                            *)
LEMMA JobStep ==
  ASSUME PoolInv, NEW th \in Thread, Step(th)
  PROVE  OneJob'
<1> USE TwoKinds, PoolAssumption DEF At, Goto, Leave, actor, task
<1>0. TypeOK /\ ReadStillTrue /\ OneJob
  BY DEF PoolInv
<1>j. ~At(th, "idle") => job[th] \in Job /\ actor(th) \in Actor /\ task(th) \in Task
  BY <1>0 DEF Job, TypeOK
<1> SUFFICES ASSUME NEW a \in Actor
             PROVE  /\ \A i, j \in Queued(a)' : i = j
                    /\ \A v, w \in Worker : Works(v, a)' /\ Works(w, a)' => v = w
                    /\ Queued(a)' # {} => \A w \in Worker : ~Works(w, a)'
                    /\ a \in playingNow' <=> Queued(a)' # {} \/ \E w \in Worker : Works(w, a)'
  BY DEF OneJob
<1> DEFINE Claim == /\ \A i, j \in Queued(a)' : i = j
                    /\ \A v, w \in Worker : Works(v, a)' /\ Works(w, a)' => v = w
                    /\ Queued(a)' # {} => \A w \in Worker : ~Works(w, a)'
                    /\ a \in playingNow' <=> Queued(a)' # {} \/ \E w \in Worker : Works(w, a)'
<1>a. /\ \A i, j \in Queued(a) : i = j
      /\ \A v, w \in Worker : Works(v, a) /\ Works(w, a) => v = w
      /\ Queued(a) # {} => \A w \in Worker : ~Works(w, a)
      /\ a \in playingNow <=> Queued(a) # {} \/ \E w \in Worker : Works(w, a)
  BY <1>0 DEF OneJob
<1>s. ASSUME queue' = queue, playingNow' = playingNow, \A w \in Worker : Works(w, a)' <=> Works(w, a)
      PROVE  Claim
  BY <1>a, <1>s DEF Queued
<1>w. ASSUME th \in Submitter,
             \A x \in Thread \ {th} : pc'[x] = pc[x] /\ job'[x] = job[x]
      PROVE  \A w \in Worker : Works(w, a)' <=> Works(w, a)
  BY <1>w DEF Works
<1>1. ASSUME NEW b \in Actor, NEW t \in Task, th \in Submitter, Call(th, b, t) PROVE Claim
  <2>1. \A x \in Thread \ {th} : pc'[x] = pc[x] /\ job'[x] = job[x]
    BY <1>0, <1>1 DEF Call, TypeOK
  <2> QED BY <1>1, <2>1, <1>s, <1>w DEF Call
<1>2. CASE th \in Submitter /\ Enter(th)
  <2>1. \A x \in Thread \ {th} : pc'[x] = pc[x] /\ job'[x] = job[x]
    BY <1>0, <1>2 DEF Enter, TypeOK
  <2> QED BY <1>2, <2>1, <1>s, <1>w DEF Enter
<1>3. CASE th \in Submitter /\ TestPlaying(th)
  <2>1. \A x \in Thread \ {th} : pc'[x] = pc[x] /\ job'[x] = job[x]
    BY <1>0, <1>3 DEF TestPlaying, TypeOK
  <2> QED BY <1>3, <2>1, <1>s, <1>w DEF TestPlaying
<1>4. CASE th \in Submitter /\ Play(th)
  <2>1. \A x \in Thread \ {th} : pc'[x] = pc[x] /\ job'[x] = job[x]
    BY <1>0, <1>4 DEF Play, TypeOK
  <2>2. \A w \in Worker : Works(w, a)' <=> Works(w, a)
    BY <1>4, <2>1, <1>w
  <2>3. /\ Queued(a)' = IF actor(th) = a THEN Queued(a) \cup {Len(queue) + 1} ELSE Queued(a)
        /\ playingNow' = playingNow \cup {actor(th)}
    BY <1>0, <1>j, <1>4, QueueAppend DEF Play, TypeOK
  <2>4. CASE actor(th) = a
    <3>1. a \notin playingNow
      BY <1>0, <1>4, <2>4 DEF Play, ReadStillTrue
    <3> QED BY <1>a, <2>2, <2>3, <2>4, <3>1
  <2>5. CASE actor(th) # a
    BY <1>a, <2>2, <2>3, <2>5
  <2> QED BY <2>4, <2>5
<1>5. CASE th \in Submitter /\ PutAside(th)
  <2>1. \A x \in Thread \ {th} : pc'[x] = pc[x] /\ job'[x] = job[x]
    BY <1>0, <1>5 DEF PutAside, TypeOK
  <2> QED BY <1>5, <2>1, <1>s, <1>w DEF PutAside
<1>6. CASE th \in Worker /\ Take(th)
  <2>1. /\ \A w \in Worker \ {th} : Works(w, a)' <=> Works(w, a)
        /\ ~Works(th, a)
        /\ Works(th, a)' <=> Head(queue).act = a
        /\ playingNow' = playingNow
    BY <1>0, <1>6 DEF Take, TypeOK, Works
  <2>2. /\ 1 \in Queued(a) <=> Head(queue).act = a
        /\ \A i \in Queued(a) : i \in Nat \ {0}
        /\ \A i \in Nat \ {0} : i \in Queued(a)' <=> i + 1 \in Queued(a)
        /\ \A i \in Queued(a)' : i \in Nat \ {0}
    BY <1>0, <1>6, QueueTail DEF Take, TypeOK
  <2>3. CASE Head(queue).act = a
    <3>1. Queued(a)' = {}
      BY <1>a, <2>2, <2>3
    <3> QED BY <1>a, <1>6, <2>1, <2>2, <2>3, <3>1
  <2>4. CASE Head(queue).act # a
    <3>1. \A i, j \in Queued(a)' : i = j
      BY <1>a, <2>2
    <3>2. Queued(a)' = {} <=> Queued(a) = {}
      <4>1. ASSUME NEW i \in Queued(a) PROVE i - 1 \in Queued(a)'
        BY <2>2, <2>4
      <4> QED BY <2>2, <4>1
    <3> QED BY <1>a, <1>6, <2>1, <2>4, <3>1, <3>2
  <2> QED BY <2>3, <2>4
<1>7. CASE th \in Worker /\ Return(th)
  <2>1. \A w \in Worker : Works(w, a)' <=> Works(w, a)
    BY <1>0, <1>7 DEF Return, TypeOK, Works
  <2> QED BY <1>7, <2>1, <1>s DEF Return
<1>8. CASE th \in Worker /\ Complete(th)
  <2>1. \A w \in Worker : Works(w, a)' <=> Works(w, a)
    BY <1>0, <1>8 DEF Complete, TypeOK, Works
  <2> QED BY <1>8, <2>1, <1>s DEF Complete
<1>l. ASSUME th \in Worker, At(th, "remove") \/ At(th, "poll"), Leave(th)
      PROVE  /\ \A w \in Worker \ {th} : Works(w, a)' <=> Works(w, a)
             /\ ~Works(th, a)'
             /\ Works(th, a) <=> actor(th) = a
  BY <1>0, <1>l DEF TypeOK, Works
<1>9. CASE th \in Worker /\ Remove(th)
  <2>1. Queued(a)' = Queued(a) /\ playingNow' = playingNow \ {actor(th)}
    BY <1>9 DEF Remove, Queued
  <2>2. /\ \A w \in Worker \ {th} : Works(w, a)' <=> Works(w, a)
        /\ ~Works(th, a)'
        /\ Works(th, a) <=> actor(th) = a
    BY <1>9, <1>l DEF Remove
  <2> QED BY <1>a, <1>9, <2>1, <2>2
<1>10. CASE th \in Worker /\ Poll(th)
  <2>0. Head(pending[actor(th)]) \in Task
    BY <1>0, <1>j, <1>10 DEF Poll, TypeOK, ReadStillTrue
  <2>1. /\ Queued(a)' = IF actor(th) = a THEN Queued(a) \cup {Len(queue) + 1} ELSE Queued(a)
        /\ playingNow' = playingNow
    <3> DEFINE j == [act |-> actor(th), task |-> Head(pending[actor(th)])]
    <3>1. j \in Job /\ queue' = Append(queue, j) /\ j.act = actor(th) /\ queue \in Seq(Job)
      BY <1>0, <1>j, <1>10, <2>0 DEF Poll, TypeOK, Job
    <3> HIDE DEF j
    <3> QED BY <1>10, <3>1, QueueAppend DEF Poll
  <2>2. /\ \A w \in Worker \ {th} : Works(w, a)' <=> Works(w, a)
        /\ ~Works(th, a)'
        /\ Works(th, a) <=> actor(th) = a
    BY <1>10, <1>l DEF Poll
  <2> QED BY <1>a, <1>10, <2>1, <2>2
<1> QED
  BY <1>1, <1>2, <1>3, <1>4, <1>5, <1>6, <1>7, <1>8, <1>9, <1>10 DEF Step, SubmitStep, WorkerStep

(* Every step keeps the invariant.                                         *)
LEMMA NextInv == PoolInv /\ [Next]_vars => PoolInv'
<1> SUFFICES ASSUME PoolInv, [Next]_vars PROVE PoolInv'
  OBVIOUS
<1>1. ASSUME NEW th \in Thread, Step(th) PROVE PoolInv'
  BY <1>1, TypeStep, MonitorStep, ReadStep, AsideStep, JobStep DEF PoolInv
<1>2. CASE UNCHANGED vars
  BY <1>2 DEF vars, PoolInv, TypeOK, MonitorHeld, ReadStillTrue, OneJob, AsideMeansPlaying,
    Inside, Works, Queued, At, actor, task
<1>3. Next => \E th \in Thread : Step(th)
  BY TwoKinds DEF Next, Step
<1> QED BY <1>1, <1>2, <1>3

(* The pool's inductive invariant holds in every reachable state.          *)
THEOREM PoolInvariance == Spec => []PoolInv
<1> QED BY InitInv, NextInv, PTL DEF Spec

(* submit and complete: no two tasks of one actor are run at the same      *)
(* time, however many workers there are.                                   *)
THEOREM MutualExclusion == Spec => []OneTaskPerActor
<1>1. PoolInv => OneTaskPerActor
  <2> SUFFICES ASSUME PoolInv, NEW v \in Worker, NEW w \in Worker,
                      At(v, "run"), At(w, "run"), actor(v) = actor(w)
               PROVE  v = w
    BY DEF OneTaskPerActor
  <2>1. actor(v) \in Actor
    BY TwoKinds DEF PoolInv, TypeOK, At, actor, Job
  <2> QED BY <2>1 DEF PoolInv, OneJob, Works, At
<1> QED BY <1>1, PoolInvariance, PTL

(* complete: a task put aside has a job of its actor before it.            *)
THEOREM NoTaskStranded == Spec => []NothingStranded
<1>1. PoolInv => NothingStranded
  BY DEF PoolInv, OneJob, AsideMeansPlaying, NothingStranded
<1> QED BY <1>1, PoolInvariance, PTL
-----------------------------------------------------------------------------
(* What the mapped state of every actor is, without CHOOSE.                *)
Mapped ==
  \A a \in Actor :
    /\ Queued(a) = {} => waitingTasks[a] = pending[a]
    /\ \A i \in Queued(a) : waitingTasks[a] = <<queue[i].task>> \o pending[a]
    /\ (\A w \in Worker : ~Runs(w, a)) => runningTask[a] = NONE
    /\ \A w \in Worker : Runs(w, a) => runningTask[a] = task(w) /\ runningTask[a] \in Task

(* An actor has at most one job in the queue and at most one that runs.    *)
LEMMA MappedState == PoolInv => Mapped
<1> SUFFICES ASSUME PoolInv, NEW a \in Actor
             PROVE  /\ Queued(a) = {} => waitingTasks[a] = pending[a]
                    /\ \A i \in Queued(a) : waitingTasks[a] = <<queue[i].task>> \o pending[a]
                    /\ (\A w \in Worker : ~Runs(w, a)) => runningTask[a] = NONE
                    /\ \A w \in Worker :
                         Runs(w, a) => runningTask[a] = task(w) /\ runningTask[a] \in Task
  BY DEF Mapped
<1>0. /\ pending[a] \in Seq(Task)
      /\ \A i, j \in Queued(a) : i = j
      /\ \A v, w \in Worker : Works(v, a) /\ Works(w, a) => v = w
      /\ \A w \in Worker : Runs(w, a) => Works(w, a) /\ task(w) \in Task
  BY TwoKinds DEF PoolInv, TypeOK, OneJob, Runs, Works, At, task, Job
<1>1. ASSUME Queued(a) = {} PROVE waitingTasks[a] = pending[a]
  <2>1. <<>> \o pending[a] = pending[a]
    BY <1>0, ConcatEmptySeq
  <2> QED BY <1>1, <2>1, Zenon DEF waitingTasks, QueuedTask
<1>2. ASSUME NEW i \in Queued(a) PROVE waitingTasks[a] = <<queue[i].task>> \o pending[a]
  <2>1. (CHOOSE k \in Queued(a) : TRUE) = i
    BY <1>0
  <2> QED BY <2>1 DEF waitingTasks, QueuedTask
<1>3. ASSUME \A w \in Worker : ~Runs(w, a) PROVE runningTask[a] = NONE
  BY <1>3 DEF runningTask
<1>4. ASSUME NEW w \in Worker, Runs(w, a) PROVE runningTask[a] = task(w)
  <2>1. (CHOOSE k \in Worker : Runs(k, a)) = w
    BY <1>0, <1>4
  <2> QED BY <1>4, <2>1 DEF runningTask
<1> QED BY <1>0, <1>1, <1>2, <1>3, <1>4

(* A step of which the mapped state shows that one actor's, if any, has    *)
(* changed.                                                                *)
LEMMA OneActor ==
  ASSUME NEW b \in Actor,
         \A a \in Actor \ {b} : waitingTasks'[a] = waitingTasks[a] /\ runningTask'[a] = runningTask[a]
  PROVE  /\ waitingTasks' = [waitingTasks EXCEPT ![b] = waitingTasks'[b]]
         /\ runningTask' = [runningTask EXCEPT ![b] = runningTask'[b]]
  BY DEF waitingTasks, runningTask

(* An actor whose jobs and whose running worker are as before is mapped    *)
(* as before.                                                              *)
LEMMA WaitingKept ==
  ASSUME Mapped, Mapped', NEW a \in Actor,
         pending'[a] = pending[a],
         Queued(a)' = {} <=> Queued(a) = {},
         \A i \in Queued(a), k \in Queued(a)' : queue'[k].task = queue[i].task
  PROVE  waitingTasks'[a] = waitingTasks[a]
<1>1. CASE Queued(a) = {}
  BY <1>1 DEF Mapped
<1>2. CASE Queued(a) # {}
  <2>1. PICK i \in Queued(a), k \in Queued(a)' : TRUE
    BY <1>2
  <2>2. waitingTasks[a] = <<queue[i].task>> \o pending[a]
    BY <2>1 DEF Mapped
  <2>3. waitingTasks'[a] = <<queue'[k].task>> \o pending'[a]
    BY <2>1 DEF Mapped
  <2> QED BY <2>1, <2>2, <2>3
<1> QED BY <1>1, <1>2

(* The same of the task an actor runs.                                     *)
LEMMA RunningKept ==
  ASSUME Mapped, Mapped', NEW a \in Actor,
         \A w \in Worker : (Runs(w, a)' <=> Runs(w, a)) /\ (Runs(w, a) => task(w)' = task(w))
  PROVE  runningTask'[a] = runningTask[a]
<1>1. CASE \E w \in Worker : Runs(w, a)
  BY <1>1 DEF Mapped, Runs, At, actor, task
<1>2. CASE \A w \in Worker : ~Runs(w, a)
  BY <1>2 DEF Mapped, Runs, At, actor, task
<1> QED BY <1>1, <1>2

(* A step that starts and ends no task and leaves the queue alone.         *)
LEMMA Stutters ==
  ASSUME Mapped, Mapped',
         \A a \in Actor : waitingTasks'[a] = waitingTasks[a] /\ runningTask'[a] = runningTask[a]
  PROVE  UNCHANGED <<waitingTasks, runningTask>>
  BY DEF waitingTasks, runningTask

(* Every step of a thread is a step of the serial executor or none: a task *)
(* is enqueued when it enters the executor's queue or is put aside, and    *)
(* moving it from pending to that queue is invisible.                      *)
LEMMA StepRefines ==
  ASSUME PoolInv, Mapped, Mapped', NEW th \in Thread, Step(th)
  PROVE  [Serial!Next]_(Serial!serialVars)
<1> USE TwoKinds, PoolAssumption DEF At, Goto, Leave, actor, task
<1> DEFINE Claim == [Serial!Next]_(Serial!serialVars)
<1>0. TypeOK /\ ReadStillTrue /\ OneJob
  BY DEF PoolInv
<1>j. ~At(th, "idle") => job[th] \in Job /\ actor(th) \in Actor /\ task(th) \in Task
  BY <1>0 DEF Job, TypeOK
<1>k. ASSUME \A a \in Actor : waitingTasks'[a] = waitingTasks[a] /\ runningTask'[a] = runningTask[a]
      PROVE  Claim
  BY <1>k, Stutters DEF Serial!serialVars
<1>q. ASSUME queue' = queue, NEW a \in Actor, pending'[a] = pending[a]
      PROVE  waitingTasks'[a] = waitingTasks[a]
  <2>1. /\ Queued(a)' = Queued(a)
        /\ \A i, k \in Queued(a) : i = k
    BY <1>0, <1>q DEF Queued, OneJob
  <2> QED BY <1>q, <2>1, WaitingKept
<1>r. ASSUME \A w \in Worker : (At(w, "run")' <=> At(w, "run")) /\ (At(w, "run") => job'[w] = job[w])
      PROVE  \A a \in Actor : runningTask'[a] = runningTask[a]
  <2>1. \A a \in Actor, w \in Worker :
          (Runs(w, a)' <=> Runs(w, a)) /\ (Runs(w, a) => task(w)' = task(w))
    BY <1>r DEF Runs
  <2> QED BY <2>1, RunningKept
<1>1. ASSUME NEW b \in Actor, NEW t \in Task, th \in Submitter, Call(th, b, t) PROVE Claim
  <2>1. \A w \in Worker : pc'[w] = pc[w] /\ job'[w] = job[w]
    BY <1>0, <1>1 DEF Call, TypeOK
  <2>2. queue' = queue /\ pending' = pending
    BY <1>1 DEF Call
  <2> QED BY <2>1, <2>2, <1>k, <1>q, <1>r
<1>2. CASE th \in Submitter /\ (Enter(th) \/ TestPlaying(th))
  <2>1. \A w \in Worker : pc'[w] = pc[w] /\ job'[w] = job[w]
    BY <1>0, <1>2 DEF Enter, TestPlaying, TypeOK
  <2>2. queue' = queue /\ pending' = pending
    BY <1>2 DEF Enter, TestPlaying
  <2> QED BY <2>1, <2>2, <1>k, <1>q, <1>r
<1>e. ASSUME NEW b \in Actor, NEW t \in Task, waitingTasks'[b] = Append(waitingTasks[b], t),
             \A a \in Actor \ {b} : waitingTasks'[a] = waitingTasks[a],
             \A a \in Actor : runningTask'[a] = runningTask[a]
      PROVE  Claim
  <2>1. Serial!Enqueue(b, t)
    <3>1. waitingTasks' = [waitingTasks EXCEPT ![b] = Append(@, t)]
      BY <1>e, OneActor
    <3>2. runningTask' = runningTask
      BY <1>e DEF runningTask
    <3> QED BY <3>1, <3>2 DEF Serial!Enqueue
  <2> QED BY <2>1 DEF Serial!Next
<1>3. CASE th \in Submitter /\ Play(th)
  <2>1. \A w \in Worker : pc'[w] = pc[w] /\ job'[w] = job[w]
    BY <1>0, <1>3 DEF Play, TypeOK
  <2>2. /\ actor(th) \notin playingNow
        /\ pending' = pending
    BY <1>0, <1>3 DEF Play, ReadStillTrue
  <2>3. \A a \in Actor :
          /\ \A i \in Queued(a) : queue'[i] = queue[i]
          /\ queue'[Len(queue) + 1] = job[th]
          /\ Queued(a)' = IF actor(th) = a THEN Queued(a) \cup {Len(queue) + 1} ELSE Queued(a)
    BY <1>0, <1>j, <1>3, QueueAppend DEF Play, TypeOK
  <2>4. \A a \in Actor \ {actor(th)} : waitingTasks'[a] = waitingTasks[a]
    <3> TAKE a \in Actor \ {actor(th)}
    <3>1. Queued(a)' = Queued(a) /\ \A i, k \in Queued(a) : i = k
      BY <1>0, <2>3 DEF OneJob
    <3> QED BY <2>2, <2>3, <3>1, WaitingKept
  <2>5. waitingTasks'[actor(th)] = Append(waitingTasks[actor(th)], task(th))
    <3>0. PICK b \in Actor, t \in Task : b = actor(th) /\ t = task(th)
      BY <1>j, <1>3 DEF Play
    <3>1. Queued(b) = {} /\ pending[b] = <<>>
      BY <1>0, <1>3, <2>2, <3>0 DEF Play, OneJob, PoolInv, AsideMeansPlaying
    <3>2. waitingTasks[b] = <<>>
      BY <3>1 DEF Mapped
    <3>3. waitingTasks'[b] = <<t>> \o <<>>
      <4>1. Len(queue) + 1 \in Queued(b)'
        BY <2>3, <3>0
      <4>2. \A i \in Queued(b)' : waitingTasks'[b] = <<queue'[i].task>> \o pending'[b]
        BY DEF Mapped
      <4>3. queue'[Len(queue) + 1].task = t
        BY <2>3, <3>0
      <4> QED BY <2>2, <3>1, <4>1, <4>2, <4>3
    <3>4. <<t>> \o <<>> = Append(<<>>, t)
      OBVIOUS
    <3> QED BY <3>0, <3>2, <3>3, <3>4
  <2> QED BY <1>j, <1>3, <2>1, <2>4, <2>5, <1>e, <1>r DEF Play
<1>4. CASE th \in Submitter /\ PutAside(th)
  <2>1. \A w \in Worker : pc'[w] = pc[w] /\ job'[w] = job[w]
    BY <1>0, <1>4 DEF PutAside, TypeOK
  <2>2. /\ queue' = queue
        /\ actor(th) \in playingNow
        /\ actor(th) \in Actor /\ task(th) \in Task
        /\ pending' = [pending EXCEPT ![actor(th)] = Append(@, task(th))]
    BY <1>0, <1>j, <1>4 DEF PutAside, ReadStillTrue
  <2>3. \A a \in Actor \ {actor(th)} : waitingTasks'[a] = waitingTasks[a]
    BY <1>0, <1>q, <2>2 DEF TypeOK
  <2>4. waitingTasks'[actor(th)] = Append(waitingTasks[actor(th)], task(th))
    <3>0. PICK b \in Actor, t \in Task : b = actor(th) /\ t = task(th)
      BY <2>2
    <3>1. b \in playingNow /\ queue' = queue
      BY <2>2, <3>0
    <3>2. pending[b] \in Seq(Task) /\ pending'[b] = Append(pending[b], t)
      BY <1>0, <2>2, <3>0 DEF TypeOK
    <3>3. Queued(b)' = Queued(b)
      BY <3>1 DEF Queued
    <3>4. CASE Queued(b) = {}
      <4>1. waitingTasks[b] = pending[b]
        BY <3>4 DEF Mapped
      <4>2. Queued(b)' = {} => waitingTasks'[b] = pending'[b]
        BY DEF Mapped
      <4> QED BY <3>0, <3>2, <3>3, <3>4, <4>1, <4>2
    <3>5. CASE Queued(b) # {}
      <4>1. PICK i \in Queued(b) : TRUE
        BY <3>5
      <4>2. queue[i].task \in Task
        <5>1. queue \in Seq(Job) /\ i \in DOMAIN queue
          BY <1>0, <4>1 DEF Queued, TypeOK
        <5>2. queue[i] \in Job
          BY <5>1
        <5> QED BY <5>2 DEF Job
      <4>3. waitingTasks[b] = <<queue[i].task>> \o pending[b]
        BY <3>1, <4>1 DEF Mapped
      <4>4. waitingTasks'[b] = <<queue[i].task>> \o Append(pending[b], t)
        <5>1. \A k \in Queued(b)' : waitingTasks'[b] = <<queue'[k].task>> \o pending'[b]
          BY <3>1 DEF Mapped
        <5> QED BY <3>1, <3>2, <3>3, <4>1, <5>1
      <4>5. ASSUME NEW x \in Task, NEW u \in Seq(Task), NEW y \in Task
            PROVE  <<x>> \o Append(u, y) = Append(<<x>> \o u, y)
        OBVIOUS
      <4>6. <<queue[i].task>> \o Append(pending[b], t) = Append(<<queue[i].task>> \o pending[b], t)
        BY <3>2, <4>2, <4>5, Zenon
      <4> QED BY <3>0, <4>3, <4>4, <4>6
    <3> QED BY <3>0, <3>4, <3>5
  <2> QED BY <2>1, <2>2, <2>3, <2>4, <1>e, <1>r
<1>5. CASE th \in Worker /\ Take(th)
  <2>0. PICK b \in Actor, t \in Task : b = Head(queue).act /\ t = Head(queue).task
    BY <1>0, <1>5, QueueTail DEF Take, TypeOK, Job
  <2>1. /\ Head(queue) \in Job
        /\ Head(queue) = queue[1]
        /\ 1 \in Queued(b)
        /\ \A a \in Actor :
             /\ 1 \in Queued(a) => a = b
             /\ \A i \in Queued(a) : i \in Nat \ {0}
             /\ \A i \in Nat \ {0} : i \in Queued(a)' <=> i + 1 \in Queued(a)
             /\ \A i \in Queued(a)' : i \in Nat \ {0} /\ queue'[i] = queue[i + 1]
    BY <1>0, <1>5, <2>0, QueueTail DEF Take, TypeOK
  <2>2. /\ ~Works(th, b) /\ pc'[th] = "run" /\ job'[th] = Head(queue)
        /\ \A w \in Worker \ {th} : pc'[w] = pc[w] /\ job'[w] = job[w]
        /\ pending' = pending
        /\ \A a \in Actor : ~Runs(th, a)
    BY <1>0, <1>5, <2>0 DEF Take, TypeOK, Works, Runs
  <2>3. \A a \in Actor \ {b} : waitingTasks'[a] = waitingTasks[a]
    <3> TAKE a \in Actor \ {b}
    <3>1. \A i, k \in Queued(a) : i = k
      BY <1>0 DEF OneJob
    <3>2. \A i \in Queued(a) : i - 1 \in Queued(a)'
      <4> TAKE i \in Queued(a)
      <4>1. i \in Nat \ {0} /\ i # 1
        BY <2>1
      <4>2. i - 1 \in Nat \ {0} /\ (i - 1) + 1 = i
        BY <4>1
      <4> QED BY <2>1, <4>2
    <3>3. \A k \in Queued(a)' : k + 1 \in Queued(a) /\ queue'[k] = queue[k + 1]
      BY <2>1
    <3>4. Queued(a)' = {} <=> Queued(a) = {}
      BY <3>2, <3>3
    <3>5. \A i \in Queued(a), k \in Queued(a)' : queue'[k].task = queue[i].task
      BY <3>1, <3>3
    <3> QED BY <2>2, <3>4, <3>5, WaitingKept
  <2>4. \A a \in Actor \ {b} : runningTask'[a] = runningTask[a]
    <3> TAKE a \in Actor \ {b}
    <3>1. \A w \in Worker : (Runs(w, a)' <=> Runs(w, a)) /\ (Runs(w, a) => task(w)' = task(w))
      BY <2>0, <2>2 DEF Runs
    <3> QED BY <3>1, RunningKept
  <2>5. /\ waitingTasks[b] = <<t>> \o pending[b]
        /\ pending[b] \in Seq(Task)
    <3>1. \A i \in Queued(b) : waitingTasks[b] = <<queue[i].task>> \o pending[b]
      BY DEF Mapped
    <3>2. queue[1].task = t
      BY <2>0, <2>1
    <3> QED BY <1>0, <2>1, <3>1, <3>2 DEF TypeOK
  <2>6. waitingTasks'[b] = pending[b]
    <3>1. Queued(b)' = {}
      <4>1. \A i, k \in Queued(b) : i = k
        BY <1>0, <2>1 DEF OneJob
      <4> QED BY <2>1, <4>1
    <3>2. \A a \in Actor : Queued(a)' = {} => waitingTasks'[a] = pending'[a]
      BY DEF Mapped
    <3> QED BY <2>1, <2>2, <3>1, <3>2
  <2>7. runningTask[b] = NONE
    <3>1. \A w \in Worker : ~Works(w, b)
      BY <1>0, <2>1 DEF OneJob
    <3>2. \A w \in Worker : ~Runs(w, b)
      BY <3>1 DEF Runs, Works
    <3> QED BY <2>1, <3>2 DEF Mapped
  <2>8. runningTask'[b] = t
    <3>1. Runs(th, b)' /\ task(th)' = t
      BY <2>0, <2>2 DEF Runs
    <3>2. \A w \in Worker : Runs(w, b)' => runningTask'[b] = task(w)'
      BY <2>1 DEF Mapped
    <3> QED BY <1>5, <3>1, <3>2
  <2>9. /\ waitingTasks[b] # <<>>
        /\ Head(waitingTasks[b]) = t
        /\ Tail(waitingTasks[b]) = pending[b]
    <3>1. ASSUME NEW x \in Task, NEW u \in Seq(Task)
          PROVE  <<x>> \o u # <<>> /\ Head(<<x>> \o u) = x /\ Tail(<<x>> \o u) = u
      OBVIOUS
    <3> QED BY <2>5, <3>1
  <2>10. Serial!Begin(b)
    BY <2>1, <2>3, <2>4, <2>6, <2>7, <2>8, <2>9, OneActor DEF Serial!Begin
  <2> QED BY <2>1, <2>10 DEF Serial!Next
<1>6. CASE th \in Worker /\ Return(th)
  <2>0. PICK b \in Actor : b = actor(th)
    BY <1>j, <1>6 DEF Return
  <2>1. /\ queue' = queue /\ pending' = pending
        /\ Runs(th, b) /\ Works(th, b)
        /\ ~Runs(th, b)'
        /\ \A w \in Worker \ {th} : pc'[w] = pc[w] /\ job'[w] = job[w]
        /\ \A a \in Actor \ {b} : ~Runs(th, a) /\ ~Runs(th, a)'
    BY <1>0, <1>6, <2>0 DEF Return, TypeOK, Runs, Works
  <2>2. \A a \in Actor : waitingTasks'[a] = waitingTasks[a]
    BY <1>q, <2>1
  <2>3. \A a \in Actor \ {b} : runningTask'[a] = runningTask[a]
    <3> TAKE a \in Actor \ {b}
    <3>1. \A w \in Worker : (Runs(w, a)' <=> Runs(w, a)) /\ (Runs(w, a) => task(w)' = task(w))
      BY <2>1 DEF Runs
    <3> QED BY <3>1, RunningKept
  <2>4. runningTask[b] # NONE
    BY <1>6, <2>1 DEF Mapped
  <2>5. runningTask'[b] = NONE
    <3>1. \A w \in Worker \ {th} : ~Runs(w, b)
      BY <1>0, <1>6, <2>1 DEF OneJob, Runs, Works
    <3>2. \A w \in Worker : ~Runs(w, b)'
      BY <2>1, <3>1 DEF Runs
    <3>3. (\A w \in Worker : ~Runs(w, b)') => runningTask'[b] = NONE
      BY <2>1 DEF Mapped
    <3> QED BY <3>2, <3>3
  <2>6. Serial!Finish(b)
    <3>1. waitingTasks' = waitingTasks
      BY <2>2 DEF waitingTasks
    <3> QED BY <2>1, <2>2, <2>3, <2>4, <2>5, <3>1, OneActor DEF Serial!Finish
  <2> QED BY <2>1, <2>6 DEF Serial!Next
<1>7. CASE th \in Worker /\ (Complete(th) \/ Remove(th))
  <2>1. \A w \in Worker : (At(w, "run")' <=> At(w, "run")) /\ (At(w, "run") => job'[w] = job[w])
    BY <1>0, <1>7 DEF Complete, Remove, TypeOK
  <2>2. queue' = queue /\ pending' = pending
    BY <1>7 DEF Complete, Remove
  <2> QED BY <2>1, <2>2, <1>k, <1>q, <1>r
<1>8. CASE th \in Worker /\ Poll(th)
  <2>0. PICK b \in Actor, t \in Task, j \in Job :
          /\ b = actor(th)
          /\ t = Head(pending[b])
          /\ j = [act |-> b, task |-> t]
    BY <1>0, <1>j, <1>8 DEF Poll, ReadStillTrue, TypeOK, Job
  <2>1. \A w \in Worker : (At(w, "run")' <=> At(w, "run")) /\ (At(w, "run") => job'[w] = job[w])
    BY <1>0, <1>8 DEF Poll, TypeOK
  <2>2. /\ Works(th, b)
        /\ pending[b] \in Seq(Task) /\ pending[b] # <<>>
        /\ pending' = [pending EXCEPT ![b] = Tail(@)]
        /\ queue' = Append(queue, j)
    BY <1>0, <1>8, <2>0 DEF Poll, ReadStillTrue, TypeOK, Works
  <2>3. j.act = b /\ j.task = t
    BY <2>0
  <2>4. \A a \in Actor :
          /\ \A i \in Queued(a) : queue'[i] = queue[i]
          /\ queue'[Len(queue) + 1] = j
          /\ Queued(a)' = IF b = a THEN Queued(a) \cup {Len(queue) + 1} ELSE Queued(a)
    BY <1>0, <2>2, <2>3, QueueAppend DEF TypeOK
  <2>5. \A a \in Actor \ {b} : waitingTasks'[a] = waitingTasks[a]
    <3> TAKE a \in Actor \ {b}
    <3>1. Queued(a)' = Queued(a) /\ \A i, k \in Queued(a) : i = k
      BY <1>0, <2>4 DEF OneJob
    <3>2. pending'[a] = pending[a]
      BY <1>0, <2>2 DEF TypeOK
    <3> QED BY <2>4, <3>1, <3>2, WaitingKept
  <2>6. waitingTasks'[b] = waitingTasks[b]
    <3>1. Queued(b) = {}
      BY <1>0, <1>8, <2>2 DEF OneJob
    <3>2. waitingTasks[b] = pending[b]
      BY <2>2, <3>1 DEF Mapped
    <3>3. pending'[b] = Tail(pending[b])
      BY <1>0, <2>2 DEF TypeOK
    <3>4. waitingTasks'[b] = <<t>> \o Tail(pending[b])
      <4>1. \A k \in Queued(b)' : waitingTasks'[b] = <<queue'[k].task>> \o pending'[b]
        BY <2>2 DEF Mapped
      <4>2. Len(queue) + 1 \in Queued(b)' /\ queue'[Len(queue) + 1].task = t
        BY <2>2, <2>3, <2>4
      <4> QED BY <3>3, <4>1, <4>2
    <3>5. <<t>> \o Tail(pending[b]) = pending[b]
      BY <2>0, <2>2
    <3> QED BY <3>2, <3>4, <3>5
  <2> QED BY <2>1, <2>5, <2>6, <1>k, <1>r
<1> QED
  BY <1>1, <1>2, <1>3, <1>4, <1>5, <1>6, <1>7, <1>8 DEF Step, SubmitStep, WorkerStep

(* submit, run and complete implement the serial executor for every actor: *)
(* its tasks begin in the order they were submitted, one at a time, none   *)
(* left out and none twice.                                                *)
THEOREM PoolIsSerial == Spec => SerialSpec
<1>1. Init => Serial!Init
  <2> SUFFICES ASSUME Init PROVE Serial!Init
    OBVIOUS
  <2>1. Mapped
    BY InitInv, MappedState
  <2>2. \A a \in Actor : waitingTasks[a] = <<>>
    BY <2>1 DEF Init, Mapped, Queued
  <2>3. \A a \in Actor : runningTask[a] = NONE
    BY <2>1, TwoKinds DEF Init, Mapped, Runs, At
  <2> QED BY <2>2, <2>3 DEF Serial!Init, waitingTasks, runningTask
<1>2. PoolInv /\ PoolInv' /\ [Next]_vars => [Serial!Next]_(Serial!serialVars)
  <2> SUFFICES ASSUME PoolInv, PoolInv', [Next]_vars
               PROVE  [Serial!Next]_(Serial!serialVars)
    OBVIOUS
  <2>0. Mapped
    BY MappedState
  <2>p. (PoolInv => Mapped)'
    BY MappedState, PTL
  <2>1. ASSUME NEW th \in Thread, Step(th) PROVE [Serial!Next]_(Serial!serialVars)
    BY <2>0, <2>p, <2>1, StepRefines
  <2>2. CASE UNCHANGED vars
    BY <2>2 DEF vars, Serial!serialVars, waitingTasks, runningTask, QueuedTask, Queued, Runs, At,
      actor, task
  <2>3. Next => \E th \in Thread : Step(th)
    BY TwoKinds DEF Next, Step
  <2> QED BY <2>1, <2>2, <2>3
<1> QED BY <1>1, <1>2, PoolInvariance, PTL DEF Spec, SerialSpec, Serial!Spec

=============================================================================
