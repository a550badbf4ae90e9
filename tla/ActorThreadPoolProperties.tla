---------------------- MODULE ActorThreadPoolProperties ----------------------
(***************************************************************************)
(* What ActorThreadPool promises: mutual exclusion for each actor, no task *)
(* is stranded, and tasks run in the order of their submission.            *)
(***************************************************************************)
EXTENDS ActorThreadPool

SubmitLabel == {"idle", "submit", "test", "play", "append"}

WorkerLabel == {"idle", "run", "complete", "remove", "poll"}

(* Type invariant.                                                         *)
TypeOK ==
  /\ playingNow \subseteq Actor
  /\ pending \in [Actor -> Seq(Task)]
  /\ queue \in Seq(Job)
  /\ monitor \in [Actor -> Thread \cup {NONE}]
  /\ pc \in [Thread -> SubmitLabel \cup WorkerLabel]
  /\ \A s \in Submitter : pc[s] \in SubmitLabel
  /\ \A w \in Worker : pc[w] \in WorkerLabel
  /\ job \in [Thread -> Job \cup {NONE}]
  /\ \A th \in Thread : ~At(th, "idle") => job[th] \in Job
  /\ unborn \subseteq Task

(* The threads in a block synchronized on a, ...                           *)
Inside(th, a) == pc[th] \in {"test", "play", "append", "remove", "poll"} /\ actor(th) = a

(* ... those that run or complete a job of a, ...                          *)
Works(th, a) == pc[th] \in {"run", "complete", "remove", "poll"} /\ actor(th) = a

(* ... and the jobs of a in the executor's queue.                          *)
Queued(a) == {i \in DOMAIN queue : queue[i].act = a}

(* protocol.process is not written for two threads: no two tasks of one    *)
(* actor are run at the same time.                                         *)
OneTaskPerActor ==
  \A v, w \in Worker :
    At(v, "run") /\ At(w, "run") /\ actor(v) = actor(w) => v = w

(* A task that is put aside is not forgotten: its actor is in playingNow,  *)
(* and a job of that actor is under way whose complete will find the task. *)
(* Nor does an actor stay in playingNow without one, which would put aside *)
(* all its later tasks for ever.                                           *)
NothingStranded ==
  \A a \in Actor :
    /\ pending[a] # <<>> => a \in playingNow
    /\ a \in playingNow => Queued(a) # {} \/ \E w \in Worker : Works(w, a)

-----------------------------------------------------------------------------
(* The inductive invariant: monitors exclude, what a thread has read in    *)
(* its block is still so, and an actor plays exactly when one job of it is *)
(* in the executor.                                                        *)
MonitorHeld ==
  \A th \in Thread, a \in Actor : Inside(th, a) <=> monitor[a] = th

ReadStillTrue ==
  \A th \in Thread :
    /\ At(th, "play") => actor(th) \notin playingNow
    /\ At(th, "append") => actor(th) \in playingNow
    /\ At(th, "remove") => pending[actor(th)] = <<>>
    /\ At(th, "poll") => pending[actor(th)] # <<>>

OneJob ==
  \A a \in Actor :
    /\ \A i, j \in Queued(a) : i = j
    /\ \A v, w \in Worker : Works(v, a) /\ Works(w, a) => v = w
    /\ Queued(a) # {} => \A w \in Worker : ~Works(w, a)
    /\ a \in playingNow <=> Queued(a) # {} \/ \E w \in Worker : Works(w, a)

AsideMeansPlaying == \A a \in Actor : pending[a] # <<>> => a \in playingNow

PoolInv == TypeOK /\ MonitorHeld /\ ReadStillTrue /\ OneJob /\ AsideMeansPlaying
-----------------------------------------------------------------------------
(* The refinement.  An actor's tasks wait in the executor's queue (one at  *)
(* most) and behind it in pending; its running task is a worker's.         *)
QueuedTask(a) ==
  IF Queued(a) = {} THEN <<>> ELSE <<queue[CHOOSE i \in Queued(a) : TRUE].task>>

waitingTasks == [a \in Actor |-> QueuedTask(a) \o pending[a]]

Runs(w, a) == At(w, "run") /\ actor(w) = a

runningTask ==
  [a \in Actor |->
     IF \E w \in Worker : Runs(w, a)
       THEN task(CHOOSE w \in Worker : Runs(w, a)) ELSE NONE]

Serial == INSTANCE SerialExecutor WITH waiting <- waitingTasks, running <- runningTask

(* For each actor the pool is a serial executor: tasks are begun in the    *)
(* order their submit calls took effect, each once, one at a time.         *)
SerialSpec == Serial!Spec

(* A submitted task is run, also behind tasks that throw.                  *)
SubmittedRuns ==
  \A s \in Submitter, t \in Task :
    ~At(s, "idle") /\ task(s) = t ~> \E w \in Worker : At(w, "run") /\ task(w) = t
=============================================================================
