-------------------------- MODULE ReactorProperties --------------------------
(***************************************************************************)
(* What the reactor server promises, and (last section) what the           *)
(* repository says of it although the code does otherwise.                 *)
(***************************************************************************)
EXTENDS Reactor

ServerFrame == {"CONNECTED", "RECEIPT", "MESSAGE", "ERROR"}

SelectorLabel == {"select", "tasks", "keys", "test", "read", "valid", "writable",
                  "write", "drained", "ops", "dead"}

TaskLabel == {"idle", "decode", "send", "ask", "wake", "served", "throw"}

(* Type invariant.                                                         *)
TypeOK ==
  /\ chan \in [Conn -> {"none", "open", "closed"}]
  /\ key \in [Conn -> {"none", "valid", "cancelled", "gone"}]
  /\ interest \in [Conn -> {"READ", "WRITE"}]
  /\ peer \in [Conn -> {"up", "closed", "reset"}]
  /\ incoming \in [Conn -> Seq(Request)]
  /\ writeQueue \in [Conn -> Seq(ServerFrame)]
  /\ begun \in [Conn -> BOOLEAN]
  /\ written \in [Conn -> Seq(ServerFrame)]
  /\ sent \in [Conn -> Seq(ServerFrame)]
  /\ spc \in SelectorLabel
  /\ wakeup \in BOOLEAN
  /\ selectedKeys \subseteq [conn : Conn, ops : {"READ", "WRITE"}] \cup {AcceptKey}
  /\ cur \in [conn : Conn, ops : {"READ", "WRITE"}] \cup {AcceptKey}
  /\ selectorTasks \in Seq(Conn)
  /\ tasks \in [Conn -> Seq(Seq(Request))]
  /\ running \in [Conn -> Seq(Request) \cup {NONE}]
  /\ unstarted \subseteq Conn
  /\ ppc \in [Conn -> TaskLabel]
  /\ buf \in [Conn -> Seq(Request)]
  /\ request \in [Conn -> Request \cup {NONE}]
  /\ reply \in [Conn -> ServerFrame \cup {NONE}]
  /\ left \in [Conn -> SUBSET Conn]
  /\ target \in [Conn -> Conn \cup {NONE}]
  /\ shouldTerminate \in [Conn -> BOOLEAN]
  /\ activeConnections \subseteq Conn
  /\ topicExists \in BOOLEAN
  /\ members \subseteq Conn
  /\ reads \in [Conn -> Nat]

(* continueWrite peeks, writes and removes in three calls while pool       *)
(* threads add: every frame goes out whole, once, in the order of send.    *)
WholeInOrder == \A c \in Conn : written[c] \o writeQueue[c] = sent[c]

Asking(d) == \E c \in Conn : At(c, "ask") /\ target[c] = d

InTasks(d) == \E i \in DOMAIN selectorTasks : selectorTasks[i] = d

(* A frame is never left in the queue of a connection under OP_READ: the   *)
(* selector thread sets OP_READ when it has seen the queue empty, pool     *)
(* threads fill it meanwhile, and a task to set OP_WRITE again is there or *)
(* about to be.                                                            *)
QueuedIsPending ==
  \A d \in Conn :
    spc # "dead" /\ key[d] = "valid" /\ writeQueue[d] # <<>> =>
      interest[d] = "WRITE" \/ InTasks(d) \/ Asking(d)

(* select() does not block over a task: its wakeup is there, or about to   *)
(* be.                                                                     *)
TasksAreSeen ==
  spc = "select" /\ selectorTasks # <<>> => wakeup \/ \E c \in Conn : At(c, "wake")

(* The start task and the read tasks of a connection have different        *)
(* actors: no request is processed by a protocol that is not started.      *)
StartedFirst == \A c \in Conn : c \in unstarted => ~At(c, "decode")
-----------------------------------------------------------------------------
(* The selector thread has died, or is in continueWrite's loop over a      *)
(* channel that is broken, which it never leaves: every write throws, and  *)
(* the frame it tried to write stays at the head of the queue.             *)
SelectorLost ==
  \/ spc = "dead"
  \/ spc = "write" /\ writeQueue[cur.conn] # <<>> /\ Broken(cur.conn)

(* Until the selector thread is lost, every queue gets empty ...           *)
QueuesDrain ==
  \A c \in Conn :
    writeQueue[c] # <<>> ~> writeQueue[c] = <<>> \/ key[c] # "valid" \/ SelectorLost

(* ... and every request that arrives is read, although OP_WRITE takes     *)
(* the place of OP_READ whenever something is sent.                        *)
RequestsRead ==
  \A c \in Conn :
    incoming[c] # <<>> ~>
      incoming[c] = <<>> \/ key[c] # "valid" \/ peer[c] = "reset" \/ SelectorLost

(* A client that closes its end is noticed, even if frames still wait for  *)
(* it: the channel gets closed.                                            *)
HangUpCloses ==
  \A c \in Conn :
    chan[c] = "open" /\ peer[c] = "closed" ~>
      chan[c] = "closed" \/ peer[c] = "reset" \/ SelectorLost

(* shouldTerminate is acted upon, also when the selector thread is lost or *)
(* process throws.                                                         *)
TerminationCloses == \A c \in Conn : shouldTerminate[c] ~> chan[c] = "closed"
-----------------------------------------------------------------------------
(* The property below is violated: see the findings.                       *)

(* "server was requested to be closed" is the only reason the selector     *)
(* loop names for its end (Reactor.java): no client ends it.               *)
SelectorLives == spc # "dead"
=============================================================================
