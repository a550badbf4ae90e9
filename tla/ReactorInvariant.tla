--------------------------- MODULE ReactorInvariant ---------------------------
(***************************************************************************)
(* Why the invariants of ReactorProperties hold: what the selector thread  *)
(* and the pool threads rely on in the middle of their work.  ReactorInv   *)
(* is inductive; Reactor_proofs proves it so.                              *)
(***************************************************************************)
EXTENDS ReactorProperties

ChannelKey == [conn : Conn, ops : {"READ", "WRITE"}]

(* The places of the selector thread where it handles the key cur.         *)
Handling == {"test", "read", "valid", "writable", "write", "drained", "ops"}

(* The accept key has no connection: it is not handled there.              *)
CurrentKey == spc \in Handling => cur \in ChannelKey

(* A read task that sends has a frame to send, and the handler it has      *)
(* queued it at is that of a connection.                                   *)
SendsFrame(c) ==
  /\ ppc[c] \in {"send", "ask", "wake"} => reply[c] \in ServerFrame
  /\ ppc[c] \in {"ask", "wake"} => target[c] \in Conn

(* Before it is accepted a connection has no key and nothing queued.       *)
NothingBefore(c) ==
  chan[c] = "none" =>
    /\ key[c] = "none"
    /\ writeQueue[c] = <<>>
    /\ tasks[c] = <<>>
    /\ ppc[c] = "idle"
    /\ c \notin activeConnections

(* Nothing is read, nothing runs until the protocol is started.            *)
NothingRead(c) == c \in unstarted => tasks[c] = <<>> /\ ppc[c] = "idle"

(* The frame that is partly written is still the first of the queue.       *)
PartIsKept(c) == begun[c] => writeQueue[c] # <<>>

(* Between the second isEmpty test and interestOps(OP_READ), a frame that  *)
(* is queued behind the back of the selector thread comes with a task that *)
(* will set OP_WRITE after it.                                             *)
QueuedSinceTest ==
  spc = "ops" /\ writeQueue[cur.conn] # <<>> => InTasks(cur.conn) \/ Asking(cur.conn)

(* Outside runSelectionThreadTasks a task that waits has been, or is being,*)
(* signalled: only select() takes the signal, and the tasks are run after. *)
TasksSignalled ==
  spc \notin {"tasks", "dead"} /\ selectorTasks # <<>> =>
    wakeup \/ \E c \in Conn : At(c, "wake")

(* The inductive invariant: every safety property above follows from it.   *)
ReactorInv ==
  /\ TypeOK
  /\ CurrentKey
  /\ \A c \in Conn :
       SendsFrame(c) /\ NothingBefore(c) /\ NothingRead(c) /\ PartIsKept(c)
  /\ WholeInOrder
  /\ QueuedIsPending /\ QueuedSinceTest
  /\ TasksSignalled
=============================================================================
