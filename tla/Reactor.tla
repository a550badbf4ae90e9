------------------------------- MODULE Reactor -------------------------------
(***************************************************************************)
(* The reactor server: one selector thread accepts, reads and writes; the  *)
(* tasks that decode and process what was read run in the ActorThreadPool, *)
(* used here by what it promises (SerialExecutor, see                      *)
(* ActorThreadPool_proofs).                                                *)
(*                                                                         *)
(* spc is where the selector thread is, ppc[c] where the pool thread is    *)
(* that runs a task of connection c.  The selector thread is "dead" when   *)
(* an unchecked exception (CancelledKeyException, NullPointerException)    *)
(* has left serve().                                                       *)
(*                                                                         *)
(* What process() does to the connections is abstracted to the frames it   *)
(* queues, on one topic, and the disconnect it calls;                      *)
(* StompMessagingProtocolImpl has the rest.                                *)
(***************************************************************************)
EXTENDS NonBlockingConnectionHandler, FiniteSets

CONSTANTS
  ClientFrames,   \* connection -> the requests its client may send
  MaxFrames       \* bound: connection -> how many it sends at most

(* BAD is any request that is answered by ERROR, REFUSED a CONNECT that    *)
(* is.  SUBSCRIBE asks for a receipt, UNSUBSCRIBE and SEND do not, like    *)
(* those of the client.                                                    *)
Request == {"CONNECT", "SUBSCRIBE", "UNSUBSCRIBE", "SEND", "DISCONNECT", "BAD", "REFUSED"}

ASSUME RequestsAssumption ==
  /\ ClientFrames \in [Conn -> SUBSET Request]
  /\ MaxFrames \in [Conn -> Nat]

VARIABLES
  spc, wakeup,           \* the selector thread; Selector.wakeup() was called
  selectedKeys, cur,     \* the selected keys left, and the one it is at
  selectorTasks,         \* the connections to set OP_WRITE for, in order
  tasks, running,        \* the pool: waiting and running read tasks
  unstarted,             \* connections whose start task has not run
  ppc, buf, request,     \* the read task: its place, its bytes, its request,
  reply, left, target,   \* the frame it sends, to whom it still must, and does
  shouldTerminate,       \* the field of the protocol of the connection
  activeConnections,            \* ConnectionsImpl, with one topic:
  topicExists, members,         \* somebody has subscribed to it; its subscribers
  reads                  \* how many requests each client has sent

selectorVars == <<spc, wakeup, selectedKeys, cur, selectorTasks>>

taskVars == <<ppc, buf, request, reply, left, target>>

poolVars == <<tasks, running>>

registryVars == <<shouldTerminate, activeConnections, topicExists, members>>

vars == <<handlerVars, selectorVars, poolVars, unstarted, taskVars, registryVars, reads>>

Pool == INSTANCE SerialExecutor
          WITH Actor <- Conn, Task <- Seq(Request), waiting <- tasks, running <- running

AcceptKey == [conn |-> NONE, ops |-> "ACCEPT"]

Init ==
  /\ HandlerInit
  /\ Pool!Init
  /\ spc = "select" /\ wakeup = FALSE
  /\ selectedKeys = {} /\ cur = AcceptKey /\ selectorTasks = <<>>
  /\ unstarted = {}
  /\ ppc = [c \in Conn |-> "idle"]
  /\ buf = [c \in Conn |-> <<>>]
  /\ request = [c \in Conn |-> NONE]
  /\ reply = [c \in Conn |-> NONE]
  /\ left = [c \in Conn |-> {}]
  /\ target = [c \in Conn |-> NONE]
  /\ shouldTerminate = [c \in Conn |-> FALSE]
  /\ activeConnections = {} /\ topicExists = FALSE /\ members = {}
  /\ reads = [c \in Conn |-> 0]

-----------------------------------------------------------------------------
(* The selector thread.                                                    *)
SelectorAt(label) == spc = label

Turn(label) == spc' = label

(* The keys select() finds ready.  A channel always takes some bytes: the  *)
(* clients read their sockets.                                             *)
Ready ==
  {[conn |-> c, ops |-> interest[c]] : c \in {d \in Conn :
     /\ key[d] = "valid"
     /\ interest[d] = "WRITE" \/ incoming[d] # <<>> \/ peer[d] # "up"}}

(* select(): cancelled keys are deregistered.                              *)
Select ==
  /\ SelectorAt("select")
  /\ selectedKeys' \in {Ready} \cup
       IF \E c \in Conn : chan[c] = "none" THEN {Ready \cup {AcceptKey}} ELSE {}
  /\ wakeup \/ selectedKeys' # {}
  /\ wakeup' = FALSE
  /\ key' = [c \in Conn |-> IF key[c] = "cancelled" THEN "gone" ELSE key[c]]
  /\ Turn("tasks")
  /\ UNCHANGED <<chan, interest, peer, incoming, queueVars>>
  /\ UNCHANGED <<cur, selectorTasks, poolVars, unstarted, taskVars, registryVars, reads>>

(* Mutant of RunTask: one task a round.                                    *)
RunOneTask ==
  /\ SelectorAt("tasks")
  /\ selectorTasks # <<>>
  /\ LET c == Head(selectorTasks)
     IN  IF key[c] = "valid"
           THEN interest' = [interest EXCEPT ![c] = "WRITE"] /\ Turn("keys")
           ELSE Turn("dead") /\ UNCHANGED interest
  /\ selectorTasks' = Tail(selectorTasks)
  /\ UNCHANGED <<chan, key, peer, incoming, queueVars>>
  /\ UNCHANGED <<wakeup, selectedKeys, cur, poolVars, unstarted, taskVars, registryVars, reads>>

(* Mutant of RunTask: interestOps(ops | OP_WRITE).                         *)
RunTaskAdding ==
  /\ SelectorAt("tasks")
  /\ selectorTasks # <<>>
  /\ LET c == Head(selectorTasks)
     IN  IF key[c] = "valid"
           THEN interest' = [interest EXCEPT ![c] = "READ|WRITE"] /\ UNCHANGED spc
           ELSE Turn("dead") /\ UNCHANGED interest
  /\ selectorTasks' = Tail(selectorTasks)
  /\ UNCHANGED <<chan, key, peer, incoming, queueVars>>
  /\ UNCHANGED <<wakeup, selectedKeys, cur, poolVars, unstarted, taskVars, registryVars, reads>>

(* runSelectionThreadTasks: interestOps throws if the key is cancelled, or *)
(* was null when the task was made.                                        *)
RunTask ==
  /\ SelectorAt("tasks")
  /\ selectorTasks # <<>>
  /\ LET c == Head(selectorTasks)
     IN  IF key[c] = "valid"
           THEN interest' = [interest EXCEPT ![c] = "WRITE"] /\ UNCHANGED spc
           ELSE Turn("dead") /\ UNCHANGED interest
  /\ selectorTasks' = Tail(selectorTasks)
  /\ UNCHANGED <<chan, key, peer, incoming, queueVars>>
  /\ UNCHANGED <<wakeup, selectedKeys, cur, poolVars, unstarted, taskVars, registryVars, reads>>

TasksRun ==
  /\ SelectorAt("tasks")
  /\ selectorTasks = <<>>
  /\ Turn("keys")
  /\ UNCHANGED <<handlerVars, wakeup, selectedKeys, cur, selectorTasks>>
  /\ UNCHANGED <<poolVars, unstarted, taskVars, registryVars, reads>>

(* handleAccept: connections.connect, the start task, register, setKey.    *)
HandleAccept(c) ==
  /\ SelectorAt("keys")
  /\ AcceptKey \in selectedKeys
  /\ chan[c] = "none"
  /\ activeConnections' = activeConnections \cup {c}
  /\ unstarted' = unstarted \cup {c}
  /\ Register(c)
  /\ selectedKeys' = selectedKeys \ {AcceptKey}
  /\ UNCHANGED <<spc, wakeup, cur, selectorTasks, poolVars, taskVars>>
  /\ UNCHANGED <<shouldTerminate, topicExists, members, reads>>

(* The loop over the selected keys: "if (!key.isValid()) continue".        *)
NextKey ==
  /\ SelectorAt("keys")
  /\ \E k \in selectedKeys \ {AcceptKey} :
       /\ selectedKeys' = selectedKeys \ {k}
       /\ IF key[k.conn] = "valid"
            THEN cur' = k /\ Turn("test")
            ELSE UNCHANGED <<cur, spc>>
  /\ UNCHANGED <<handlerVars, wakeup, selectorTasks>>
  /\ UNCHANGED <<poolVars, unstarted, taskVars, registryVars, reads>>

KeysDone ==
  /\ SelectorAt("keys")
  /\ selectedKeys = {}
  /\ Turn("select")
  /\ cur' = AcceptKey
  /\ UNCHANGED <<handlerVars, wakeup, selectedKeys, selectorTasks>>
  /\ UNCHANGED <<poolVars, unstarted, taskVars, registryVars, reads>>

(* isAcceptable(), isReadable() and isWritable() throw on a key that has   *)
(* been cancelled since isValid().                                         *)
Test(label, then) ==
  /\ SelectorAt(label)
  /\ Turn(IF key[cur.conn] = "valid" THEN then ELSE "dead")
  /\ UNCHANGED <<handlerVars, wakeup, selectedKeys, cur, selectorTasks>>
  /\ UNCHANGED <<poolVars, unstarted, taskVars, registryVars, reads>>

IsReadable == Test("test", IF cur.ops = "READ" THEN "read" ELSE "valid")

IsWritable == Test("writable", IF cur.ops = "WRITE" THEN "write" ELSE "keys")

IsValid ==
  /\ SelectorAt("valid")
  /\ Turn(IF key[cur.conn] = "valid" THEN "writable" ELSE "keys")
  /\ UNCHANGED <<handlerVars, wakeup, selectedKeys, cur, selectorTasks>>
  /\ UNCHANGED <<poolVars, unstarted, taskVars, registryVars, reads>>

(* Mutant of ContinueRead: reads before the protocol is started.           *)
ReadUnstarted ==
  LET c == cur.conn
  IN  /\ SelectorAt("read")
      /\ IF Broken(c) THEN UNCHANGED <<handlerVars, poolVars>>
         ELSE IF incoming[c] # <<>>
           THEN /\ Pool!Enqueue(c, incoming[c])
                /\ incoming' = [incoming EXCEPT ![c] = <<>>]
                /\ UNCHANGED <<chan, key, interest, peer, queueVars>>
           ELSE Close(c) /\ UNCHANGED poolVars
      /\ Turn("valid")
      /\ UNCHANGED <<wakeup, selectedKeys, cur, selectorTasks>>
      /\ UNCHANGED <<unstarted, taskVars, registryVars, reads>>

(* continueRead and pool.submit: nothing before setInitialized; an         *)
(* IOException is only printed; end of stream closes.                      *)
ContinueRead ==
  LET c == cur.conn
  IN  /\ SelectorAt("read")
      /\ IF c \in unstarted \/ Broken(c) THEN UNCHANGED <<handlerVars, poolVars>>
         ELSE IF incoming[c] # <<>>
           THEN /\ Pool!Enqueue(c, incoming[c])
                /\ incoming' = [incoming EXCEPT ![c] = <<>>]
                /\ UNCHANGED <<chan, key, interest, peer, queueVars>>
           ELSE Close(c) /\ UNCHANGED poolVars
      /\ Turn("valid")
      /\ UNCHANGED <<wakeup, selectedKeys, cur, selectorTasks>>
      /\ UNCHANGED <<unstarted, taskVars, registryVars, reads>>

(* Mutant of ContinueWrite: a frame is removed after its first write.      *)
ContinueWriteOnce ==
  LET c == cur.conn
  IN  /\ SelectorAt("write")
      /\ writeQueue[c] # <<>>
      /\ \/ WriteAll(c) /\ UNCHANGED spc
         \/ /\ ~Broken(c)
            /\ writeQueue' = [writeQueue EXCEPT ![c] = Tail(@)]
            /\ Turn("keys")
            /\ UNCHANGED <<channelVars, begun, written, sent>>
         \/ Broken(c) /\ Close(c) /\ UNCHANGED spc
      /\ UNCHANGED <<wakeup, selectedKeys, cur, selectorTasks>>
      /\ UNCHANGED <<poolVars, unstarted, taskVars, registryVars, reads>>

(* One round of continueWrite's loop.  After an IOException it closes and  *)
(* goes round again with the same frame.                                   *)
ContinueWrite ==
  LET c == cur.conn
  IN  /\ SelectorAt("write")
      /\ writeQueue[c] # <<>>
      /\ \/ WriteAll(c) /\ UNCHANGED spc
         \/ WritePart(c) /\ Turn("keys")
         \/ Broken(c) /\ Close(c) /\ UNCHANGED spc
      /\ UNCHANGED <<wakeup, selectedKeys, cur, selectorTasks>>
      /\ UNCHANGED <<poolVars, unstarted, taskVars, registryVars, reads>>

LoopEnds ==
  /\ SelectorAt("write")
  /\ writeQueue[cur.conn] = <<>>
  /\ Turn("drained")
  /\ UNCHANGED <<handlerVars, wakeup, selectedKeys, cur, selectorTasks>>
  /\ UNCHANGED <<poolVars, unstarted, taskVars, registryVars, reads>>

(* The second isEmpty test.  shouldTerminate is a plain field that a pool  *)
(* thread writes: its old value may be read.                               *)
Drained ==
  LET c == cur.conn
  IN  /\ SelectorAt("drained")
      /\ \/ writeQueue[c] # <<>> /\ Turn("keys") /\ UNCHANGED handlerVars
         \/ writeQueue[c] = <<>> /\ Turn("ops") /\ UNCHANGED handlerVars
         \/ writeQueue[c] = <<>> /\ shouldTerminate[c] /\ Turn("keys") /\ Close(c)
      /\ UNCHANGED <<wakeup, selectedKeys, cur, selectorTasks>>
      /\ UNCHANGED <<poolVars, unstarted, taskVars, registryVars, reads>>

(* Mutant of ReadAgain: the key stays under OP_WRITE.                      *)
NeverReadAgain ==
  /\ SelectorAt("ops")
  /\ Turn(IF key[cur.conn] = "valid" THEN "keys" ELSE "dead")
  /\ UNCHANGED <<handlerVars, wakeup, selectedKeys, cur, selectorTasks>>
  /\ UNCHANGED <<poolVars, unstarted, taskVars, registryVars, reads>>

(* updateInterestedOps(chan, OP_READ) on the selector thread itself.       *)
ReadAgain ==
  /\ SelectorAt("ops")
  /\ IF key[cur.conn] = "valid"
       THEN interest' = [interest EXCEPT ![cur.conn] = "READ"] /\ Turn("keys")
       ELSE Turn("dead") /\ UNCHANGED interest
  /\ UNCHANGED <<chan, key, peer, incoming, queueVars>>
  /\ UNCHANGED <<wakeup, selectedKeys, cur, selectorTasks>>
  /\ UNCHANGED <<poolVars, unstarted, taskVars, registryVars, reads>>

SelectorStep ==
  \/ Select \/ RunTask \/ TasksRun
  \/ NextKey \/ KeysDone \/ IsReadable \/ IsValid \/ IsWritable
  \/ ContinueRead \/ ContinueWrite \/ LoopEnds \/ Drained \/ ReadAgain
  \/ \E c \in Conn : HandleAccept(c)
-----------------------------------------------------------------------------
(* The pool threads.                                                       *)
At(c, label) == ppc[c] = label

Goto(c, label) == ppc' = [ppc EXCEPT ![c] = label]

(* The start task of handleAccept.  Its actor is the protocol, that of the *)
(* read tasks is the handler: they are not ordered by the pool.            *)
Start(c) ==
  /\ c \in unstarted
  /\ unstarted' = unstarted \ {c}
  /\ UNCHANGED <<handlerVars, selectorVars, poolVars, taskVars, registryVars, reads>>

BeginTask(c) ==
  /\ At(c, "idle")
  /\ Pool!Begin(c)
  /\ buf' = [buf EXCEPT ![c] = Head(tasks[c])]
  /\ Goto(c, "decode")
  /\ UNCHANGED <<request, reply, left, target>>
  /\ UNCHANGED <<handlerVars, selectorVars, unstarted, registryVars, reads>>

(* The task returns or throws: what is left in its buffer is dropped.      *)
EndTask(c) ==
  /\ Pool!Finish(c)
  /\ buf' = [buf EXCEPT ![c] = <<>>]
  /\ request' = [request EXCEPT ![c] = NONE]
  /\ reply' = [reply EXCEPT ![c] = NONE]
  /\ Goto(c, "idle")
  /\ UNCHANGED <<left, target>>
  /\ UNCHANGED <<selectorVars, unstarted, registryVars, reads>>

IsError(c, r) ==
  \/ r \in {"BAD", "REFUSED"}
  \/ r = "SUBSCRIBE" /\ c \in members
  \/ r = "SEND" /\ c \notin members

Reply(c, r) ==
  CASE IsError(c, r)    -> "ERROR"
    [] r = "CONNECT"    -> "CONNECTED"
    [] r = "SEND"       -> "MESSAGE"
    [] OTHER            -> "RECEIPT"

Recipients(c, r) ==
  CASE r \in {"UNSUBSCRIBE", "DISCONNECT"} -> {}
    [] r = "SEND" /\ c \in members         -> members
    [] OTHER                               -> {c}

(* unsubscribe throws if the connection is not in a topic that exists.     *)
Throws(c, r) == r = "UNSUBSCRIBE" /\ topicExists /\ c \notin members

(* decodeNextByte completes a request; process up to its first send.       *)
Decode(c) ==
  LET r == Head(buf[c])
  IN  /\ At(c, "decode")
      /\ buf[c] # <<>>
      /\ buf' = [buf EXCEPT ![c] = Tail(@)]
      /\ request' = [request EXCEPT ![c] = r]
      /\ reply' = [reply EXCEPT ![c] = Reply(c, r)]
      /\ left' = [left EXCEPT ![c] = Recipients(c, r)]
      /\ Goto(c, IF Throws(c, r) THEN "throw" ELSE "send")
      /\ shouldTerminate' =
           [shouldTerminate EXCEPT ![c] = @ \/ IsError(c, r) \/ r = "DISCONNECT"]
      /\ topicExists' = (topicExists \/ (r = "SUBSCRIBE" /\ c \in activeConnections))
      /\ members' = CASE r = "SUBSCRIBE"   -> members \cup ({c} \cap activeConnections)
                      [] r = "UNSUBSCRIBE" -> members \ {c}
                      [] OTHER             -> members
      /\ UNCHANGED <<target, activeConnections, poolVars>>
      /\ UNCHANGED <<handlerVars, selectorVars, unstarted, reads>>

(* The buffer has no further request, or process has thrown.               *)
Return(c) ==
  /\ \/ At(c, "decode") /\ buf[c] = <<>>
     \/ At(c, "throw")
  /\ EndTask(c)
  /\ UNCHANGED handlerVars

(* connections.send: a handler that is still in the map queues the frame,  *)
Send(c, d) ==
  /\ At(c, "send")
  /\ d \in left[c]
  /\ left' = [left EXCEPT ![c] = @ \ {d}]
  /\ IF d \in activeConnections
       THEN /\ Queue(d, reply[c])
            /\ target' = [target EXCEPT ![c] = d]
            /\ Goto(c, "ask")
       ELSE UNCHANGED <<handlerVars, target, ppc>>
  /\ UNCHANGED <<buf, request, reply, poolVars>>
  /\ UNCHANGED <<selectorVars, unstarted, registryVars, reads>>

(* Mutant of Ask: not if OP_WRITE is already set.                          *)
AskOnce(c) ==
  /\ At(c, "ask")
  /\ selectorTasks' = IF interest[target[c]] = "WRITE" THEN selectorTasks
                      ELSE Append(selectorTasks, target[c])
  /\ Goto(c, "wake")
  /\ UNCHANGED <<handlerVars, spc, wakeup, selectedKeys, cur>>
  /\ UNCHANGED <<buf, request, reply, left, target, poolVars, unstarted, registryVars, reads>>

(* makes a task for the selector thread that sets OP_WRITE,                *)
Ask(c) ==
  /\ At(c, "ask")
  /\ selectorTasks' = Append(selectorTasks, target[c])
  /\ Goto(c, "wake")
  /\ UNCHANGED <<handlerVars, spc, wakeup, selectedKeys, cur>>
  /\ UNCHANGED <<buf, request, reply, left, target, poolVars, unstarted, registryVars, reads>>

(* Mutant of Wake: it does not.                                            *)
WakeNot(c) ==
  /\ At(c, "wake")
  /\ target' = [target EXCEPT ![c] = NONE]
  /\ Goto(c, "send")
  /\ UNCHANGED <<handlerVars, selectorVars>>
  /\ UNCHANGED <<buf, request, reply, left, poolVars, unstarted, registryVars, reads>>

(* and wakes the selector up.                                              *)
Wake(c) ==
  /\ At(c, "wake")
  /\ wakeup' = TRUE
  /\ target' = [target EXCEPT ![c] = NONE]
  /\ Goto(c, "send")
  /\ UNCHANGED <<handlerVars, spc, selectedKeys, cur, selectorTasks>>
  /\ UNCHANGED <<buf, request, reply, left, poolVars, unstarted, registryVars, reads>>

(* All is sent.  DISCONNECT and a refused CONNECT call                     *)
(* connections.disconnect, which throws if the handler is gone.            *)
Leave(c) ==
  /\ At(c, "send")
  /\ left[c] = {}
  /\ IF request[c] \in {"DISCONNECT", "REFUSED"}
       THEN /\ members' = members \ {c}
            /\ activeConnections' = activeConnections \ {c}
            /\ IF c \in activeConnections THEN Close(c) /\ Goto(c, "served")
               ELSE Goto(c, "throw") /\ UNCHANGED handlerVars
       ELSE Goto(c, "served") /\ UNCHANGED <<handlerVars, members, activeConnections>>
  /\ UNCHANGED <<buf, request, reply, left, target, poolVars>>
  /\ UNCHANGED <<selectorVars, unstarted, shouldTerminate, topicExists, reads>>

(* Mutant of Served: the task goes on with its buffer.                     *)
ServedGoOn(c) ==
  /\ At(c, "served")
  /\ Goto(c, "decode")
  /\ UNCHANGED <<handlerVars, poolVars, buf, request, reply, left, target>>
  /\ UNCHANGED <<selectorVars, unstarted, registryVars, reads>>

(* process has returned: "if (protocol.shouldTerminate()) close()".        *)
Served(c) ==
  /\ At(c, "served")
  /\ IF shouldTerminate[c]
       THEN Close(c) /\ EndTask(c)
       ELSE /\ Goto(c, "decode")
            /\ UNCHANGED <<handlerVars, poolVars, buf, request, reply, left, target>>
            /\ UNCHANGED <<selectorVars, unstarted, registryVars, reads>>

PoolStep(c) ==
  \/ Start(c) \/ BeginTask(c) \/ Decode(c) \/ Return(c)
  \/ Ask(c) \/ Wake(c) \/ Leave(c) \/ Served(c)
  \/ \E d \in Conn : Send(c, d)
-----------------------------------------------------------------------------
(* A client sends any of its requests, without waiting for an answer.      *)
ClientStep(c) ==
  /\ \/ /\ reads[c] < MaxFrames[c]
        /\ \E r \in ClientFrames[c] : Arrive(c, r)
        /\ reads' = [reads EXCEPT ![c] = @ + 1]
     \/ HangUp(c) /\ UNCHANGED reads
  /\ UNCHANGED <<selectorVars, poolVars, unstarted, taskVars, registryVars>>

Next == SelectorStep \/ \E c \in Conn : PoolStep(c) \/ ClientStep(c)

Spec == Init /\ [][Next]_vars

(* The selector thread and the pool threads run on.                        *)
FairSpec ==
  /\ Spec
  /\ WF_vars(SelectorStep)
  /\ \A c \in Conn : WF_vars(PoolStep(c))
=============================================================================
