---------------------------- MODULE Reactor_proofs ----------------------------
(***************************************************************************)
(* What the reactor server keeps, for any connections, requests and        *)
(* clients that break: no frame is lost, reordered or forgotten between    *)
(* the pool threads and the selector thread, and no wakeup is.             *)
(***************************************************************************)
EXTENDS ReactorInvariant, SequenceTheorems, TLAPS

(* At first nobody is connected and nothing is queued.                     *)
LEMMA InitInv == Init => ReactorInv
<1> SUFFICES ASSUME Init PROVE ReactorInv
  OBVIOUS
<1> USE HandlerAssumption, RequestsAssumption DEF Init, HandlerInit, Pool!Init
<1>1. TypeOK
  <2>1. \A S : <<>> \in Seq(S)
    OBVIOUS
  <2>2. /\ incoming \in [Conn -> Seq(Request)]
        /\ writeQueue \in [Conn -> Seq(ServerFrame)]
        /\ written \in [Conn -> Seq(ServerFrame)]
        /\ sent \in [Conn -> Seq(ServerFrame)]
        /\ tasks \in [Conn -> Seq(Seq(Request))]
        /\ buf \in [Conn -> Seq(Request)]
        /\ selectorTasks \in Seq(Conn)
    BY <2>1
  <2> QED BY <2>2 DEF TypeOK, SelectorLabel, TaskLabel, AcceptKey
<1>2. CurrentKey /\ QueuedSinceTest
  BY DEF CurrentKey, QueuedSinceTest, Handling
<1>3. \A c \in Conn : SendsFrame(c) /\ NothingBefore(c) /\ NothingRead(c) /\ PartIsKept(c)
  BY DEF SendsFrame, NothingBefore, NothingRead, PartIsKept
<1>4. WholeInOrder /\ QueuedIsPending /\ TasksSignalled
  BY DEF WholeInOrder, QueuedIsPending, TasksSignalled
<1> QED BY <1>1, <1>2, <1>3, <1>4 DEF ReactorInv

(* The steps of the selector thread keep the types; what it reads and      *)
(* writes in the middle of a key is that of a connection.                  *)
LEMMA SelectorType ==
  ASSUME ReactorInv, SelectorStep
  PROVE  TypeOK'
<1> USE HandlerAssumption DEF TypeOK, SelectorLabel, TaskLabel, ServerFrame, AcceptKey, Turn, SelectorAt,
          handlerVars, channelVars, queueVars, poolVars, taskVars, registryVars, selectorVars
<1>0. TypeOK /\ CurrentKey
  BY DEF ReactorInv
<1>k. spc \in Handling => cur.conn \in Conn
  BY <1>0 DEF CurrentKey, ChannelKey
<1>1. CASE Select
  <2>1. Ready \subseteq [conn : Conn, ops : {"READ", "WRITE"}]
    BY <1>0 DEF Ready
  <2>2. selectedKeys' \subseteq [conn : Conn, ops : {"READ", "WRITE"}] \cup {AcceptKey}
    BY <1>1, <2>1 DEF Select
  <2>3. key' \in [Conn -> {"none", "valid", "cancelled", "gone"}]
    BY <1>0, <1>1 DEF Select
  <2> QED BY <1>0, <1>1, <2>2, <2>3 DEF Select
<1>2. CASE RunTask
  <2>1. Head(selectorTasks) \in Conn /\ Tail(selectorTasks) \in Seq(Conn)
    BY <1>0, <1>2 DEF RunTask
  <2> QED BY <1>0, <1>2, <2>1 DEF RunTask
<1>3. CASE TasksRun
  BY <1>0, <1>3 DEF TasksRun
<1>4. CASE NextKey
  BY <1>0, <1>4 DEF NextKey
<1>5. CASE KeysDone
  BY <1>0, <1>5 DEF KeysDone
<1>6. CASE IsReadable
  BY <1>0, <1>6 DEF IsReadable, Test
<1>7. CASE IsValid
  BY <1>0, <1>7 DEF IsValid
<1>8. CASE IsWritable
  BY <1>0, <1>8 DEF IsWritable, Test
<1>9. CASE ContinueRead
  <2>1. CASE UNCHANGED <<handlerVars, poolVars>>
    BY <1>0, <1>9, <2>1 DEF ContinueRead
  <2>2. CASE Close(cur.conn) /\ UNCHANGED poolVars
    BY <1>0, <1>9, <2>2 DEF ContinueRead, Close
  <2>3. CASE /\ Pool!Enqueue(cur.conn, incoming[cur.conn])
             /\ incoming' = [incoming EXCEPT ![cur.conn] = <<>>]
             /\ UNCHANGED <<chan, key, interest, peer, queueVars>>
    <3>1. cur.conn \in Conn
      BY <1>k, <1>9 DEF ContinueRead, Handling
    <3>2. incoming' \in [Conn -> Seq(Request)] /\ incoming[cur.conn] \in Seq(Request)
      BY <1>0, <2>3, <3>1
    <3>3. tasks' \in [Conn -> Seq(Seq(Request))]
      BY <1>0, <2>3, <3>1, <3>2 DEF Pool!Enqueue
    <3> QED BY <1>0, <1>9, <2>3, <3>2, <3>3 DEF ContinueRead, Pool!Enqueue
  <2> QED BY <1>9, <2>1, <2>2, <2>3 DEF ContinueRead
<1>10. CASE ContinueWrite
  <2>1. cur.conn \in Conn
    BY <1>k, <1>10 DEF ContinueWrite, Handling
  <2>2. CASE WriteAll(cur.conn) /\ UNCHANGED spc
    <3>1. /\ Head(writeQueue[cur.conn]) \in ServerFrame
          /\ Tail(writeQueue[cur.conn]) \in Seq(ServerFrame)
      BY <1>0, <1>10, <2>1 DEF ContinueWrite
    <3>2. /\ written' \in [Conn -> Seq(ServerFrame)]
          /\ writeQueue' \in [Conn -> Seq(ServerFrame)]
          /\ begun' \in [Conn -> BOOLEAN]
      BY <1>0, <2>1, <2>2, <3>1 DEF WriteAll
    <3> QED BY <1>0, <1>10, <2>2, <3>2 DEF ContinueWrite, WriteAll
  <2>3. CASE WritePart(cur.conn) /\ Turn("keys")
    BY <1>0, <1>10, <2>3 DEF ContinueWrite, WritePart
  <2>4. CASE Close(cur.conn) /\ UNCHANGED spc
    BY <1>0, <1>10, <2>4 DEF ContinueWrite, Close
  <2> QED BY <1>10, <2>2, <2>3, <2>4 DEF ContinueWrite
<1>11. CASE LoopEnds
  BY <1>0, <1>11 DEF LoopEnds
<1>12. CASE Drained
  <2>1. CASE UNCHANGED handlerVars
    BY <1>0, <1>12, <2>1 DEF Drained
  <2>2. CASE Close(cur.conn)
    BY <1>0, <1>12, <2>2 DEF Drained, Close
  <2> QED BY <1>12, <2>1, <2>2 DEF Drained
<1>13. CASE ReadAgain
  BY <1>0, <1>k, <1>13 DEF ReadAgain, Handling
<1>14. ASSUME NEW c \in Conn, HandleAccept(c) PROVE TypeOK'
  BY <1>0, <1>14 DEF HandleAccept, Register
<1> QED
  BY <1>1, <1>2, <1>3, <1>4, <1>5, <1>6, <1>7, <1>8, <1>9, <1>10, <1>11, <1>12, <1>13, <1>14
  DEF SelectorStep

(* So do those of a pool thread: it sends frames, and asks for             *)
(* connections.                                                            *)
LEMMA PoolType ==
  ASSUME ReactorInv, NEW c \in Conn, PoolStep(c)
  PROVE  TypeOK'
<1> USE HandlerAssumption DEF TypeOK, SelectorLabel, TaskLabel, ServerFrame, AcceptKey, At, Goto,
          handlerVars, channelVars, queueVars, poolVars, taskVars, registryVars, selectorVars
<1>0. TypeOK /\ SendsFrame(c)
  BY DEF ReactorInv
<1>1. CASE Start(c)
  BY <1>0, <1>1 DEF Start
<1>2. CASE BeginTask(c)
  <2>1. Head(tasks[c]) \in Seq(Request) /\ Tail(tasks[c]) \in Seq(Seq(Request))
    BY <1>0, <1>2 DEF BeginTask, Pool!Begin
  <2>2. /\ buf' \in [Conn -> Seq(Request)]
        /\ running' \in [Conn -> Seq(Request) \cup {NONE}]
        /\ tasks' \in [Conn -> Seq(Seq(Request))]
    BY <1>0, <1>2, <2>1 DEF BeginTask, Pool!Begin
  <2> QED BY <1>0, <1>2, <2>2 DEF BeginTask, Pool!Begin
<1>3. CASE Decode(c)
  <2> DEFINE r == Head(buf[c])
  <2>1. r \in Request /\ Tail(buf[c]) \in Seq(Request)
    BY <1>0, <1>3 DEF Decode
  <2>2. Reply(c, r) \in ServerFrame /\ Recipients(c, r) \subseteq Conn
    BY <1>0 DEF Reply, Recipients
  <2>3. topicExists' \in BOOLEAN /\ members' \subseteq Conn /\ shouldTerminate' \in [Conn -> BOOLEAN]
    BY <1>0, <1>3 DEF Decode
  <2>4. Throws(c, r) \in BOOLEAN
    BY DEF Throws
  <2>5. ppc' \in [Conn -> TaskLabel]
    BY <1>0, <1>3, <2>4 DEF Decode
  <2> HIDE DEF r
  <2> QED BY <1>0, <1>3, <2>1, <2>2, <2>3, <2>5 DEF Decode, r
<1>4. CASE Return(c)
  <2>1. /\ buf' \in [Conn -> Seq(Request)]
        /\ running' \in [Conn -> Seq(Request) \cup {NONE}]
    BY <1>0, <1>4 DEF Return, EndTask, Pool!Finish
  <2> QED BY <1>0, <1>4, <2>1 DEF Return, EndTask, Pool!Finish
<1>5. CASE Ask(c)
  <2>1. selectorTasks' \in Seq(Conn)
    BY <1>0, <1>5 DEF Ask, SendsFrame
  <2> QED BY <1>0, <1>5, <2>1 DEF Ask
<1>6. CASE Wake(c)
  BY <1>0, <1>6 DEF Wake
<1>7. CASE Leave(c)
  <2>1. ppc' \in [Conn -> TaskLabel] /\ members' \subseteq Conn /\ activeConnections' \subseteq Conn
    BY <1>0, <1>7 DEF Leave
  <2>2. CASE Close(c)
    BY <1>0, <1>7, <2>1, <2>2 DEF Leave, Close
  <2>3. CASE UNCHANGED handlerVars
    BY <1>0, <1>7, <2>1, <2>3 DEF Leave
  <2> QED BY <1>7, <2>2, <2>3 DEF Leave
<1>8. CASE Served(c)
  <2>1. CASE shouldTerminate[c]
    <3>1. Close(c) /\ EndTask(c)
      BY <1>8, <2>1 DEF Served
    <3>2. /\ buf' \in [Conn -> Seq(Request)]
          /\ running' \in [Conn -> Seq(Request) \cup {NONE}]
      BY <1>0, <3>1 DEF EndTask, Pool!Finish
    <3> QED BY <1>0, <3>1, <3>2 DEF Close, EndTask, Pool!Finish
  <2>2. CASE ~shouldTerminate[c]
    BY <1>0, <1>8, <2>2 DEF Served
  <2> QED BY <2>1, <2>2
<1>9. ASSUME NEW d \in Conn, Send(c, d) PROVE TypeOK'
  <2>1. CASE Queue(d, reply[c]) /\ target' = [target EXCEPT ![c] = d] /\ Goto(c, "ask")
    <3>1. reply[c] \in ServerFrame
      BY <1>0, <1>9 DEF Send, SendsFrame
    <3>2. /\ Append(writeQueue[d], reply[c]) \in Seq(ServerFrame)
          /\ Append(sent[d], reply[c]) \in Seq(ServerFrame)
      BY <1>0, <3>1
    <3>3. writeQueue' \in [Conn -> Seq(ServerFrame)] /\ sent' \in [Conn -> Seq(ServerFrame)]
      BY <1>0, <2>1, <3>2 DEF Queue
    <3> QED BY <1>0, <1>9, <2>1, <3>3 DEF Send, Queue
  <2>2. CASE UNCHANGED <<handlerVars, target, ppc>>
    BY <1>0, <1>9, <2>2 DEF Send
  <2> QED BY <1>9, <2>1, <2>2 DEF Send
<1> QED BY <1>1, <1>2, <1>3, <1>4, <1>5, <1>6, <1>7, <1>8, <1>9 DEF PoolStep

(* So do those of a client.                                                *)
LEMMA ClientType ==
  ASSUME ReactorInv, NEW c \in Conn, ClientStep(c)
  PROVE  TypeOK'
<1> USE DEF TypeOK, SelectorLabel, TaskLabel, ServerFrame, AcceptKey,
          handlerVars, channelVars, queueVars, poolVars, taskVars, registryVars, selectorVars
<1>0. TypeOK
  BY DEF ReactorInv
<1>1. ASSUME NEW r \in ClientFrames[c], Arrive(c, r), reads' = [reads EXCEPT ![c] = @ + 1],
             UNCHANGED <<selectorVars, poolVars, unstarted, taskVars, registryVars>>
      PROVE  TypeOK'
  <2>1. r \in Request
    BY <1>1, RequestsAssumption
  <2>2. Append(incoming[c], r) \in Seq(Request)
    BY <1>0, <2>1
  <2>3. incoming' \in [Conn -> Seq(Request)]
    BY <1>0, <1>1, <2>2 DEF Arrive
  <2>4. reads' \in [Conn -> Nat]
    BY <1>0, <1>1
  <2> QED BY <1>0, <1>1, <2>3, <2>4 DEF Arrive
<1>2. CASE HangUp(c) /\ UNCHANGED reads /\
           UNCHANGED <<selectorVars, poolVars, unstarted, taskVars, registryVars>>
  <2>1. peer' = [peer EXCEPT ![c] = "closed"] \/ peer' = [peer EXCEPT ![c] = "reset"]
    BY <1>2 DEF HangUp
  <2>2. peer' \in [Conn -> {"up", "closed", "reset"}]
    BY <1>0, <2>1
  <2> QED BY <1>0, <1>2, <2>2 DEF HangUp
<1> QED BY <1>1, <1>2 DEF ClientStep

(* What is true of one connection, whatever the selector thread does.      *)
ConnFacts(d) == SendsFrame(d) /\ NothingBefore(d) /\ NothingRead(d) /\ PartIsKept(d)

(* The selector thread reads only from a channel that is accepted and      *)
(* whose protocol is started, and takes a frame only when all of it is     *)
(* written.                                                                *)
LEMMA SelectorConn ==
  ASSUME ReactorInv, SelectorStep, NEW d \in Conn
  PROVE  ConnFacts(d)'
<1> USE DEF handlerVars, channelVars, queueVars, poolVars, taskVars, registryVars, selectorVars,
            SelectorAt, Turn, ConnFacts
<1> DEFINE Kept == UNCHANGED <<writeQueue, begun, tasks, unstarted, taskVars, activeConnections>>
<1>0. TypeOK /\ CurrentKey /\ ConnFacts(d)
  BY DEF ReactorInv
<1>q. ASSUME Kept, chan'[d] = "none" => chan[d] = "none" /\ key'[d] = key[d]
      PROVE  ConnFacts(d)'
  BY <1>0, <1>q DEF SendsFrame, NothingBefore, NothingRead, PartIsKept
<1>k. spc \in Handling => cur.conn \in Conn
  BY <1>0 DEF CurrentKey, ChannelKey
<1>c. ASSUME NEW c \in Conn, Close(c) PROVE chan'[d] = "none" => chan[d] = "none" /\ key'[d] = key[d]
  BY <1>0, <1>c DEF Close, TypeOK
<1>1. CASE Select
  BY <1>0, <1>1, <1>q DEF Select, TypeOK, NothingBefore
<1>2. CASE RunTask
  BY <1>2, <1>q DEF RunTask
<1>3. CASE TasksRun \/ NextKey \/ KeysDone
  BY <1>3, <1>q DEF TasksRun, NextKey, KeysDone
<1>4. CASE IsReadable \/ IsWritable \/ IsValid \/ LoopEnds
  BY <1>4, <1>q DEF IsReadable, IsWritable, Test, IsValid, LoopEnds
<1>5. CASE ContinueRead
  <2>1. CASE UNCHANGED <<handlerVars, poolVars>>
    BY <1>5, <2>1, <1>q DEF ContinueRead
  <2>2. CASE Close(cur.conn) /\ UNCHANGED poolVars
    BY <1>5, <1>k, <1>c, <2>2, <1>q DEF ContinueRead, Close, Handling
  <2>3. CASE /\ ~(cur.conn \in unstarted \/ Broken(cur.conn))
             /\ Pool!Enqueue(cur.conn, incoming[cur.conn])
             /\ UNCHANGED <<chan, key, interest, peer, queueVars>>
    <3>1. \/ cur.conn = d /\ d \notin unstarted /\ chan[d] # "none"
          \/ cur.conn # d /\ tasks'[d] = tasks[d]
      BY <1>0, <1>5, <1>k, <2>3 DEF Broken, Pool!Enqueue, TypeOK, ContinueRead, Handling
    <3> QED BY <1>0, <1>5, <2>3, <3>1
            DEF ContinueRead, SendsFrame, NothingBefore, NothingRead, PartIsKept
  <2> QED BY <1>5, <2>1, <2>2, <2>3 DEF ContinueRead
<1>6. CASE ContinueWrite
  <2>k. cur.conn \in Conn /\ writeQueue[cur.conn] # <<>>
    BY <1>6, <1>k DEF ContinueWrite, Handling
  <2>1. CASE WriteAll(cur.conn)
    <3>1. \/ cur.conn = d /\ ~begun'[d] /\ chan[d] # "none"
          \/ cur.conn # d /\ writeQueue'[d] = writeQueue[d] /\ begun'[d] = begun[d]
      BY <1>0, <2>k, <2>1 DEF WriteAll, Broken, TypeOK
    <3> QED BY <1>0, <1>6, <2>1, <3>1
            DEF ContinueWrite, WriteAll, SendsFrame, NothingBefore, NothingRead, PartIsKept
  <2>2. CASE WritePart(cur.conn)
    <3>1. begun'[d] => begun[d] \/ writeQueue[d] # <<>>
      BY <1>0, <2>k, <2>2 DEF WritePart, TypeOK
    <3> QED BY <1>0, <1>6, <2>2, <3>1
            DEF ContinueWrite, WritePart, SendsFrame, NothingBefore, NothingRead, PartIsKept
  <2>3. CASE Close(cur.conn)
    BY <1>6, <2>k, <2>3, <1>c, <1>q DEF ContinueWrite, Close
  <2> QED BY <1>6, <2>1, <2>2, <2>3 DEF ContinueWrite
<1>7. CASE Drained
  <2>1. CASE UNCHANGED handlerVars
    BY <1>7, <2>1, <1>q DEF Drained
  <2>2. CASE Close(cur.conn)
    BY <1>7, <1>k, <1>c, <2>2, <1>q DEF Drained, Close, Handling
  <2> QED BY <1>7, <2>1, <2>2 DEF Drained
<1>8. CASE ReadAgain
  BY <1>8, <1>q DEF ReadAgain
<1>9. ASSUME NEW c \in Conn, HandleAccept(c) PROVE ConnFacts(d)'
  <2>1. CASE c = d
    <3>1. chan'[d] = "open" /\ tasks[d] = <<>> /\ ppc[d] = "idle"
      BY <1>0, <1>9, <2>1 DEF HandleAccept, Register, TypeOK, NothingBefore
    <3> QED BY <1>0, <1>9, <3>1
            DEF HandleAccept, Register, SendsFrame, NothingBefore, NothingRead, PartIsKept
  <2>2. CASE c # d
    <3>1. chan'[d] = chan[d] /\ key'[d] = key[d]
      BY <1>0, <1>9, <2>2 DEF HandleAccept, Register, TypeOK
    <3> QED BY <1>0, <1>9, <2>2, <3>1
            DEF HandleAccept, Register, SendsFrame, NothingBefore, NothingRead, PartIsKept
  <2> QED BY <2>1, <2>2
<1> QED
  BY <1>1, <1>2, <1>3, <1>4, <1>5, <1>6, <1>7, <1>8, <1>9 DEF SelectorStep

(* A pool thread runs a task only where one was submitted, and queues a    *)
(* frame only at a handler that is in activeConnections.                   *)
LEMMA PoolConn ==
  ASSUME ReactorInv, NEW c \in Conn, PoolStep(c), NEW d \in Conn
  PROVE  ConnFacts(d)'
<1> USE DEF handlerVars, channelVars, queueVars, poolVars, taskVars, registryVars, selectorVars,
            At, Goto, ConnFacts
<1>0. TypeOK /\ ConnFacts(c) /\ ConnFacts(d)
  BY DEF ReactorInv
<1>c. ASSUME Close(c) PROVE chan'[d] = "none" => chan[d] = "none" /\ key'[d] = key[d]
  BY <1>0, <1>c DEF Close, TypeOK
<1>1. CASE Start(c)
  BY <1>0, <1>1 DEF Start, SendsFrame, NothingBefore, NothingRead, PartIsKept
<1>2. CASE BeginTask(c)
  <2>1. \/ c = d /\ chan[d] # "none" /\ d \notin unstarted /\ ppc'[d] = "decode"
        \/ c # d /\ ppc'[d] = ppc[d] /\ tasks'[d] = tasks[d]
    BY <1>0, <1>2 DEF BeginTask, Pool!Begin, TypeOK, NothingBefore, NothingRead
  <2> QED BY <1>0, <1>2, <2>1 DEF BeginTask, SendsFrame, NothingBefore, NothingRead, PartIsKept
<1>3. CASE Decode(c)
  <2>1. Reply(c, Head(buf[c])) \in ServerFrame
    BY DEF Reply, ServerFrame
  <2>2. \/ /\ c = d /\ chan[d] # "none" /\ d \notin unstarted
           /\ ppc'[d] \in {"throw", "send"} /\ reply'[d] \in ServerFrame
        \/ c # d /\ ppc'[d] = ppc[d] /\ reply'[d] = reply[d]
    BY <1>0, <1>3, <2>1 DEF Decode, TypeOK, NothingBefore, NothingRead
  <2> QED BY <1>0, <1>3, <2>2 DEF Decode, SendsFrame, NothingBefore, NothingRead, PartIsKept
<1>e. ASSUME EndTask(c), UNCHANGED <<writeQueue, begun, activeConnections>>,
             chan'[d] = "none" => chan[d] = "none" /\ key'[d] = key[d]
      PROVE  ConnFacts(d)'
  <2>1. \/ c = d /\ ppc'[d] = "idle"
        \/ c # d /\ ppc'[d] = ppc[d] /\ reply'[d] = reply[d]
    BY <1>0, <1>e DEF EndTask, TypeOK
  <2> QED BY <1>0, <1>e, <2>1
          DEF EndTask, Pool!Finish, SendsFrame, NothingBefore, NothingRead, PartIsKept
<1>4. CASE Return(c)
  BY <1>4, <1>e DEF Return, EndTask
<1>5. CASE Ask(c)
  <2>1. \/ c = d /\ ppc[d] = "ask" /\ ppc'[d] = "wake"
        \/ c # d /\ ppc'[d] = ppc[d]
    BY <1>0, <1>5 DEF Ask, TypeOK
  <2> QED BY <1>0, <1>5, <2>1 DEF Ask, SendsFrame, NothingBefore, NothingRead, PartIsKept
<1>6. CASE Wake(c)
  <2>1. \/ c = d /\ ppc[d] = "wake" /\ ppc'[d] = "send"
        \/ c # d /\ ppc'[d] = ppc[d] /\ target'[d] = target[d]
    BY <1>0, <1>6 DEF Wake, TypeOK
  <2> QED BY <1>0, <1>6, <2>1 DEF Wake, SendsFrame, NothingBefore, NothingRead, PartIsKept
<1>7. CASE Leave(c)
  <2>1. chan'[d] = "none" => chan[d] = "none" /\ key'[d] = key[d]
    BY <1>7, <1>c DEF Leave
  <2>2. \/ c = d /\ ppc[d] = "send" /\ ppc'[d] \in {"served", "throw"}
        \/ c # d /\ ppc'[d] = ppc[d]
    BY <1>0, <1>7 DEF Leave, TypeOK
  <2>3. /\ UNCHANGED <<writeQueue, begun, tasks, unstarted, reply, target>>
        /\ d \in activeConnections' => d \in activeConnections
    BY <1>7 DEF Leave, Close
  <2> QED BY <1>0, <2>1, <2>2, <2>3 DEF SendsFrame, NothingBefore, NothingRead, PartIsKept
<1>8. CASE Served(c)
  <2>1. CASE shouldTerminate[c]
    BY <1>8, <2>1, <1>c, <1>e DEF Served, Close, EndTask
  <2>2. CASE ~shouldTerminate[c]
    <3>1. \/ c = d /\ ppc[d] = "served" /\ ppc'[d] = "decode"
          \/ c # d /\ ppc'[d] = ppc[d]
      BY <1>0, <1>8, <2>2 DEF Served, TypeOK
    <3> QED BY <1>0, <1>8, <2>2, <3>1 DEF Served, SendsFrame, NothingBefore, NothingRead, PartIsKept
  <2> QED BY <2>1, <2>2
<1>9. ASSUME NEW e \in Conn, Send(c, e) PROVE ConnFacts(d)'
  <2>1. CASE UNCHANGED <<handlerVars, target, ppc>>
    BY <1>0, <1>9, <2>1 DEF Send, SendsFrame, NothingBefore, NothingRead, PartIsKept
  <2>2. CASE /\ e \in activeConnections
             /\ Queue(e, reply[c]) /\ target' = [target EXCEPT ![c] = e] /\ Goto(c, "ask")
    <3>1. \/ c = d /\ ppc[d] = "send" /\ ppc'[d] = "ask" /\ target'[d] = e
          \/ c # d /\ ppc'[d] = ppc[d] /\ target'[d] = target[d]
      BY <1>0, <1>9, <2>2 DEF Send, TypeOK
    <3>2. \/ e = d /\ d \in activeConnections /\ writeQueue'[d] # <<>>
          \/ e # d /\ writeQueue'[d] = writeQueue[d]
      <4>1. writeQueue[e] \in Seq(ServerFrame) /\ reply[c] \in ServerFrame
        BY <1>0, <1>9 DEF TypeOK, Send, SendsFrame
      <4>2. Append(writeQueue[e], reply[c]) # <<>>
        BY <4>1
      <4> QED BY <1>0, <2>2, <4>2 DEF Queue, TypeOK
    <3>3. SendsFrame(d)'
      BY <1>0, <1>9, <3>1 DEF Send, SendsFrame
    <3>4. NothingRead(d)'
      BY <1>0, <1>9, <3>1 DEF Send, NothingRead
    <3>5. PartIsKept(d)' /\ NothingBefore(d)'
      BY <1>0, <1>9, <2>2, <3>1, <3>2 DEF Send, Queue, PartIsKept, NothingBefore
    <3> QED BY <3>3, <3>4, <3>5
  <2> QED BY <1>9, <2>1, <2>2 DEF Send
<1> QED BY <1>1, <1>2, <1>3, <1>4, <1>5, <1>6, <1>7, <1>8, <1>9 DEF PoolStep

(* A client touches its own end alone.                                     *)
LEMMA ClientConn ==
  ASSUME ReactorInv, NEW c \in Conn, ClientStep(c), NEW d \in Conn
  PROVE  ConnFacts(d)'
  BY DEF ReactorInv, ClientStep, Arrive, HangUp, ConnFacts, SendsFrame, NothingBefore,
         NothingRead, PartIsKept, queueVars, poolVars, taskVars, registryVars

(* A frame that is queued follows all others ...                           *)
LEMMA QueuedLast ==
  ASSUME NEW w \in Seq(ServerFrame), NEW q \in Seq(ServerFrame), NEW f \in ServerFrame
  PROVE  w \o Append(q, f) = Append(w \o q, f)
  OBVIOUS

(* ... and the one that is written was the first.                          *)
LEMMA WrittenFirst ==
  ASSUME NEW w \in Seq(ServerFrame), NEW q \in Seq(ServerFrame), q # <<>>
  PROVE  Append(w, Head(q)) \o Tail(q) = w \o q
  OBVIOUS

(* Every step keeps the order of the frames: they leave the queue at its   *)
(* head when they are written, and enter at its end when they are sent.    *)
LEMMA OrderStep ==
  ASSUME ReactorInv, Next
  PROVE  WholeInOrder'
<1> USE DEF handlerVars, channelVars, queueVars
<1>0. TypeOK /\ CurrentKey /\ WholeInOrder
  BY DEF ReactorInv
<1>q. ASSUME UNCHANGED <<writeQueue, written, sent>> PROVE WholeInOrder'
  BY <1>0, <1>q DEF WholeInOrder
<1>1. CASE SelectorStep
  <2>1. CASE ContinueWrite
    <3>1. cur.conn \in Conn /\ writeQueue[cur.conn] # <<>>
      BY <1>0, <2>1 DEF ContinueWrite, SelectorAt, Handling, CurrentKey, ChannelKey
    <3>2. CASE WriteAll(cur.conn)
      <4> SUFFICES ASSUME NEW d \in Conn PROVE written'[d] \o writeQueue'[d] = sent'[d]
        BY DEF WholeInOrder
      <4>1. CASE d = cur.conn
        <5>1. /\ written'[d] = Append(written[d], Head(writeQueue[d]))
              /\ writeQueue'[d] = Tail(writeQueue[d])
              /\ sent'[d] = sent[d]
          BY <1>0, <3>2, <4>1 DEF WriteAll, TypeOK
        <5>2. written[d] \in Seq(ServerFrame) /\ writeQueue[d] \in Seq(ServerFrame)
          BY <1>0 DEF TypeOK
        <5>3. Append(written[d], Head(writeQueue[d])) \o Tail(writeQueue[d])
                = written[d] \o writeQueue[d]
          BY <3>1, <4>1, <5>2, WrittenFirst
        <5> QED BY <1>0, <5>1, <5>3 DEF WholeInOrder
      <4>2. CASE d # cur.conn
        BY <1>0, <3>2, <4>2 DEF WriteAll, TypeOK, WholeInOrder
      <4> QED BY <4>1, <4>2
    <3>3. CASE WritePart(cur.conn) \/ Close(cur.conn)
      BY <3>3, <1>q DEF WritePart, Close
    <3> QED BY <2>1, <3>2, <3>3 DEF ContinueWrite
  <2>2. CASE ~ContinueWrite
    <3>1. UNCHANGED queueVars
      BY <1>1, <2>2 DEF SelectorStep, Select, RunTask, TasksRun, NextKey, KeysDone, IsReadable,
        IsWritable, Test, IsValid, ContinueRead, LoopEnds, Drained, ReadAgain, HandleAccept,
        Register, Close
    <3> QED BY <3>1, <1>q
  <2> QED BY <2>1, <2>2
<1>2. ASSUME NEW c \in Conn, PoolStep(c) PROVE WholeInOrder'
  <2>1. ASSUME NEW e \in Conn, Send(c, e), e \in activeConnections, Queue(e, reply[c])
        PROVE  WholeInOrder'
    <3> SUFFICES ASSUME NEW d \in Conn PROVE written'[d] \o writeQueue'[d] = sent'[d]
      BY DEF WholeInOrder
    <3>1. CASE d = e
      <4>1. /\ writeQueue'[d] = Append(writeQueue[d], reply[c])
            /\ sent'[d] = Append(sent[d], reply[c])
            /\ written'[d] = written[d]
        BY <1>0, <2>1, <3>1 DEF Queue, TypeOK
      <4>2. /\ reply[c] \in ServerFrame
            /\ written[d] \in Seq(ServerFrame) /\ writeQueue[d] \in Seq(ServerFrame)
        BY <1>0, <2>1 DEF ReactorInv, SendsFrame, Send, At, TypeOK
      <4>3. written[d] \o Append(writeQueue[d], reply[c])
              = Append(written[d] \o writeQueue[d], reply[c])
        BY <4>2, QueuedLast
      <4> QED BY <1>0, <4>1, <4>3 DEF WholeInOrder
    <3>2. CASE d # e
      BY <1>0, <2>1, <3>2 DEF Queue, TypeOK, WholeInOrder
    <3> QED BY <3>1, <3>2
  <2>2. CASE \A e \in Conn : ~(Send(c, e) /\ e \in activeConnections)
    <3>1. UNCHANGED queueVars
      BY <1>2, <2>2 DEF PoolStep, Start, BeginTask, Decode, Return, Ask, Wake, Leave, Served, Send,
        Close, EndTask
    <3> QED BY <3>1, <1>q
  <2> QED BY <2>1, <2>2 DEF Send
<1>3. ASSUME NEW c \in Conn, ClientStep(c) PROVE WholeInOrder'
  BY <1>3, <1>q DEF ClientStep, Arrive, HangUp
<1> QED BY <1>1, <1>2, <1>3 DEF Next

(* The accept key is never handled as one that reads or writes.            *)
LEMMA CurrentStep ==
  ASSUME ReactorInv, Next
  PROVE  CurrentKey'
<1> USE DEF CurrentKey, Handling, SelectorAt, Turn, selectorVars
<1>0. TypeOK /\ CurrentKey
  BY DEF ReactorInv
<1>1. CASE NextKey
  BY <1>0, <1>1 DEF NextKey, TypeOK, ChannelKey
<1>2. CASE SelectorStep /\ ~NextKey
  BY <1>0, <1>2 DEF SelectorStep, Select, RunTask, TasksRun, KeysDone, IsReadable,
     IsWritable, Test, IsValid, ContinueRead, ContinueWrite, LoopEnds, Drained, ReadAgain,
     HandleAccept
<1>3. ASSUME NEW c \in Conn, PoolStep(c) \/ ClientStep(c) PROVE CurrentKey'
  <2>1. UNCHANGED <<spc, cur>>
    BY <1>3 DEF PoolStep, Start, BeginTask, Decode, Return, Ask, Wake, Leave, Served, Send,
      EndTask, ClientStep
  <2> QED BY <1>0, <2>1 DEF ChannelKey
<1> QED BY <1>1, <1>2, <1>3 DEF Next

(* A task at the end of the list is one more; the others keep their index. *)
LEMMA TaskAppended ==
  ASSUME selectorTasks \in Seq(Conn), NEW c \in Conn, selectorTasks' = Append(selectorTasks, c),
         NEW d
  PROVE  InTasks(d)' <=> InTasks(d) \/ d = c
<1>1. /\ DOMAIN selectorTasks' = DOMAIN selectorTasks \cup {Len(selectorTasks) + 1}
      /\ \A i \in DOMAIN selectorTasks : selectorTasks'[i] = selectorTasks[i]
      /\ selectorTasks'[Len(selectorTasks) + 1] = c
  OBVIOUS
<1> QED BY <1>1 DEF InTasks

(* Taking the first task leaves the tasks of the other connections.        *)
LEMMA TaskTaken ==
  ASSUME selectorTasks \in Seq(Conn), selectorTasks # <<>>, selectorTasks' = Tail(selectorTasks),
         NEW d, InTasks(d), d # Head(selectorTasks)
  PROVE  InTasks(d)'
<1>1. PICK i \in DOMAIN selectorTasks : selectorTasks[i] = d
  BY DEF InTasks
<1>2. /\ i \in 2..Len(selectorTasks)
      /\ DOMAIN selectorTasks' = 1..(Len(selectorTasks) - 1)
      /\ selectorTasks'[i - 1] = selectorTasks[i]
      /\ Len(selectorTasks) \in Nat
  BY <1>1
<1>3. i - 1 \in DOMAIN selectorTasks'
  BY <1>2
<1> QED BY <1>1, <1>2, <1>3 DEF InTasks

(* A task to set OP_WRITE for d is there or about to be.                   *)
Pending(d) == InTasks(d) \/ Asking(d)

(* What a pool thread leaves behind: whoever asked has made its task, and  *)
(* whoever queues a frame is about to ask.                                 *)
LEMMA PoolPending ==
  ASSUME ReactorInv, NEW c \in Conn, PoolStep(c), NEW d \in Conn
  PROVE  /\ Pending(d) => Pending(d)'
         /\ writeQueue'[d] # <<>> => writeQueue[d] # <<>> \/ Pending(d)'
<1> USE DEF handlerVars, channelVars, queueVars, poolVars, taskVars, registryVars, selectorVars,
            At, Goto
<1>0. TypeOK /\ SendsFrame(c)
  BY DEF ReactorInv
<1>q. ASSUME UNCHANGED <<selectorTasks, target, writeQueue>>, ~At(c, "ask"),
             \A e \in Conn \ {c} : ppc'[e] = ppc[e]
      PROVE  Pending(d) => Pending(d)'
  BY <1>q DEF Pending, InTasks, Asking
<1>1. CASE Start(c)
  BY <1>1 DEF Start, Pending, InTasks, Asking
<1>2. CASE BeginTask(c) \/ Decode(c) \/ Return(c)
  <2>1. /\ UNCHANGED <<selectorTasks, target, writeQueue>> /\ ~At(c, "ask")
        /\ \A e \in Conn \ {c} : ppc'[e] = ppc[e]
    BY <1>0, <1>2 DEF BeginTask, Decode, Return, EndTask, TypeOK
  <2> QED BY <2>1, <1>q
<1>3. CASE Leave(c) \/ Served(c)
  <2>1. /\ UNCHANGED <<selectorTasks, target, writeQueue>> /\ ~At(c, "ask")
        /\ \A e \in Conn \ {c} : ppc'[e] = ppc[e]
    BY <1>0, <1>3 DEF Leave, Served, EndTask, Close, TypeOK
  <2> QED BY <2>1, <1>q
<1>4. CASE Ask(c)
  <2>1. /\ target[c] \in Conn /\ selectorTasks' = Append(selectorTasks, target[c])
        /\ \A e \in Conn \ {c} : ppc'[e] = ppc[e]
        /\ UNCHANGED <<target, writeQueue>>
    BY <1>0, <1>4 DEF Ask, SendsFrame, TypeOK
  <2>2. InTasks(d)' <=> InTasks(d) \/ d = target[c]
    BY <1>0, <2>1, TaskAppended DEF TypeOK
  <2>3. Asking(d) => d = target[c] \/ Asking(d)'
    BY <2>1 DEF Asking
  <2> QED BY <2>1, <2>2, <2>3 DEF Pending
<1>5. CASE Wake(c)
  <2>1. /\ UNCHANGED <<selectorTasks, writeQueue>> /\ ~At(c, "ask")
        /\ \A e \in Conn \ {c} : ppc'[e] = ppc[e] /\ target'[e] = target[e]
    BY <1>0, <1>5 DEF Wake, TypeOK
  <2> QED BY <2>1 DEF Pending, InTasks, Asking
<1>6. ASSUME NEW e \in Conn, Send(c, e)
      PROVE  /\ Pending(d) => Pending(d)'
             /\ writeQueue'[d] # <<>> => writeQueue[d] # <<>> \/ Pending(d)'
  <2>1. CASE UNCHANGED <<handlerVars, target, ppc>>
    BY <1>6, <2>1 DEF Send, Pending, InTasks, Asking
  <2>2. CASE Queue(e, reply[c]) /\ target' = [target EXCEPT ![c] = e] /\ Goto(c, "ask")
    <3>1. /\ ppc'[c] = "ask" /\ target'[c] = e /\ ppc[c] = "send"
          /\ \A x \in Conn \ {c} : ppc'[x] = ppc[x] /\ target'[x] = target[x]
          /\ selectorTasks' = selectorTasks
          /\ d # e => writeQueue'[d] = writeQueue[d]
      BY <1>0, <1>6, <2>2 DEF Send, Queue, TypeOK
    <3> QED BY <3>1 DEF Pending, InTasks, Asking
  <2> QED BY <1>6, <2>1, <2>2 DEF Send
<1> QED BY <1>1, <1>2, <1>3, <1>4, <1>5, <1>6 DEF PoolStep, Start, Leave, Served, BeginTask,
        Decode, Return, EndTask, Close

(* No pool thread makes a key valid or changes its interest.               *)
LEMMA PoolKeys ==
  ASSUME ReactorInv, NEW c \in Conn, PoolStep(c), NEW d \in Conn
  PROVE  /\ UNCHANGED <<interest, spc, cur>>
         /\ key'[d] = "valid" => key[d] = "valid"
<1> USE DEF handlerVars, channelVars, queueVars, poolVars, taskVars, registryVars, selectorVars
<1>0. TypeOK
  BY DEF ReactorInv
<1>1. ASSUME Close(c) PROVE key'[d] = "valid" => key[d] = "valid"
  BY <1>0, <1>1 DEF Close, TypeOK
<1>2. UNCHANGED key \/ Close(c)
  BY DEF PoolStep, Start, BeginTask, Decode, Return, Ask, Wake, Leave, Served, Send, Queue, EndTask
<1>3. UNCHANGED <<interest, spc, cur>>
  BY DEF PoolStep, Start, BeginTask, Decode, Return, Ask, Wake, Leave, Served, Send, Queue, EndTask,
    Close
<1> QED BY <1>1, <1>2, <1>3

(* The selector thread keeps every frame under OP_WRITE or a task.         *)
LEMMA SelectorPending ==
  ASSUME ReactorInv, SelectorStep
  PROVE  QueuedIsPending' /\ QueuedSinceTest'
<1> USE DEF handlerVars, channelVars, queueVars, poolVars, taskVars, registryVars, selectorVars,
            SelectorAt, Turn
<1>0. /\ TypeOK /\ CurrentKey /\ QueuedIsPending /\ QueuedSinceTest
      /\ \A d \in Conn : NothingBefore(d)
  BY DEF ReactorInv
<1>k. spc \in Handling => cur.conn \in Conn
  BY <1>0 DEF CurrentKey, ChannelKey
<1>a. UNCHANGED <<ppc, target>>
  BY DEF SelectorStep, Select, RunTask, TasksRun, NextKey, KeysDone, IsReadable, IsWritable, Test,
    IsValid, ContinueRead, ContinueWrite, LoopEnds, Drained, ReadAgain, HandleAccept
<1>q. ASSUME UNCHANGED <<selectorTasks, interest>>, spc' # "ops", spc # "dead",
             \A d \in Conn : /\ key'[d] = "valid" => key[d] = "valid"
                             /\ writeQueue'[d] # <<>> => writeQueue[d] # <<>>
      PROVE  QueuedIsPending' /\ QueuedSinceTest'
  BY <1>0, <1>a, <1>q DEF QueuedIsPending, QueuedSinceTest, InTasks, Asking, At
<1>c. ASSUME NEW c \in Conn, Close(c)
      PROVE  \A d \in Conn : key'[d] = "valid" => key[d] = "valid"
  BY <1>0, <1>c DEF Close, TypeOK
<1>1. CASE Select
  <2>1. \A d \in Conn : key'[d] = "valid" => key[d] = "valid"
    BY <1>0, <1>1 DEF Select
  <2> QED BY <1>1, <2>1, <1>q DEF Select
<1>2. CASE RunTask
  <2> DEFINE c == Head(selectorTasks)
  <2>1. CASE key[c] = "valid"
    <3>1. /\ UNCHANGED <<key, writeQueue, spc>> /\ spc = "tasks"
          /\ selectorTasks # <<>> /\ selectorTasks' = Tail(selectorTasks)
          /\ \A d \in Conn : interest'[d] = IF d = c THEN "WRITE" ELSE interest[d]
      BY <1>0, <1>2, <2>1 DEF RunTask, TypeOK
    <3>2. ASSUME NEW d \in Conn, InTasks(d), d # c PROVE InTasks(d)'
      BY <1>0, <3>1, <3>2, TaskTaken DEF TypeOK
    <3> HIDE DEF c
    <3>3. \A d \in Conn : Asking(d)' <=> Asking(d)
      BY <1>a DEF Asking, At
    <3>4. QueuedIsPending'
      BY <1>0, <3>1, <3>2, <3>3 DEF QueuedIsPending
    <3>5. QueuedSinceTest'
      BY <3>1 DEF QueuedSinceTest
    <3> QED BY <3>4, <3>5
  <2>2. CASE key[c] # "valid"
    BY <1>2, <2>2 DEF RunTask, QueuedIsPending, QueuedSinceTest
  <2> QED BY <2>1, <2>2
<1>3. CASE TasksRun \/ NextKey \/ KeysDone
  BY <1>3, <1>q DEF TasksRun, NextKey, KeysDone
<1>4. CASE IsReadable \/ IsWritable \/ IsValid \/ LoopEnds
  BY <1>4, <1>q DEF IsReadable, IsWritable, Test, IsValid, LoopEnds
<1>5. CASE ContinueRead
  <2>1. UNCHANGED key \/ Close(cur.conn)
    BY <1>5 DEF ContinueRead
  <2>2. \A d \in Conn : key'[d] = "valid" => key[d] = "valid"
    BY <1>5, <1>k, <1>c, <2>1 DEF ContinueRead, Handling
  <2>3. UNCHANGED <<selectorTasks, interest, writeQueue>> /\ spc' = "valid" /\ spc = "read"
    BY <1>5 DEF ContinueRead, Close
  <2> QED BY <2>2, <2>3, <1>q
<1>6. CASE ContinueWrite
  <2>1. /\ UNCHANGED <<selectorTasks, interest>> /\ spc = "write" /\ spc' \in {"write", "keys"}
        /\ writeQueue[cur.conn] # <<>> /\ cur.conn \in Conn
    BY <1>6, <1>k DEF ContinueWrite, WriteAll, WritePart, Close, Handling
  <2>2. \A d \in Conn : key'[d] = "valid" => key[d] = "valid"
    BY <1>6, <2>1, <1>c DEF ContinueWrite, WriteAll, WritePart
  <2>3. \A d \in Conn : writeQueue'[d] # <<>> => writeQueue[d] # <<>>
    <3>1. \A d \in Conn \ {cur.conn} : writeQueue'[d] = writeQueue[d]
      BY <1>0, <1>6 DEF ContinueWrite, WriteAll, WritePart, Close, TypeOK
    <3> QED BY <2>1, <3>1
  <2> QED BY <2>1, <2>2, <2>3, <1>q
<1>7. CASE Drained
  <2>1. UNCHANGED <<selectorTasks, interest, writeQueue, cur>> /\ spc = "drained"
    BY <1>7 DEF Drained, Close
  <2>2. \A d \in Conn : key'[d] = "valid" => key[d] = "valid"
    BY <1>7, <1>k, <1>c DEF Drained, Handling
  <2>3. CASE spc' = "ops"
    <3>1. writeQueue[cur.conn] = <<>>
      BY <1>7, <2>3 DEF Drained
    <3> QED BY <1>0, <1>a, <2>1, <2>2, <3>1
            DEF QueuedIsPending, QueuedSinceTest, InTasks, Asking, At
  <2>4. CASE spc' # "ops"
    BY <2>1, <2>2, <2>4, <1>q
  <2> QED BY <2>3, <2>4
<1>8. CASE ReadAgain
  <2>1. CASE key[cur.conn] = "valid"
    <3>1. /\ UNCHANGED <<selectorTasks, key, writeQueue>> /\ spc = "ops" /\ spc' = "keys"
          /\ cur.conn \in Conn
          /\ \A d \in Conn \ {cur.conn} : interest'[d] = interest[d]
      BY <1>0, <1>8, <1>k, <2>1 DEF ReadAgain, Handling, TypeOK
    <3> QED BY <1>0, <1>a, <3>1 DEF QueuedIsPending, QueuedSinceTest, InTasks, Asking, At
  <2>2. CASE key[cur.conn] # "valid"
    BY <1>8, <2>2 DEF ReadAgain, QueuedIsPending, QueuedSinceTest
  <2> QED BY <2>1, <2>2
<1>9. ASSUME NEW c \in Conn, HandleAccept(c) PROVE QueuedIsPending' /\ QueuedSinceTest'
  <2>1. /\ UNCHANGED <<selectorTasks, interest, writeQueue, spc>> /\ spc = "keys"
        /\ \A d \in Conn \ {c} : key'[d] = key[d]
        /\ writeQueue[c] = <<>>
    BY <1>0, <1>9 DEF HandleAccept, Register, TypeOK, NothingBefore
  <2> QED BY <1>0, <1>a, <2>1 DEF QueuedIsPending, QueuedSinceTest, InTasks, Asking, At
<1> QED
  BY <1>1, <1>2, <1>3, <1>4, <1>5, <1>6, <1>7, <1>8, <1>9 DEF SelectorStep

(* Every step keeps a task, or a thread about to make it, for every frame  *)
(* that waits under OP_READ.                                               *)
LEMMA PendingStep ==
  ASSUME ReactorInv, Next
  PROVE  QueuedIsPending' /\ QueuedSinceTest'
<1>0. TypeOK /\ CurrentKey /\ QueuedIsPending /\ QueuedSinceTest
  BY DEF ReactorInv
<1>1. CASE SelectorStep
  BY <1>1, SelectorPending
<1>2. ASSUME NEW c \in Conn, PoolStep(c) PROVE QueuedIsPending' /\ QueuedSinceTest'
  <2>1. ASSUME NEW d \in Conn
        PROVE  /\ UNCHANGED <<interest, spc, cur>>
               /\ key'[d] = "valid" => key[d] = "valid"
               /\ Pending(d) => Pending(d)'
               /\ writeQueue'[d] # <<>> => writeQueue[d] # <<>> \/ Pending(d)'
    BY <1>2, PoolPending, PoolKeys
  <2>2. QueuedIsPending'
    BY <1>0, <2>1 DEF QueuedIsPending, Pending
  <2>3. spc = "ops" => cur.conn \in Conn
    BY <1>0 DEF CurrentKey, Handling, ChannelKey
  <2>4. QueuedSinceTest'
    BY <1>0, <1>2, <2>1, <2>3 DEF QueuedSinceTest, Pending
  <2> QED BY <2>2, <2>4
<1>3. ASSUME NEW c \in Conn, ClientStep(c) PROVE QueuedIsPending' /\ QueuedSinceTest'
  <2>1. UNCHANGED <<spc, cur, key, interest, writeQueue, selectorTasks, ppc, target>>
    BY <1>3 DEF ClientStep, Arrive, HangUp, queueVars, selectorVars, taskVars
  <2> QED BY <1>0, <2>1 DEF QueuedIsPending, QueuedSinceTest, InTasks, Asking, At
<1> QED BY <1>1, <1>2, <1>3 DEF Next

(* select() takes the signal, but only to run the tasks.                   *)
LEMMA SignalStep ==
  ASSUME ReactorInv, Next
  PROVE  TasksSignalled'
<1> USE DEF handlerVars, channelVars, queueVars, poolVars, taskVars, registryVars, selectorVars,
            SelectorAt, Turn, At, Goto, TasksSignalled
<1>0. TypeOK /\ TasksSignalled
  BY DEF ReactorInv
<1>1. CASE SelectorStep
  <2>1. CASE Select \/ RunTask
    BY <2>1 DEF Select, RunTask
  <2>2. CASE TasksRun
    BY <2>2 DEF TasksRun
  <2>3. CASE ~(Select \/ RunTask \/ TasksRun)
    <3>1. UNCHANGED <<ppc, selectorTasks, wakeup>> /\ spc \notin {"tasks", "dead"}
      BY <1>1, <2>3 DEF SelectorStep, NextKey, KeysDone, IsReadable, IsWritable, Test,
        IsValid, ContinueRead, ContinueWrite, LoopEnds, Drained, ReadAgain, HandleAccept
    <3> QED BY <1>0, <3>1
  <2> QED BY <2>1, <2>2, <2>3
<1>2. ASSUME NEW c \in Conn, PoolStep(c) PROVE TasksSignalled'
  <2>1. CASE Wake(c)
    BY <2>1 DEF Wake
  <2>2. CASE Ask(c)
    <3>1. ppc'[c] = "wake"
      BY <1>0, <2>2 DEF Ask, TypeOK
    <3> QED BY <3>1
  <2>3. CASE ~Wake(c) /\ ~Ask(c)
    <3>1. UNCHANGED <<selectorTasks, wakeup, spc>> /\ (ppc[c] = "wake" => ppc' = ppc)
      BY <1>2, <2>3 DEF PoolStep, Start, BeginTask, Decode, Return, Leave, Served, Send, EndTask
    <3>2. \A d \in Conn \ {c} : ppc'[d] = ppc[d]
      <4>1. CASE Start(c) \/ BeginTask(c) \/ Decode(c) \/ Return(c)
        BY <1>0, <4>1 DEF Start, BeginTask, Decode, Return, EndTask, TypeOK
      <4>2. CASE Leave(c)
        BY <1>0, <4>2 DEF Leave, TypeOK
      <4>3. CASE Served(c)
        BY <1>0, <4>3 DEF Served, EndTask, TypeOK
      <4>4. ASSUME NEW e \in Conn, Send(c, e) PROVE \A d \in Conn \ {c} : ppc'[d] = ppc[d]
        BY <1>0, <4>4 DEF Send, TypeOK
      <4> QED BY <1>2, <2>3, <4>1, <4>2, <4>3, <4>4 DEF PoolStep
    <3> QED BY <1>0, <3>1, <3>2
  <2> QED BY <2>1, <2>2, <2>3
<1>3. ASSUME NEW c \in Conn, ClientStep(c) PROVE TasksSignalled'
  BY <1>0, <1>3 DEF ClientStep
<1> QED BY <1>1, <1>2, <1>3 DEF Next

(* Every step keeps the invariant.                                         *)
LEMMA NextInv == ReactorInv /\ [Next]_vars => ReactorInv'
<1> SUFFICES ASSUME ReactorInv, [Next]_vars PROVE ReactorInv'
  OBVIOUS
<1>1. CASE Next
  <2>1. TypeOK'
    BY <1>1, SelectorType, PoolType, ClientType DEF Next
  <2>2. \A d \in Conn : ConnFacts(d)'
    BY <1>1, SelectorConn, PoolConn, ClientConn DEF Next
  <2> QED BY <1>1, <2>1, <2>2, CurrentStep, OrderStep, PendingStep, SignalStep
          DEF ReactorInv, ConnFacts
<1>2. CASE UNCHANGED vars
  <2> USE <1>2 DEF vars, handlerVars, channelVars, queueVars, poolVars, taskVars, registryVars,
                   selectorVars
  <2>1. TypeOK' /\ WholeInOrder'
    BY DEF ReactorInv, TypeOK, WholeInOrder
  <2>2. CurrentKey' /\ QueuedIsPending' /\ QueuedSinceTest' /\ TasksSignalled'
    BY DEF ReactorInv, CurrentKey, ChannelKey, QueuedIsPending, QueuedSinceTest, TasksSignalled,
           InTasks, Asking, At
  <2>3. ASSUME NEW c \in Conn
        PROVE  SendsFrame(c)' /\ NothingBefore(c)' /\ NothingRead(c)' /\ PartIsKept(c)'
    BY DEF ReactorInv, SendsFrame, NothingBefore, NothingRead, PartIsKept
  <2> QED BY <2>1, <2>2, <2>3 DEF ReactorInv
<1> QED BY <1>1, <1>2

(* The inductive invariant holds in every reachable state.                 *)
THEOREM ReactorInvariance == Spec => []ReactorInv
BY InitInv, NextInv, PTL DEF Spec

(* Every variable keeps its type: interestOps is OP_READ or OP_WRITE,      *)
(* never both, and every queue holds frames.                               *)
THEOREM ReactorTypeCorrect == Spec => []TypeOK
<1>1. ReactorInv => TypeOK
  BY DEF ReactorInv
<1> QED BY <1>1, ReactorInvariance, PTL

(* The start task and the read tasks have different actors, so the pool    *)
(* does not order them: it is continueRead that lets no request be         *)
(* processed by a protocol that is not started.                            *)
THEOREM ProtocolStartedFirst == Spec => []StartedFirst
<1>1. ReactorInv => StartedFirst
  BY DEF ReactorInv, StartedFirst, NothingRead, At
<1> QED BY <1>1, ReactorInvariance, PTL

(* continueWrite peeks, writes and removes in three calls while any pool   *)
(* thread may add or close: what is written and what still waits is what   *)
(* was sent, in order, whole and once.                                     *)
THEOREM FramesWholeInOrder == Spec => []WholeInOrder
<1>1. ReactorInv => WholeInOrder
  BY DEF ReactorInv
<1> QED BY <1>1, ReactorInvariance, PTL

(* updateInterestedOps on the selector thread sets OP_READ at once and on  *)
(* a pool thread leaves a task: no frame that is queued in between stays   *)
(* under OP_READ without a task that will set OP_WRITE.                    *)
THEOREM NoFrameForgotten == Spec => []QueuedIsPending
<1>1. ReactorInv => QueuedIsPending
  BY DEF ReactorInv
<1> QED BY <1>1, ReactorInvariance, PTL

(* A task is never added behind a select() that nobody wakes: its signal   *)
(* is given, or the thread that added it is about to give it.              *)
THEOREM NoWakeupLost == Spec => []TasksAreSeen
<1>1. ReactorInv => TasksAreSeen
  BY DEF ReactorInv, TasksSignalled, TasksAreSeen
<1> QED BY <1>1, ReactorInvariance, PTL
=============================================================================
