--------------------------- MODULE ThreadPerClient ---------------------------
(***************************************************************************)
(* The thread-per-client server: BaseServer.serve accepts connections and  *)
(* starts one thread for each, which runs BlockingConnectionHandler.run.   *)
(* All threads work on the same ConnectionsImpl.                           *)
(***************************************************************************)
EXTENDS StompMessagingProtocolImpl

CONSTANTS
  ClientFrames,   \* connection -> the frames its client may send
  MaxFrames       \* bound: connection -> how many frames its client sends at most

ASSUME FramesAssumption ==
  /\ ClientFrames \in [Conn -> SUBSET Frame]
  /\ MaxFrames \in [Conn -> Nat]

VARIABLE reads    \* how many frames each connection has processed

vars == <<handlerVars, connectionsVars, protocolVars, reads>>

Init ==
  /\ HandlerInit
  /\ ConnectionsInit
  /\ ProtocolInit
  /\ reads = [c \in Conn |-> 0]

(* serve(): accept, connections.connect, protocol.start, execute.  Nothing *)
(* refers to the connection before the last of them.                       *)
Accept(c) ==
  /\ At(c, "idle")
  /\ Open(c)
  /\ AddConnection(c)
  /\ Goto(c, "read")
  /\ UNCHANGED <<localVars, reads>>

(* run(): the byte that completes a frame.  The client has nothing to wait *)
(* for, so any of its frames may be the next one.                          *)
Read(c) ==
  /\ reads[c] < MaxFrames[c]
  /\ \E f \in ClientFrames[c] : Process(c, f)
  /\ reads' = [reads EXCEPT ![c] = @ + 1]

(* Mutant of Return: shouldTerminate is not tested after process.          *)
ReturnConnected(c) ==
  /\ At(c, "check")
  /\ IF connected[c] THEN UNCHANGED handlerVars ELSE AutoClose(c)
  /\ Goto(c, IF connected[c] THEN "read" ELSE "ended")
  /\ frame' = [frame EXCEPT ![c] = NONE]
  /\ BeginTraversal(c, {})
  /\ UNCHANGED <<shouldTerminate, username, messageIdCounter, target>>
  /\ UNCHANGED <<connectionsVars, reads>>

(* run(): process returns; without close() the loop tests connected again. *)
Return(c) ==
  /\ At(c, "check")
  /\ IF shouldTerminate[c] THEN Close(c)
     ELSE IF connected[c] THEN UNCHANGED handlerVars ELSE AutoClose(c)
  /\ Goto(c, IF shouldTerminate[c] \/ ~connected[c] THEN "ended" ELSE "read")
  /\ frame' = [frame EXCEPT ![c] = NONE]
  /\ BeginTraversal(c, {})
  /\ UNCHANGED <<shouldTerminate, username, messageIdCounter, target>>
  /\ UNCHANGED <<connectionsVars, reads>>

(* run(): end of stream or an IOException from read; or another thread's   *)
(* failed write has cleared connected.                                     *)
StopReading(c) ==
  /\ At(c, "read")
  /\ c \in Breakable \/ ~connected[c]
  /\ AutoClose(c)
  /\ Goto(c, "ended")
  /\ UNCHANGED <<localVars, connectionsVars, reads>>

(* run(): an unchecked exception leaves process and ends the thread.       *)
Unwind(c) ==
  /\ At(c, "crash")
  /\ AutoClose(c)
  /\ Goto(c, "ended")
  /\ UNCHANGED <<localVars, connectionsVars, reads>>

ThreadStep(c) ==
  \/ ProtocolStep(c) /\ UNCHANGED reads
  \/ Return(c)
  \/ Unwind(c)

Next == \E c \in Conn : Accept(c) \/ Read(c) \/ StopReading(c) \/ ThreadStep(c)

Spec == Init /\ [][Next]_vars

(* A thread that is not waiting for its client runs on.  The writes are    *)
(* among its steps: the client reads its socket all the time.              *)
Fairness == \A c \in Conn : WF_vars(ThreadStep(c))

FairSpec == Spec /\ Fairness
=============================================================================
