----------------------- MODULE ThreadPerClientInvariant -----------------------
(***************************************************************************)
(* Why the invariants of ThreadPerClientProperties hold: the facts about   *)
(* one thread in the middle of process(), which no step of another thread  *)
(* disturbs.  IInv is inductive; ThreadPerClient_proofs proves it so.      *)
(***************************************************************************)
EXTENDS ThreadPerClientProperties

(* Which handler a thread is in, by the command of its frame, and what the *)
(* tests it has passed say of the frame.                                   *)
CommandAt(c) ==
  /\ pc[c] \in Label \ {"idle", "read", "ended"} => frame[c] \in Frame
  /\ pc[c] \in Command => frame[c].cmd = pc[c]
  /\ pc[c] \in {"register", "verify", "online", "login", "session", "connected"} =>
       frame[c].cmd = "CONNECT" /\ frame[c].login \in User
  /\ pc[c] = "refuse" => frame[c].cmd = "CONNECT"
  /\ pc[c] = "disconnect" => frame[c].cmd \in {"CONNECT", "DISCONNECT"}
  /\ pc[c] = "unsubscribe" => frame[c].cmd = "UNSUBSCRIBE" /\ frame[c].id \in SubId
  /\ pc[c] \in {"broadcast", "deliver"} =>
       frame[c].cmd = "SEND" /\ frame[c].destination \in Topic
  /\ pc[c] = "deliver" => target[c] \in Target

(* A connection is in activeConnections until its own disconnect, which    *)
(* only a thread that is told to terminate calls.                          *)
ActiveUntilGone(c) ==
  /\ c \notin activeConnections =>
       \/ pc[c] \in {"idle", "crash", "ended"}
       \/ pc[c] = "check" /\ shouldTerminate[c]
       \/ pc[c] = "receipt" /\ frame[c].cmd = "DISCONNECT"
  /\ pc[c] = "disconnect" => shouldTerminate[c]
  /\ pc[c] = "receipt" /\ frame[c].cmd = "DISCONNECT" =>
       shouldTerminate[c] /\ c \notin activeConnections

(* Entries are in existing topics, and a connection that is not there, or  *)
(* not any more, has none.                                                 *)
EntriesOf(c) ==
  \A t \in Topic : isSubscribed(c, t) => t \in topics /\ c \in activeConnections

(* A traversal that removes entries still has them all ahead of it: no     *)
(* other thread puts an entry of this connection behind its back.          *)
Ahead(c) ==
  \A t \in Topic :
    /\ pc[c] = "disconnect" /\ isSubscribed(c, t) => t \in present[c] \ seen[c]
    /\ pc[c] = "unsubscribe" /\ topicSubscribers[t][c] = frame[c].id =>
         t \in present[c] \ seen[c]

(* The author of a broadcast stays a subscriber: nobody else removes it.   *)
AuthorSubscribed(c) ==
  pc[c] \in {"broadcast", "deliver"} => isSubscribed(c, frame[c].destination)

(* What is true of a frame when its RECEIPT is due.                        *)
Done(c) ==
  pc[c] = "receipt" =>
    /\ frame[c].cmd \in {"SUBSCRIBE", "UNSUBSCRIBE", "SEND", "DISCONNECT"}
    /\ frame[c].cmd = "SUBSCRIBE" =>
         frame[c].destination \in Topic
         /\ topicSubscribers[frame[c].destination][c] = frame[c].id
    /\ frame[c].cmd = "UNSUBSCRIBE" => \A t \in Topic : topicSubscribers[t][c] # frame[c].id
    /\ frame[c].cmd = "SEND" =>
         frame[c].destination \in Topic /\ isSubscribed(c, frame[c].destination)

(* The indices of the ERROR and of the CONNECTED frames sent to c.         *)
Answers(c, command) == {i \in DOMAIN out[c] : out[c][i].cmd = command}

(* After its ERROR a thread is on its way out, and writes nothing more.    *)
ErrorSent(c) ==
  /\ Answers(c, "ERROR") # {} =>
       /\ shouldTerminate[c]
       /\ \/ pc[c] \in {"check", "crash", "ended"}
          \/ pc[c] = "disconnect" /\ frame[c].cmd = "CONNECT"
  /\ \A i, j \in DOMAIN out[c] :
       i < j /\ out[c][i].cmd = "ERROR" => out[c][j].cmd = "MESSAGE"

(* The user of a session that is complete.                                 *)
SessionOf(c, u) ==
  /\ u \in User
  /\ username[c] = u
  /\ idToUsername[c] = u
  /\ isOnline(u)
  /\ registedClients[u] # NONE

(* A login builds the session up step by step; once there, it stays.       *)
SessionBuilt(c) ==
  /\ pc[c] \in {"verify", "online", "login", "session"} =>
       registedClients[frame[c].login] # NONE
  /\ pc[c] = "session" => username[c] = frame[c].login /\ isOnline(frame[c].login)
  /\ pc[c] = "connected" => SessionOf(c, frame[c].login)
  /\ Answers(c, "CONNECTED") # {} /\ pc[c] # "session" => SessionOf(c, username[c])

ConnInv(c) ==
  /\ CommandAt(c)
  /\ ActiveUntilGone(c)
  /\ EntriesOf(c)
  /\ Ahead(c)
  /\ AuthorSubscribed(c)
  /\ Done(c)
  /\ ErrorSent(c)
  /\ SessionBuilt(c)

(* The inductive invariant: every safety property above follows from it.   *)
IInv == TypeOK /\ \A c \in Conn : ConnInv(c)
-----------------------------------------------------------------------------
(* A socket lives as long as its thread, or ends with its own disconnect;  *)
(* before it is accepted nobody knows it.                                  *)
SocketOf(c) ==
  /\ pc[c] = "idle" => sock[c] = "none" /\ connected[c] /\ c \notin activeConnections
  /\ pc[c] # "idle" => sock[c] # "none"
  /\ c \in activeConnections /\ pc[c] # "ended" => sock[c] = "open"

(* A thread that is told to terminate has nothing left to do but to leave; *)
(* a logout is not refused.                                                *)
Leaving(c) ==
  /\ shouldTerminate[c] =>
       \/ pc[c] \in {"disconnect", "check", "crash", "ended"}
       \/ pc[c] = "receipt" /\ frame[c].cmd = "DISCONNECT"
  /\ pc[c] = "error" => frame[c].cmd # "DISCONNECT"

(* What the refinement of StompSession needs besides IInv: while a request *)
(* is served, its socket is open and its thread is not told to terminate.  *)
SessionInv == IInv /\ \A c \in Conn : SocketOf(c) /\ Leaving(c)
=============================================================================
