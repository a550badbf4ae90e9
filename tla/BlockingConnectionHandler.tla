--------------------- MODULE BlockingConnectionHandler ---------------------
(***************************************************************************)
(* BlockingConnectionHandler: the socket of one client of the              *)
(* thread-per-client server.  Any thread may send on it; only the thread   *)
(* that runs it reads from it.                                             *)
(***************************************************************************)
EXTENDS StompFrames

CONSTANT Breakable      \* the connections whose network may fail

ASSUME BreakableAssumption == Breakable \subseteq Conn

VARIABLES
  sock,       \* the socket of the connection: "none" before it is accepted
  connected,  \* the flag the read loop tests; cleared by close and by a failed write
  out         \* history: the frames written to the socket, in order

handlerVars == <<sock, connected, out>>

HandlerInit ==
  /\ sock = [c \in Conn |-> "none"]
  /\ connected = [c \in Conn |-> TRUE]
  /\ out = [c \in Conn |-> <<>>]

Open(c) ==
  /\ sock' = [sock EXCEPT ![c] = "open"]
  /\ UNCHANGED <<connected, out>>

(* send(msg), when the bytes go out ...                                    *)
WriteSucceeds(c, f) ==
  /\ sock[c] = "open"
  /\ connected[c]
  /\ out' = [out EXCEPT ![c] = Append(@, f)]
  /\ UNCHANGED <<sock, connected>>

(* ... and when getOutputStream, write or flush throws IOException: the    *)
(* socket is closed, an earlier write failed, or the network fails now.    *)
WriteFails(c) ==
  /\ sock[c] # "open" \/ ~connected[c] \/ c \in Breakable
  /\ connected' = [connected EXCEPT ![c] = FALSE]
  /\ UNCHANGED <<sock, out>>

Write(c, f) == WriteSucceeds(c, f) \/ WriteFails(c)

(* close()                                                                 *)
Close(c) ==
  /\ connected' = [connected EXCEPT ![c] = FALSE]
  /\ sock' = [sock EXCEPT ![c] = "closed"]
  /\ UNCHANGED out

(* The end of run(): "try (Socket sock = this.sock)" closes the socket.    *)
AutoClose(c) ==
  /\ sock' = [sock EXCEPT ![c] = "closed"]
  /\ UNCHANGED <<connected, out>>
=============================================================================
