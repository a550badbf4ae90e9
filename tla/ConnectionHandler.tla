-------------------------- MODULE ConnectionHandler --------------------------
(***************************************************************************)
(* ConnectionHandler (client): a socket with blocking calls, one for each  *)
(* login.  A frame is its bytes up to the '\0' that ends it: sendLine      *)
(* writes all of them or fails, getLine reads until it has all of them or  *)
(* the connection ends.                                                    *)
(*                                                                         *)
(* The other end of the socket is a session of the server, StompSession.   *)
(***************************************************************************)
EXTENDS StompProtocol

CONSTANT Breakable   \* the connections whose network may fail

ASSUME BreakableAssumption == Breakable \subseteq Conn

VARIABLES
  link, stage, request, answers,   \* the session of the server: see StompSession
  sent,      \* the frames written to each connection
  taken,     \* how many of them the server has read
  got,       \* how many of the answers the client has read
  deleted    \* the handlers whose destructor has run

handlerVars == <<link, stage, request, answers, sent, taken, got, deleted>>

Server == INSTANCE StompSession

HandlerInit ==
  /\ Server!SessionInit
  /\ sent = [h \in Conn |-> <<>>]
  /\ taken = [h \in Conn |-> 0]
  /\ got = [h \in Conn |-> 0]
  /\ deleted = {}

(* connect(), when it succeeds.                                            *)
Connect(h) == Server!Open(h) /\ UNCHANGED <<sent, taken, got, deleted>>

(* sendLine of one frame after the other, each time with the result true.  *)
(* What is written after the server has closed is lost.                    *)
SendLines(h, frames) ==
  /\ sent' = [sent EXCEPT ![h] = IF link[h] = "closed" THEN @ ELSE @ \o frames]
  /\ UNCHANGED <<link, stage, request, answers, taken, got, deleted>>

(* sendLine(line) may return false: write_some throws.                     *)
MayFail(h) == link[h] = "closed"

(* getLine(line) has a whole frame to return ...                           *)
HasLine(h) == got[h] < Len(answers[h])

(* ... which is this one.                                                  *)
Line(h) == answers[h][got[h] + 1]

GetLine(h) ==
  /\ HasLine(h)
  /\ got' = [got EXCEPT ![h] = @ + 1]
  /\ UNCHANGED <<link, stage, request, answers, sent, taken, deleted>>

(* getLine returns false: the socket was never connected, or all is read   *)
(* and the server has closed.                                              *)
IsLost(h) == ~HasLine(h) /\ link[h] \in {"none", "closed"}

(* ~ConnectionHandler(): close().                                          *)
Delete(h) ==
  /\ deleted' = deleted \cup {h}
  /\ UNCHANGED <<link, stage, request, answers, sent, taken, got>>
-----------------------------------------------------------------------------
(* The session of the server reads the next frame ...                      *)
ServerTakes(h) ==
  /\ taken[h] < Len(sent[h])
  /\ Server!Take(h, sent[h][taken[h] + 1])
  /\ taken' = [taken EXCEPT ![h] = @ + 1]
  /\ UNCHANGED <<sent, got, deleted>>

(* ... answers it, and closes the connection if that was the last one.     *)
ServerWorks(h) ==
  /\ \/ Server!Serve(h)
     \/ Server!Close(h) /\ (stage[h] = "ended" \/ link[h] = "broken")
  /\ link'[h] = "broken" => h \in Breakable \cup deleted
  /\ UNCHANGED <<sent, taken, got, deleted>>

(* The topics the server has a SUBSCRIBE of this connection for.           *)
Joined(h) ==
  {sent[h][i].destination : i \in {j \in 1..taken[h] : sent[h][j].cmd = "SUBSCRIBE"}}

Messages ==
  UNION {{<<h, i>> : i \in {j \in DOMAIN answers[h] : answers[h][j] = "MESSAGE"}} : h \in Conn}

(* Somebody reports to a topic of the connection.                          *)
ServerSends(h) ==
  /\ Joined(h) # {}
  /\ Server!Message(h)
  /\ UNCHANGED <<sent, taken, got, deleted>>

(* The server sees that the client has closed the connection, or that the  *)
(* network has failed.                                                     *)
HangUp(h) ==
  /\ h \in Breakable \cup deleted
  /\ Server!Close(h)
  /\ UNCHANGED <<sent, taken, got, deleted>>
=============================================================================
