---------------------------- MODULE StompSession ----------------------------
(***************************************************************************)
(* What the server promises on one connection, as its client sees it: the  *)
(* abstract specification that ThreadPerClient implements, and the         *)
(* environment that StompClient runs in.                                   *)
(*                                                                         *)
(* Requests are taken one at a time, in order.  An accepted request is     *)
(* answered before the next one is taken if it is a CONNECT or asks for a  *)
(* receipt; a refused one is answered by ERROR, and nothing is answered    *)
(* after that.  Messages of other clients may come in between.             *)
(***************************************************************************)
EXTENDS Sequences

CONSTANTS
  Conn,     \* connections
  NONE      \* no request

VARIABLES
  link,     \* "none", "open", "broken" (open, but a write has failed) or "closed"
  stage,    \* of the current request: "ready" for one, "asked", or "ended",
            \* when there will be no other
  request,  \* the current request, with the fields cmd and receipt; NONE after it
  answers   \* history: the commands of the frames written to the connection

sessionVars == <<link, stage, request, answers>>

SessionInit ==
  /\ link = [c \in Conn |-> "none"]
  /\ stage = [c \in Conn |-> "ready"]
  /\ request = [c \in Conn |-> NONE]
  /\ answers = [c \in Conn |-> <<>>]

Open(c) ==
  /\ link[c] = "none"
  /\ link' = [link EXCEPT ![c] = "open"]
  /\ UNCHANGED <<stage, request, answers>>

Take(c, frame) ==
  /\ link[c] \in {"open", "broken"}
  /\ stage[c] = "ready"
  /\ stage' = [stage EXCEPT ![c] = "asked"]
  /\ request' = [request EXCEPT ![c] = frame]
  /\ UNCHANGED <<link, answers>>

Write(c, answer) ==
  /\ link[c] = "open"
  /\ answers' = [answers EXCEPT ![c] = Append(@, answer)]
  /\ UNCHANGED link

(* The server is done with the current request.                            *)
Finish(c, next) ==
  /\ stage[c] = "asked"
  /\ stage' = [stage EXCEPT ![c] = next]
  /\ request' = [request EXCEPT ![c] = NONE]

(* CONNECT is accepted by CONNECTED, other requests that ask for it by     *)
(* RECEIPT.  (DISCONNECT asks for one and does not get it.)                *)
Accept(c) ==
  /\ \/ request[c].cmd = "CONNECT" /\ Write(c, "CONNECTED")
     \/ /\ request[c].cmd \in {"SUBSCRIBE", "UNSUBSCRIBE", "SEND"}
        /\ request[c].receipt
        /\ Write(c, "RECEIPT")
  /\ Finish(c, "ready")

(* A request that does not ask for a receipt is accepted in silence.       *)
AcceptSilently(c) ==
  /\ request[c].cmd \in {"SUBSCRIBE", "UNSUBSCRIBE", "SEND"}
  /\ ~request[c].receipt
  /\ Finish(c, "ready")
  /\ UNCHANGED <<link, answers>>

Refuse(c) ==
  /\ request[c].cmd # "DISCONNECT"
  /\ Write(c, "ERROR")
  /\ Finish(c, "ended")

(* The answer can not be written.                                          *)
AnswerLost(c) ==
  /\ link[c] \in {"open", "broken"}
  /\ link' = [link EXCEPT ![c] = "broken"]
  /\ Finish(c, "ready") \/ Finish(c, "ended")
  /\ UNCHANGED answers

(* A logout, or a handler that throws: at a CONNECT without a name or a    *)
(* passcode, at an UNSUBSCRIBE of a client that is not in every topic.     *)
End(c) ==
  /\ request[c].cmd \in {"DISCONNECT", "CONNECT", "UNSUBSCRIBE"}
  /\ Finish(c, "ended")
  /\ UNCHANGED <<link, answers>>

(* A message of another client, or of this one.                            *)
Message(c) == Write(c, "MESSAGE") /\ UNCHANGED <<stage, request>>

(* A write to the connection fails.                                        *)
Break(c) ==
  /\ link[c] = "open"
  /\ link' = [link EXCEPT ![c] = "broken"]
  /\ UNCHANGED <<stage, request, answers>>

(* The server closes the connection: because it has ended, or because the  *)
(* network or the client has gone.                                         *)
Close(c) ==
  /\ link[c] \in {"open", "broken"}
  /\ stage[c] \in {"ready", "ended"}
  /\ link' = [link EXCEPT ![c] = "closed"]
  /\ stage' = [stage EXCEPT ![c] = "ended"]
  /\ UNCHANGED <<request, answers>>

(* The server does its next step for the current request.                  *)
Serve(c) ==
  /\ request[c] # NONE
  /\ Accept(c) \/ AcceptSilently(c) \/ Refuse(c) \/ AnswerLost(c) \/ End(c)

Step(c) ==
  \/ Open(c) \/ Take(c, request'[c]) \/ Serve(c) \/ Message(c)
  \/ Break(c) \/ Close(c)

SessionSpec == SessionInit /\ [][\E c \in Conn : Step(c)]_sessionVars
=============================================================================
