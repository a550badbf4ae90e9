---------------------------- MODULE StompFrames ----------------------------
(***************************************************************************)
(* The frames that client and server exchange (StompFrame.java, as         *)
(* StompFrameEncoderDecoder decodes it), abstracted to what the handlers   *)
(* of StompMessagingProtocolImpl tell apart.  NONE stands for Java's null: *)
(* getHeader of a header the frame does not have.                          *)
(***************************************************************************)
EXTENDS Naturals, Sequences

CONSTANTS
  Conn,     \* connection ids: what ConnectionsImpl.idCounter hands out
  User,     \* values of the "login" header
  Pass,     \* values of the "passcode" header
  Topic,    \* values of the "destination" header
  SubId,    \* values of the "id" header: subscription ids chosen by clients
  NONE      \* null

ASSUME NoneAssumption ==
  /\ NONE \notin Conn
  /\ NONE \notin User
  /\ NONE \notin Pass
  /\ NONE \notin Topic
  /\ NONE \notin SubId

(* The commands process() switches on; "OTHER" is its default case.        *)
Command == {"CONNECT", "SUBSCRIBE", "UNSUBSCRIBE", "SEND", "DISCONNECT",
            "OTHER"}

(* A frame a client sends.  versionAndHost: both the 'accept-version' and  *)
(* the 'host' header are there; body and receipt: not empty, not null.     *)
Frame == [cmd            : Command,
          versionAndHost : BOOLEAN,
          login          : User \cup {NONE},
          passcode       : Pass \cup {NONE},
          destination    : Topic \cup {NONE},
          id             : SubId \cup {NONE},
          body           : BOOLEAN,
          receipt        : BOOLEAN]

ASSUME NoneIsNoFrame == NONE \notin Frame

(* A frame the server sends.  The sender is what identifies a MESSAGE      *)
(* besides its message-id, which every sender counts for itself.           *)
Message == [cmd          : {"MESSAGE"},
            sender       : Conn,
            messageId    : Nat,
            destination  : Topic,
            subscription : SubId]

Reply == [cmd : {"CONNECTED", "RECEIPT", "ERROR"}]

ServerFrame == Message \cup Reply

Answer(command) == [cmd |-> command]
=============================================================================
