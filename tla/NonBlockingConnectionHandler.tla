-------------------- MODULE NonBlockingConnectionHandler --------------------
(***************************************************************************)
(* NonBlockingConnectionHandler: the channel of one client of the reactor  *)
(* server, its selection key, and the frames waiting to be written.  The   *)
(* selector thread reads and writes; any pool thread may queue a frame or  *)
(* close.                                                                  *)
(***************************************************************************)
EXTENDS Naturals, Sequences

CONSTANTS
  Conn,        \* connection ids
  Breakable,   \* the connections whose client may hang up or crash
  NONE         \* null

ASSUME HandlerAssumption == Breakable \subseteq Conn /\ NONE \notin Conn

VARIABLES
  chan,         \* "none" before it is accepted, "open", "closed"
  key,          \* "none", "valid", "cancelled", "gone" (keyFor is null again)
  interest,     \* interestOps of the key: "READ" or "WRITE", never both
  peer,         \* the client's end: "up", "closed", "reset"
  incoming,     \* the requests that have arrived and are not read
  writeQueue,   \* the frames of that queue
  begun,        \* some bytes of the first of them are written
  written,      \* history: the frames written to the channel, in order
  sent          \* history: the frames queued, in order

channelVars == <<chan, key, interest, peer, incoming>>

queueVars == <<writeQueue, begun, written, sent>>

handlerVars == <<channelVars, queueVars>>

HandlerInit ==
  /\ chan = [c \in Conn |-> "none"]
  /\ key = [c \in Conn |-> "none"]
  /\ interest = [c \in Conn |-> "READ"]
  /\ peer = [c \in Conn |-> "up"]
  /\ incoming = [c \in Conn |-> <<>>]
  /\ writeQueue = [c \in Conn |-> <<>>]
  /\ begun = [c \in Conn |-> FALSE]
  /\ written = [c \in Conn |-> <<>>]
  /\ sent = [c \in Conn |-> <<>>]

(* register(selector, OP_READ, handler) and setKey.                        *)
Register(c) ==
  /\ chan' = [chan EXCEPT ![c] = "open"]
  /\ key' = [key EXCEPT ![c] = "valid"]
  /\ UNCHANGED <<interest, peer, incoming, queueVars>>

(* close(): key.cancel() and chan.close().  In between the channel is open *)
(* under a cancelled key, which a write just before both cannot be told    *)
(* from.                                                                   *)
Close(c) ==
  /\ key' = [key EXCEPT ![c] = IF @ = "valid" THEN "cancelled" ELSE @]
  /\ chan' = [chan EXCEPT ![c] = "closed"]
  /\ UNCHANGED <<interest, peer, incoming, queueVars>>

(* send(msg): writeQueue.add.                                              *)
Queue(c, f) ==
  /\ writeQueue' = [writeQueue EXCEPT ![c] = Append(@, f)]
  /\ sent' = [sent EXCEPT ![c] = Append(@, f)]
  /\ UNCHANGED <<channelVars, begun, written>>

(* read and write throw IOException.                                       *)
Broken(c) == chan[c] # "open" \/ peer[c] = "reset"

(* chan.write(top) takes all bytes that are left, ...                      *)
WriteAll(c) ==
  /\ ~Broken(c)
  /\ written' = [written EXCEPT ![c] = Append(@, Head(writeQueue[c]))]
  /\ writeQueue' = [writeQueue EXCEPT ![c] = Tail(@)]
  /\ begun' = [begun EXCEPT ![c] = FALSE]
  /\ UNCHANGED <<channelVars, sent>>

(* ... or the first part of them.  (More parts than two add nothing.)      *)
WritePart(c) ==
  /\ ~Broken(c)
  /\ ~begun[c]
  /\ begun' = [begun EXCEPT ![c] = TRUE]
  /\ UNCHANGED <<channelVars, writeQueue, written, sent>>
-----------------------------------------------------------------------------
(* The client: a request arrives, it closes its end, its end breaks.       *)
Arrive(c, r) ==
  /\ chan[c] = "open" /\ peer[c] = "up"
  /\ incoming' = [incoming EXCEPT ![c] = Append(@, r)]
  /\ UNCHANGED <<chan, key, interest, peer, queueVars>>

HangUp(c) ==
  /\ c \in Breakable /\ chan[c] = "open"
  /\ \/ peer[c] = "up" /\ peer' = [peer EXCEPT ![c] = "closed"]
     \/ peer[c] # "reset" /\ peer' = [peer EXCEPT ![c] = "reset"]
  /\ UNCHANGED <<chan, key, interest, incoming, queueVars>>
=============================================================================
