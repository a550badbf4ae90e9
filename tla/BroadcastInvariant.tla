-------------------------- MODULE BroadcastInvariant --------------------------
(***************************************************************************)
(* Why a broadcast reaches every subscriber once, in order and under an id *)
(* of its own: what is true between two steps of forEach, whatever the     *)
(* other threads have done to the topic since.  BroadcastInv is inductive; *)
(* Broadcast_proofs proves it so.                                          *)
(***************************************************************************)
EXTENDS ThreadPerClientInvariant

(* The client of d may ask for this topic under this id.                   *)
Chosen(d, t, id) ==
  \E f \in ClientFrames[d] : f.cmd = "SUBSCRIBE" /\ f.destination = t /\ f.id = id

(* A thread in process() serves a frame of its own client.                 *)
FrameOfClient(c) == pc[c] \notin {"idle", "read", "ended"} => frame[c] \in ClientFrames[c]

(* Ids pass from a frame to the entry of a topic, from there to the header *)
(* of the frame that is about to be written, and into the socket.          *)
IdsChosen(c) ==
  /\ \A t \in Topic : isSubscribed(c, t) => Chosen(c, t, topicSubscribers[t][c])
  /\ pc[c] = "deliver" =>
       Chosen(target[c].to, frame[c].destination, target[c].subscription)
  /\ \A i \in DOMAIN out[c] : out[c][i].cmd = "MESSAGE" =>
       Chosen(c, out[c][i].destination, out[c][i].subscription)

Sending(c) == pc[c] \in {"broadcast", "deliver"}

Sent(c) == pc[c] = "receipt" /\ frame[c].cmd = "SEND"

Delivering(c, d) == pc[c] = "deliver" /\ target[c].to = d

(* The messages in the socket of d that bear the last id c has taken.      *)
Latest(d, c) ==
  {i \in FromSender(d, c) : out[d][i].messageId = messageIdCounter[c] - 1}

(* The messages of c to d have ids that are taken, and increasing ones.    *)
Numbered(c, d) ==
  /\ \A i \in FromSender(d, c) : out[d][i].messageId < messageIdCounter[c]
  /\ \A i, j \in FromSender(d, c) :
       i < j => \/ out[d][i].messageId < out[d][j].messageId
                \/ out[d][i].messageId = out[d][j].messageId /\ Unsubscribes(d)

(* The traversal that serves d has not done so before and will not come to *)
(* it again: it has seen it, or d was there until it logged out and cannot *)
(* come back.                                                              *)
VisitedOnce(c, d) ==
  Sending(c) /\ ~Unsubscribes(d) =>
    /\ Delivering(c, d) => Latest(d, c) = {}
    /\ Delivering(c, d) \/ Latest(d, c) # {} =>
         \/ d \in seen[c]
         \/ shouldTerminate[d] /\ ~isSubscribed(d, frame[c].destination)

(* Who was subscribed when the broadcast began had been accepted.          *)
AcceptedBefore(c, d) ==
  d \in present[c] /\ (Sending(c) \/ Sent(c)) => pc[d] # "idle"

(* A subscriber the traversal has passed has the message or is about to    *)
(* get it, if it can be reached at all; at the end nobody is left out.     *)
Reached(c, d) ==
  d \in present[c] /\ d \in activeConnections /\ connected[d] /\ sock[d] = "open" =>
    /\ Sending(c) /\ d \in seen[c] => Delivering(c, d) \/ Latest(d, c) # {}
    /\ Sent(c) => Latest(d, c) # {}

PairInv(c, d) ==
  Numbered(c, d) /\ VisitedOnce(c, d) /\ AcceptedBefore(c, d) /\ Reached(c, d)

BroadcastInv ==
  /\ SessionInv
  /\ \A c \in Conn : FrameOfClient(c) /\ IdsChosen(c)
  /\ \A c, d \in Conn : PairInv(c, d)
=============================================================================
