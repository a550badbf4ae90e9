-------------------------- MODULE ExchangeInvariant --------------------------
(***************************************************************************)
(* Where the reports of a user are: the first Served(u) have been read by  *)
(* the server, the first Written(u) have got a message-id, their number.   *)
(***************************************************************************)
EXTENDS ExchangeProperties

(* Every event of the files, reported by anyone, reads back.               *)
FilesReadBack ==
  \A u \in User, file \in File : Parses(file) =>
    \A i \in DOMAIN file.events :
      ReadsBack([parseEventsFile(file)[i] EXCEPT !.eventOwnerUser = u])

(* And so does what ToString makes of a number.                            *)
NumbersAreWords == AreWords(Nat \cup DateTime)

Written(u) == messageId[u] - 1

Served(u) == Len(reported[u]) - Len(sent[u])

(* The k-th report of u is for d.                                          *)
Fits(d, u, k) == reported[u][k].channel_name \in Joined[u] \cap Joined[d]

FrameOf(e) == SendFrameText(e.channel_name, serializedEvent(e))

MessageOf(u, k) ==
  LET e == reported[u][k]
  IN  toString(MessageFrame(u, e.channel_name, k, serializedEvent(e) \o <<NewLine>>))

InInbox(d, u, k) == \E i \in DOMAIN inbox[d] : inbox[d][i].from = u /\ inbox[d][i].id = k

(* The names of the channels at the receivers.                             *)
Name == {Kept(channel) : channel \in Channel}
-----------------------------------------------------------------------------
(* What has been reported are events that read back, each its owner's.     *)
ReportsReadBack ==
  \A u \in User :
    /\ reported[u] \in Seq(Range(reported[u]))
    /\ \A k \in DOMAIN reported[u] :
         /\ IsEvent(reported[u][k]) /\ ReadsBack(reported[u][k])
         /\ reported[u][k].eventOwnerUser = u

(* The frames that the server has not read are of the last reports.        *)
SentAsReported ==
  \A u \in User :
    /\ Len(sent[u]) <= Len(reported[u])
    /\ \A i \in DOMAIN sent[u] : sent[u][i] = FrameOf(reported[u][Served(u) + i])

(* A session ends at the first report to a channel that u has not joined.  *)
ServedInTurn ==
  \A u \in User :
    /\ \A k \in 1..Written(u) : reported[u][k].channel_name \in Joined[u]
    /\ IF session[u] THEN Written(u) = Served(u)
                     ELSE Written(u) = Served(u) - 1 /\ broadcast[u].to = {}

(* The k-th report of u is for d, which has not read it, and this its text. *)
OnItsWay(d, u, k, text) ==
  /\ k <= Written(u) /\ Fits(d, u, k) /\ read[d][u] < k
  /\ text = MessageOf(u, k)

(* What is being sent is the last report with a message-id, and goes to    *)
(* those that it is for and that have not got it.                          *)
BroadcastIsLast ==
  \A u \in User : \A d \in broadcast[u].to :
    /\ Written(u) > 0 /\ OnItsWay(d, u, Written(u), broadcast[u].text)
    /\ ~InInbox(d, u, Written(u))

(* The messages of an inbox are still to be read, and those of a user in   *)
(* the order of their ids.                                                 *)
InboxInOrder ==
  \A d \in User :
    /\ \A i \in DOMAIN inbox[d] : LET m == inbox[d][i] IN OnItsWay(d, m.from, m.id, m.text)
    /\ \A i, j \in DOMAIN inbox[d] :
         i < j /\ inbox[d][i].from = inbox[d][j].from => inbox[d][i].id < inbox[d][j].id

(* A report that is neither read nor in the inbox of a client that it is   *)
(* for is being sent, or the session of the client has ended; no later one *)
(* of the same user overtakes it.                                          *)
NoneSkipped ==
  \A d, u \in User :
    /\ read[d][u] <= Written(u)
    /\ ~shouldTerminate[d] =>
         \A k \in (read[d][u] + 1)..Written(u) :
           Fits(d, u, k) /\ ~InInbox(d, u, k) =>
             /\ session[d] => k = Written(u) /\ d \in broadcast[u].to
             /\ \A n \in (k + 1)..Written(u) : ~InInbox(d, u, n)

(* A client holds what it has read and nothing else.                       *)
EventsAsRead ==
  \A d \in User :
    /\ \A key \in DOMAIN eventsMap[d] : key \in Name \X User
    /\ \A u \in User, name \in Name :
         EventsOf(d, name, u) = ExpectedOf(d, u, name)[read[d][u]]

(* Where every report is between report of its user and the eventsMap of   *)
(* the clients that it is for: with the client, being broadcast, in an     *)
(* inbox or stored, each once and in turn.  The inductive invariant.       *)
ExchangeInv ==
  /\ TypeOK
  /\ ReportsReadBack
  /\ SentAsReported
  /\ ServedInTurn
  /\ BroadcastIsLast
  /\ InboxInOrder
  /\ NoneSkipped
  /\ EventsAsRead
=============================================================================
