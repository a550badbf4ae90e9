------------------------------ MODULE Exchange ------------------------------
(***************************************************************************)
(* How the events of a report file get into the summaries of every client: *)
(* report of one client, the broadcast of the server, the communication    *)
(* threads and the summary of the others.  Users are logged in and have    *)
(* joined their channels; a connection is named by its user.               *)
(***************************************************************************)
EXTENDS StompFrameEncoderDecoder

CONSTANTS
  User,          \* user names
  Joined,        \* user -> the channels it has joined
  File,          \* the files that may be reported, as json::parse returns them
  MaxReports,    \* bound: how many reports there are
  NameOrder,     \* event names, in their order as strings
  Cut            \* the descriptions of more than 27 characters -> their first 27

IsFileEvent(e) ==
  /\ DOMAIN e = {"event_name", "city", "date_time", "description", "general_information"}
  /\ {e.event_name, e.city, e.description} \subseteq Text \cup {NONE}
  /\ e.date_time \in DateTime \cup {NONE}
  /\ IsFiniteSet(DOMAIN e.general_information)
  /\ \A key \in DOMAIN e.general_information :
       key \in Text /\ e.general_information[key] \in Text

ASSUME ExchangeAssumption ==
  /\ User \subseteq Text
  /\ Joined \in [User -> SUBSET Text]
  /\ \A file \in File :
       \/ file = NONE
       \/ /\ file.channel_name \in Text \cup {NONE}
          /\ file.events \in Seq(Range(file.events))
          /\ \A i \in DOMAIN file.events : IsFileEvent(file.events[i])
  /\ MaxReports \in Nat
  /\ NameOrder \in Seq(Text)

VARIABLES
  isLoggedIn,        \* client
  shouldTerminate,   \* client: its communication thread has caught an exception
  eventsMap,         \* client: <<channel, user>> -> events
  sent,              \* frames the client has written and the server not read
  session,           \* server: whether the connection has not been refused
  broadcast,         \* server: the text being sent and who has yet to get it
  messageId,         \* server
  inbox,             \* frames the server has written and the client not read;
                     \* history: whose they are and their message-id
  reported,          \* history: the events the client has reported
  read,              \* history: the id of the last event from each user
  reports            \* how many reports there were

clientVars == <<isLoggedIn, shouldTerminate, eventsMap, read>>
serverVars == <<session, broadcast, messageId>>
vars == <<clientVars, sent, serverVars, inbox, reported, reports>>

Init ==
  /\ isLoggedIn = [u \in User |-> TRUE]
  /\ shouldTerminate = [u \in User |-> FALSE]
  /\ eventsMap = [u \in User |-> <<>>]
  /\ sent = [u \in User |-> <<>>]
  /\ session = [u \in User |-> TRUE]
  /\ broadcast = [u \in User |-> [text |-> <<>>, to |-> {}]]
  /\ messageId = [u \in User |-> 1]
  /\ inbox = [u \in User |-> <<>>]
  /\ reported = [u \in User |-> <<>>]
  /\ read = [d \in User |-> [u \in User |-> 0]]
  /\ reports = 0

Running(u) == isLoggedIn[u] /\ ~shouldTerminate[u]

(* report: one frame for each event, or nothing.                           *)
Report(u, file) ==
  LET events == parseEventsFile(file)
  IN  /\ Running(u)
      /\ reports < MaxReports
      /\ reports' = reports + 1
      /\ IF Parses(file)
           THEN /\ sent' = [sent EXCEPT ![u] = @ \o
                     [i \in DOMAIN events |->
                        SendFrameText(events[i].channel_name, serializedEvent(events[i]))]]
                /\ reported' = [reported EXCEPT ![u] = @ \o
                     [i \in DOMAIN events |-> [events[i] EXCEPT !.eventOwnerUser = u]]]
           ELSE UNCHANGED <<sent, reported>>
      /\ UNCHANGED <<clientVars, serverVars, inbox>>
-----------------------------------------------------------------------------
Subscribers(topic) == {d \in User : session[d] /\ topic \in Joined[d]}

(* Mutant: a message does not go to its author.                            *)
ServeOthers(u) ==
  /\ session[u] /\ sent[u] # <<>> /\ broadcast[u].to = {}
  /\ sent' = [sent EXCEPT ![u] = Tail(@)]
  /\ LET frame == decode(Head(sent[u]))
         topic == frame.headers[<<"destination">>]
     IN  IF topic \in Joined[u]
           THEN /\ broadcast' = [broadcast EXCEPT ![u] =
                     [text |-> toString(MessageFrame(u, topic, messageId[u], frame.body)),
                      to   |-> Subscribers(topic) \ {u}]]
                /\ messageId' = [messageId EXCEPT ![u] = @ + 1]
                /\ UNCHANGED session
           ELSE session' = [session EXCEPT ![u] = FALSE] /\ UNCHANGED <<broadcast, messageId>>
  /\ UNCHANGED <<clientVars, inbox, reported, reports>>

(* send() of the server: a SEND to a topic the client has not joined is    *)
(* refused, which ends the session.                                        *)
Serve(u) ==
  /\ session[u] /\ sent[u] # <<>> /\ broadcast[u].to = {}
  /\ sent' = [sent EXCEPT ![u] = Tail(@)]
  /\ LET frame == decode(Head(sent[u]))
         topic == frame.headers[<<"destination">>]
     IN  IF topic \in Joined[u]
           THEN /\ broadcast' = [broadcast EXCEPT ![u] =
                     [text |-> toString(MessageFrame(u, topic, messageId[u], frame.body)),
                      to   |-> Subscribers(topic)]]
                /\ messageId' = [messageId EXCEPT ![u] = @ + 1]
                /\ UNCHANGED session
           ELSE session' = [session EXCEPT ![u] = FALSE] /\ UNCHANGED <<broadcast, messageId>>
  /\ UNCHANGED <<clientVars, inbox, reported, reports>>

(* Mutant: the broadcast does not end.                                     *)
DeliverOn(u, d) ==
  /\ d \in broadcast[u].to
  /\ inbox' = [inbox EXCEPT ![d] = IF session[d] THEN Append(@,
       [from |-> u, id |-> messageId[u] - 1, text |-> broadcast[u].text]) ELSE @]
  /\ UNCHANGED <<clientVars, sent, serverVars, reported, reports>>

(* The message of u is written to the socket of d.                         *)
Deliver(u, d) ==
  /\ d \in broadcast[u].to
  /\ inbox' = [inbox EXCEPT ![d] = IF session[d] THEN Append(@,
       [from |-> u, id |-> messageId[u] - 1, text |-> broadcast[u].text]) ELSE @]
  /\ broadcast' = [broadcast EXCEPT ![u].to = @ \ {d}]
  /\ UNCHANGED <<clientVars, sent, session, messageId, reported, reports>>
-----------------------------------------------------------------------------
(* Mutant: an event takes the place of those before it.                    *)
OnlyTheLast(d, channel, user) == <<>>

(* What a client has of a user under a channel.                            *)
EventsOf(d, channel, user) ==
  IF <<channel, user>> \in DOMAIN eventsMap[d] THEN eventsMap[d][<<channel, user>>] ELSE <<>>

(* The communication thread reads a MESSAGE ...                            *)
Receive(d) ==
  /\ Running(d) /\ inbox[d] # <<>>
  /\ inbox' = [inbox EXCEPT ![d] = Tail(@)]
  /\ LET message == Head(inbox[d])
         body    == BodyPart(message.text)
         e       == EventOf(body)
         key     == <<e.channel_name, e.eventOwnerUser>>
     IN  IF Throws(body)
           THEN /\ shouldTerminate' = [shouldTerminate EXCEPT ![d] = TRUE]
                /\ UNCHANGED <<eventsMap, read>>
           ELSE /\ eventsMap' = [eventsMap EXCEPT ![d] =
                     [k \in DOMAIN @ \cup {key} |->
                        IF k = key THEN Append(EventsOf(d, k[1], k[2]), e) ELSE @[k]]]
                /\ read' = [read EXCEPT ![d][message.from] = message.id]
                /\ UNCHANGED shouldTerminate
  /\ UNCHANGED <<isLoggedIn, sent, serverVars, reported, reports>>

(* ... or finds the connection closed.                                     *)
Lose(d) ==
  /\ Running(d) /\ inbox[d] = <<>> /\ ~session[d]
  /\ isLoggedIn' = [isLoggedIn EXCEPT ![d] = FALSE]
  /\ UNCHANGED <<shouldTerminate, eventsMap, read, sent, serverVars, inbox, reported, reports>>

(* The comparison of summary, and what may come out of std::sort.          *)
Rank(name) == Max({0} \cup {i \in DOMAIN NameOrder : NameOrder[i] = name})

(* Mutant: names do not count.                                             *)
BeforeInTime(a, b) == a.date_time < b.date_time

Before(a, b) ==
  \/ a.date_time < b.date_time
  \/ a.date_time = b.date_time /\ Rank(a.name) < Rank(b.name)

Sorted(events) ==
  {[i \in DOMAIN events |-> events[p[i]]] :
     p \in {q \in Bijection(DOMAIN events, DOMAIN events) :
              \A i, j \in DOMAIN events : i < j => ~Before(events[q[j]], events[q[i]])}}

(* Formatted to the minute.                                                *)
epochToDate(time) == time \div 60

Says(e, key) == key \in DOMAIN e.general_information /\ e.general_information[key] = <<"true">>

CountOf(events, key) == Cardinality({i \in DOMAIN events : Says(events[i], key)})

SummaryFile(channel, user, events) ==
  [channel |-> channel, user |-> user, Total |-> Len(events),
   active |-> CountOf(events, <<"active">>),
   forces_arrival_at_scene |-> CountOf(events, <<"forces_arrival_at_scene">>),
   reports |-> [i \in DOMAIN events |->
     [city |-> events[i].city, date |-> epochToDate(events[i].date_time),
      name |-> events[i].name,
      summary |-> LET text == events[i].description
                  IN  IF text \in DOMAIN Cut THEN Cut[text] \o <<"...">> ELSE text]]]

(* summary: the channel must be in eventsMap; the user need not be, and is *)
(* from then on.                                                           *)
Summaries(d, channel, user) ==
  {SummaryFile(channel, user, sorted) : sorted \in Sorted(EventsOf(d, channel, user))}

Summarise(d, channel, user) ==
  /\ Running(d)
  /\ \E key \in DOMAIN eventsMap[d] : key[1] = channel
  /\ eventsMap' = [eventsMap EXCEPT ![d] =
       [k \in DOMAIN @ \cup {<<channel, user>>} |-> EventsOf(d, k[1], k[2])]]
  /\ UNCHANGED <<isLoggedIn, shouldTerminate, read, sent, serverVars, inbox, reported, reports>>
-----------------------------------------------------------------------------
Channel == UNION {Joined[u] : u \in User}

Next ==
  \/ \E u \in User, file \in File : Report(u, file)
  \/ \E u \in User : Serve(u) \/ Receive(u) \/ Lose(u)
  \/ \E u, d \in User : Deliver(u, d)
  \/ \E u, d \in User, channel \in Channel : Summarise(d, channel, u)

Spec == Init /\ [][Next]_vars
=============================================================================
