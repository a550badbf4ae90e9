-------------------------- MODULE ExchangeProperties --------------------------
(***************************************************************************)
(* What the summaries of a client say of the reports of the others.        *)
(***************************************************************************)
EXTENDS Exchange, EventProperties

(* Of the first n events those of these channels that go by this name, as  *)
(* a client gets them.                                                     *)
Due(events, channels, name) ==
  LET due[n \in 0..Len(events)] ==
        IF n = 0 THEN <<>>
        ELSE IF events[n].channel_name \in channels /\ Kept(events[n].channel_name) = name
               THEN Append(due[n - 1], AsReceived(events[n]))
               ELSE due[n - 1]
  IN  due

(* What d, which has joined their channel, is to find of u under a name.   *)
ExpectedOf(d, u, name) == Due(reported[u], Joined[u] \cap Joined[d], name)

Expected(d, u, name) == ExpectedOf(d, u, name)[Len(reported[u])]

(* Type invariant: what a client holds are events, and what is on its way  *)
(* is texts.                                                                *)
Message == [from : User, id : Nat \ {0}, text : Text]

TypeOK ==
  /\ isLoggedIn \in [User -> BOOLEAN]
  /\ shouldTerminate \in [User -> BOOLEAN]
  /\ session \in [User -> BOOLEAN]
  /\ sent \in [User -> Seq(Text)]
  /\ broadcast \in [User -> [text : Text, to : SUBSET User]]
  /\ messageId \in [User -> Nat \ {0}]
  /\ inbox \in [User -> Seq(Message)]
  /\ read \in [User -> [User -> Nat]]
  /\ reports \in 0..MaxReports
  /\ DOMAIN reported = User /\ DOMAIN eventsMap = User
  /\ \A u \in User :
       /\ \A i \in DOMAIN reported[u] : IsEvent(reported[u][i])
       /\ \A key \in DOMAIN eventsMap[u] : \A i \in DOMAIN eventsMap[u][key] :
            IsEvent(eventsMap[u][key][i])
-----------------------------------------------------------------------------
(* Whatever the other users report meanwhile, a client has the events of a *)
(* user under the name of that user and of its channel, in the order they  *)
(* were reported, none twice and none left out, and each says in every     *)
(* field what is kept of the reported value: the first line of it, and     *)
(* nothing if that has a colon inside.  (A further line of a value that    *)
(* has a colon may be taken for another field: no file has one, unless the *)
(* clients cannot read the event at all and stop.)                         *)
ReceivedInOrder ==
  \A d \in User : \A key \in DOMAIN eventsMap[d] :
    key[2] \in User /\ IsPrefix(eventsMap[d][key], Expected(d, key[2], key[1]))

(* How many of the first n events say this.                                *)
Counted(events, n, key) ==
  Cardinality({i \in 1..n : /\ key \in DOMAIN events[i].general_information
                            /\ events[i].general_information[key] = <<"true">>})

(* The part of a description that a summary has room for.                  *)
Shortened(text) == IF text \in DOMAIN Cut THEN Cut[text] \o <<"...">> ELSE text

(* The summary of a user covers the first n of its events and no others:   *)
(* it has their number, how many of them are active and to how many forces *)
(* have arrived, and one entry for each, with its city, name, date and the *)
(* beginning of its description.  The entries are by time and among equal  *)
(* times by name, as the comment on the sort says (StompClient.cpp:251).   *)
(* The sample events1_out.txt of the repository has the reports of         *)
(* events1.json in the order of the file instead: Report_2 there (line 18) *)
(* is later than Report_3 (line 24).  Code and sample disagree, and what   *)
(* is stated here is what the code promises (see SampleIsUnsorted in       *)
(* MCExchange).                                                            *)
Faithful(s, all) ==
  /\ s.Total \in 0..Len(all) /\ Len(s.reports) = s.Total
  /\ s.active = Counted(all, s.Total, <<"active">>)
  /\ s.forces_arrival_at_scene = Counted(all, s.Total, <<"forces_arrival_at_scene">>)
  /\ \E p \in Bijection(1..s.Total, 1..s.Total) :
       /\ \A i \in 1..s.Total :
            /\ s.reports[i].city = all[p[i]].city
            /\ s.reports[i].name = all[p[i]].name
            /\ s.reports[i].date = all[p[i]].date_time \div 60
            /\ s.reports[i].summary = Shortened(all[p[i]].description)
       /\ \A i, j \in 1..s.Total : i < j =>
            \/ all[p[i]].date_time < all[p[j]].date_time
            \/ /\ all[p[i]].date_time = all[p[j]].date_time
               /\ Rank(all[p[i]].name) <= Rank(all[p[j]].name)

SummaryFaithful ==
  \A d, u \in User : \A channel \in {Kept(c) : c \in Channel} :
    \A s \in Summaries(d, channel, u) : Faithful(s, Expected(d, u, channel))

(* No report is lost on its way: when nothing of u is left to be sent and  *)
(* nothing left to be read by d, d has all that u has reported to their    *)
(* channels, unless one of the two sessions has ended or d has stopped at  *)
(* an event it cannot read.                                                *)
ReportsArrive ==
  \A d, u \in User :
    /\ session[u] /\ sent[u] = <<>> /\ broadcast[u].to = {}
    /\ session[d] /\ inbox[d] = <<>> /\ ~shouldTerminate[d]
    => \A channel \in Joined[d] \cap Joined[u] :
         Len(EventsOf(d, Kept(channel), u)) = Len(Expected(d, u, Kept(channel)))
=============================================================================
