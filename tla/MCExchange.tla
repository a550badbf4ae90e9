------------------------------ MODULE MCExchange ------------------------------
(***************************************************************************)
(* A small instance of Exchange: who is there and which files they report. *)
(***************************************************************************)
EXTENDS ExchangeInvariant

alice == <<"alice">>
bob == <<"bob">>
police == <<"police">>
fire == <<"fire", Colon, "north">>      \* a channel with a colon in its name
medic == <<"medic">>                    \* bob only
Users == {alice, bob}

Channels == (alice :> {police, fire}) @@ (bob :> {police, fire, medic})

Strings == STRING

Times == {60, 90}

An(name, city, time, description, details) ==
  [event_name |-> name, city |-> city, date_time |-> time, description |-> description,
   general_information |-> details]

Active(value) == <<"active">> :> <<value>>

long == <<"there are more than", Space, "27 characters">>
CutOff == long :> <<"there are more than", Space, "27 chara">>

Names == <<<<"crash">>, <<"robbery">>>>

(* Two plain events, the later first; two at one time that differ in their *)
(* names, with colons in other values; one that no client can read; a      *)
(* channel with a colon; one the reporter may not have joined; a file with *)
(* a field missing.                                                        *)
Files ==
  {[channel_name |-> police,
    events |-> <<An(<<"robbery">>, <<Space, "haifa">>, 90, long, Active("true")),
                 An(<<"robbery">>, <<"haifa">>, 60, <<"calm">>, Active("false"))>>],
   [channel_name |-> police,
    events |-> <<An(<<"robbery">>, <<"tel", Colon, "aviv">>, 60, <<"calm", Colon>>,
                    <<"forces_arrival_at_scene">> :> <<"true">>),
                 An(<<"crash">>, <<"haifa">>, 60, <<"calm", NewLine, "so far">>, Active("true"))>>],
   [channel_name |-> police,
    events |-> <<An(<<"crash">>, <<"haifa">>, 90, <<"calm", NewLine, "date time", Colon, Space, "soon">>,
                    Active("true"))>>],
   [channel_name |-> fire,
    events |-> <<An(<<"crash">>, <<"haifa">>, 90, <<"calm">>, Active("true"))>>],
   [channel_name |-> medic,
    events |-> <<An(<<"crash">>, <<"haifa">>, 90, <<"calm">>, <<>>)>>],
   [channel_name |-> police,
    events |-> <<An(<<"crash">>, <<"haifa">>, NONE, <<"calm">>, <<>>)>>]}

(* The first three reports of events1.json in the order that the sample    *)
(* summary events1_out.txt has them (lines 10 to 26), which is that of the *)
(* file: the code sorts them, and no sort it may use leaves them so.       *)
Sample ==
  <<[name |-> <<"Grand Theft Auto">>, date_time |-> 1734961200],
    [name |-> <<"Vandalism">>, date_time |-> 1735681200],
    [name |-> <<"Burglary">>, date_time |-> 1734939900]>>

ASSUME SampleIsUnsorted == Sorted(Sample) = {<<Sample[3], Sample[1], Sample[2]>>}

ASSUME FilesAssumption == FilesReadBack /\ AreWords(Times \cup 1..4)
=============================================================================
