-------------------------- MODULE MCTravelRequest --------------------------
(***************************************************************************)
(* Queries of up to MaxLen words, against a few indexes.                   *)
(***************************************************************************)
EXTENDS TravelRequest

CONSTANT MaxLen

MCWord == {"new", "york", "minster", "nice", "nicce", "nce", "airport", "lfmn"}
MCQueries == UNION {[1..n -> MCWord] : n \in 0..MaxLen}
MCMeant == [w \in MCWord |-> IF w = "nicce" THEN "nice" ELSE w]
MCFiltered == {"airport"}
MCKind ==
    [w \in MCWord |->
        CASE w \in {"new", "nce"} -> "iata"
          [] w \in {"york", "nice", "lfmn"} -> "icao"
          [] OTHER -> "none"]

Codes(iata, icao) == [iata |-> iata, icao |-> icao, geoid |-> "none"]

NewYork == [id |-> "NYC", text |-> <<"new", "york">>, names |-> {<<"new", "york">>},
            code |-> Codes("none", "none"), rank |-> -100, relevance |-> 0, expired |-> FALSE]
York == [id |-> "YRK", text |-> <<"york">>, names |-> {<<"york">>},
            code |-> Codes("none", "none"), rank |-> 0, relevance |-> 0, expired |-> FALSE]
Lakefront == [id |-> "NEW", text |-> <<"new", "airport">>, names |-> {},
            code |-> Codes("new", "none"), rank |-> -3000, relevance |-> 0, expired |-> FALSE]
Minster == [id |-> "ZLY", text |-> <<"york", "minster">>, names |-> {<<"york", "minster">>},
            code |-> Codes("none", "none"), rank |-> -3000, relevance |-> -100, expired |-> FALSE]
Nice == [id |-> "NCE", text |-> <<"nice", "nce", "airport", "lfmn">>,
            names |-> {<<"nice", "nce">>},
            code |-> Codes("nce", "lfmn"), rank |-> -1000, relevance |-> -200, expired |-> FALSE]
NiceNorth == [id |-> "NCN", text |-> <<"nice", "nce", "airport", "lfmn">>, names |-> {},
            code |-> Codes("none", "lfmn"), rank |-> 0, relevance |-> -200, expired |-> FALSE]
OldNice == [Nice EXCEPT !.id = "OLD", !.expired = TRUE, !.rank = 0, !.names = {<<"nice">>, <<"nice", "new">>},
                        !.text = <<"nice", "new", "york", "nce">>]
Unranked == [id |-> "ZRO", text |-> <<"lfmn">>, names |-> {<<"lfmn">>},
            code |-> Codes("none", "lfmn"), rank |-> Zero, relevance |-> -300, expired |-> FALSE]

MCIndexes == {<<NewYork, Lakefront, Minster, Nice, NiceNorth>>,
              <<Lakefront, Minster, OldNice, NiceNorth>>,
              <<[NewYork EXCEPT !.rank = -3000], York, Minster, Unranked>>,
              <<>>}
=============================================================================
