---------------------------- MODULE MCPlaceTerms ----------------------------
(***************************************************************************)
(* PORs with and without each of the fields that are treated apart, one    *)
(* after the other on the same Place.                                      *)
(***************************************************************************)
EXTENDS PlaceTerms

MCWord == {"nce", "lfmn", "airp", "airport", "6299418", "Nice", "nice", "cote", "azur",
           "mct", "b8", "06", "fr", "europe", "muscat", "omc"}

MCFeatures == (<<"airp">> :> {<<"airport">>}) @@ (<<>> :> {})
MCNormal == [w \in MCWord |-> IF w = "Nice" THEN "nice" ELSE w]

Blank == [f \in Field |-> <<>>]

Nice(icao, feature, adm, city) ==
    [field |-> [Blank EXCEPT !["iata"] = <<"nce">>, !["icao"] = icao, !["feature"] = feature,
                             !["geonames"] = <<"6299418">>, !["adm1"] = adm, !["adm2"] = <<"06">>,
                             !["city"] = city, !["cityUtf"] = <<"Nice">>, !["country"] = <<"fr">>,
                             !["common"] = <<"Nice", "cote", "azur">>, !["ascii"] = <<"nice">>],
     names |-> {<<>>, <<"Nice", "cote", "azur">>}, weight |-> 3]

Muscat(iata, common) ==
    [field |-> [Blank EXCEPT !["iata"] = iata, !["city"] = <<"mct">>, !["state"] = <<"omc">>,
                             !["continent"] = <<"europe">>, !["common"] = common],
     names |-> {<<"muscat">>}, weight |-> 2]

MCLocations ==
    {Nice(i, f, a, c) : i \in {<<>>, <<"lfmn">>}, f \in {<<>>, <<"airp">>},
                        a \in {<<>>, <<"b8">>}, c \in {<<"nce">>, <<"mct">>}}
    \cup {Muscat(i, c) : i \in {<<>>, <<"mct">>}, c \in {<<>>, <<"muscat">>}}
=============================================================================
