------------------------------ MODULE Registry ------------------------------
(***************************************************************************)
(* The base registry of registry.ts: what the code fixes of each brand,    *)
(* before overrides and secrets.                                           *)
(***************************************************************************)
EXTENDS Brands

AllSlugs == {"edo", "abe", "picaboo"}

Https(host) == [scheme |-> "https", host |-> host, plain |-> TRUE]

Entourage == <<"entourageyearbooks", "com">>
Abeduls == <<"www", "abeduls", "com">>
Companion == <<"companion">>

Edo ==
    [domains |-> {<<"linkdesigner">> \o Entourage},
     hosts |-> {Companion \o Entourage, Companion \o <<"stage">> \o Entourage},
     companionUrl |-> Https(Companion \o Entourage),
     auth |-> [whoamiUrl |-> Https(<<"edonext-app">> \o Entourage),
               signInUrl |-> Https(<<"edonext">> \o Entourage),
               cookie |-> "auth_session", allowed |-> <<Entourage>>, verified |-> FALSE],
     plugins |-> {"Facebook", "Url"}, providers |-> {},
     folders |-> NoUrl, ingest |-> NoUrl,
     bucket |-> "base", region |-> "base", client |-> <<>>]

Abe ==
    [domains |-> {Abeduls, <<"designer", "abeduls", "com">>,
                  <<"designer", "abeduls", "local">>, <<"abeduls", "local">>},
     hosts |-> {Companion \o <<"abeduls", "com">>, Companion \o <<"abeduls", "local">>},
     companionUrl |-> Https(Companion \o <<"abeduls", "com">>),
     auth |-> [whoamiUrl |-> Https(Abeduls), signInUrl |-> Https(Abeduls),
               cookie |-> "abes_session", allowed |-> <<Abeduls>>, verified |-> TRUE],
     plugins |-> {}, providers |-> {},
     folders |-> Https(Abeduls), ingest |-> Https(Abeduls),
     bucket |-> NotSet, region |-> "base", client |-> <<>>]

Picaboo ==
    [domains |-> {<<"designer", "picaboo", "com">>},
     hosts |-> {}, companionUrl |-> NoUrl,
     auth |-> [whoamiUrl |-> NoUrl, signInUrl |-> NoUrl,
               cookie |-> "picaboo_session", allowed |-> <<>>, verified |-> FALSE],
     plugins |-> {}, providers |-> {},
     folders |-> NoUrl, ingest |-> NoUrl,
     bucket |-> NotSet, region |-> "base", client |-> <<>>]

(* getBaseBrandConfig.                                                     *)
BaseRegistry == [s \in AllSlugs |->
    IF s = "edo" THEN Edo ELSE IF s = "abe" THEN Abe ELSE Picaboo]
=============================================================================
