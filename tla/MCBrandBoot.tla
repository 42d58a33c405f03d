---------------------------- MODULE MCBrandBoot ----------------------------
(***************************************************************************)
(* Instances of BrandBoot for TLC, with the real registry.                 *)
(***************************************************************************)
EXTENDS BrandBoot, Registry

(* Settings of one brand: none, keys only, the bucket, all of them, and    *)
(* half a key pair.  Some have keys for Facebook (the tab edo lists), some *)
(* only those of a provider without a tab.                                 *)
None == [access |-> NotSet, secret |-> NotSet, bucket |-> NotSet, region |-> NotSet,
         providers |-> {}]
Keys == [None EXCEPT !.access = "own", !.secret = "own"]
Bucket == [None EXCEPT !.bucket = "own", !.providers = {"facebook", "google", "unsplash"}]
All == [Keys EXCEPT !.bucket = "own", !.region = "own", !.providers = Provider]
Half == [None EXCEPT !.access = "own", !.bucket = "own", !.providers = {"unsplash"}]

(* Overrides: a sibling of the whoami, a foreign one, URLs and names that  *)
(* are not usable, and an attempt on the protected fields.                 *)
Foreign == [scheme |-> "https", host |-> <<"else", "net">>, plain |-> TRUE]
Http(host) == [scheme |-> "http", host |-> host, plain |-> TRUE]
Overrides ==
    {NoOverride,
     [NoOverride EXCEPT !.whoamiUrl = {Https(<<"stage">> \o Entourage)}, !.cookie = {"stage_session"}],
     [NoOverride EXCEPT !.whoamiUrl = {Foreign}, !.signInUrl = {Foreign}],
     [NoOverride EXCEPT !.whoamiUrl = {NoUrl}, !.cookie = {Invalid}],
     [NoOverride EXCEPT !.whoamiUrl = {Foreign}, !.allowed = {<<Foreign.host>>}, !.verified = {FALSE}]}

Plain ==
    [secretValid |-> TRUE, source |-> "env", force |-> NotSet,
     access |-> "global", secret |-> "global",
     own |-> [s \in AllSlugs |-> Bucket], override |-> [s \in AllSlugs |-> NoOverride]]

Own(e, a) == [edo |-> e, abe |-> a, picaboo |-> None]

Environments ==
    {[Plain EXCEPT !.secretValid = FALSE]}
    \cup {[Plain EXCEPT !.source = x, !.force = f] :
             x \in {"env", "aws"}, f \in AllSlugs \cup {NotSet, "typo"}}
    \cup {[Plain EXCEPT !.override = [edo |-> o, abe |-> p, picaboo |-> NoOverride]] :
             o \in Overrides, p \in Overrides}
    \cup {[Plain EXCEPT !.own = Own(e, a), !.access = k, !.secret = l] :
             e \in {None, Keys, Half}, a \in {Keys, Bucket, All, Half},
             k \in {NotSet, "global"}, l \in {NotSet, "global"}}
    \cup {[Plain EXCEPT !.source = "aws", !.access = k, !.secret = l] :
             k \in {NotSet, "global"}, l \in {NotSet, "global"}}

Contents ==
    {[edo |-> e, abe |-> a, picaboo |-> {}] :
        e \in {{}, {None}, {Keys}}, a \in {{}, {None}, {Bucket}, {All}}}

(* Pages below the apexes, on the brands' own domains, of other schemes    *)
(* and ports, and foreign.                                                 *)
Pages ==
    {Https(<<"designer">> \o Entourage), Https(Abeduls), Https(<<"designer">> \o Abeduls),
     Http(<<"designer">> \o Entourage), Http(<<"localhost">>), Foreign,
     Https(<<"linkdesigner">> \o Entourage), Https(<<"designer", "abeduls", "com">>),
     Http(<<"designer", "abeduls", "com">>), Https(<<"abeduls", "local">>),
     [Https(<<"designer", "abeduls", "com">>) EXCEPT !.plain = FALSE]}
=============================================================================
