-------------------------- MODULE BrandBootProofs --------------------------
(***************************************************************************)
(* Proofs about BrandBoot, for any registry, environments and secrets.     *)
(* The argument rests on one invariant: what a replica serves is what its  *)
(* environment and its cache resolve to, and they do not change meanwhile. *)
(* Each property then is one of ResolveBrand.                              *)
(***************************************************************************)
EXTENDS BrandBoot, TLAPS

Resolved(s) ==
    IF stage = "serving" /\ s \in Servable THEN {ResolveBrand(s, raw) : raw \in Raw(s)} ELSE {}

(* Settings that may have global keys.                                     *)
Merged == [access : {NotSet, "own", "global"}, secret : {NotSet, "own", "global"},
           bucket : {NotSet, "own"}, region : {NotSet, "own"}, providers : SUBSET Provider]

(* The state apart from the brands.                                        *)
Frame ==
    /\ stage \in {"config", "warming", "creating", "serving", "down"}
    /\ env \in Deployments /\ store \in Stores /\ cache \in Store
    /\ faults \in 0..MaxFaults /\ changes \in 0..MaxChanges

Consistent ==
    /\ brands = [s \in Slug |-> Resolved(s)]
    /\ stage = "serving" => ForceIsServable /\ \A s \in Servable : Resolvable(s)

IInv == Frame /\ Consistent

------------------------------------------------------------------------------
(* The cache starts empty, and holds what the store held.                  *)
LEMMA NothingIsAStore == Nothing \in Store
BY DEF Nothing, Store

(* The state apart from the brands keeps its shape.                        *)
LEMMA FrameStep == ASSUME Frame, [Next]_vars PROVE Frame'
<1> USE BootAssumption
<1>1. ASSUME DeriveEnv \/ Warmed \/ CreateServer PROVE Frame'
  BY <1>1 DEF Frame, DeriveEnv, Warmed, CreateServer
<1>2. ASSUME NEW s \in Slug, Warm(s) PROVE Frame'
  <2>1. store[s] \in {{}} \cup {{v} : v \in Settings}
    BY DEF Frame, Store
  <2>2. cache' = cache \/ cache' = [cache EXCEPT ![s] = store[s]]
    BY <1>2 DEF Warm
  <2>3. cache' \in Store
    BY <2>1, <2>2 DEF Frame, Store
  <2> QED BY <1>2, <2>3 DEF Frame, Warm
<1>3. ASSUME Restart \/ Redeploy PROVE Frame'
  BY <1>3, NothingIsAStore DEF Frame, Restart, Redeploy, StartWith
<1>4. ASSUME Rotate PROVE Frame'
  BY <1>4 DEF Frame, Rotate
<1>5. CASE UNCHANGED vars
  BY <1>5 DEF Frame, vars
<1> QED BY <1>1, <1>2, <1>3, <1>4, <1>5 DEF Next, Boot

(* A brand is served from the moment createServer resolved it to the end   *)
(* of the process, by an environment and a cache that stay.                *)
LEMMA ConsistentStep == ASSUME IInv, [Next]_vars PROVE Consistent'
<1>1. ASSUME stage # "serving", stage' # "serving", brands' = brands \/ brands' = Nothing
      PROVE Consistent'
  <2>1. brands = Nothing
    BY <1>1 DEF IInv, Consistent, Resolved, Nothing
  <2> QED BY <1>1, <2>1 DEF Consistent, Resolved, Nothing
<1>2. CASE DeriveEnv \/ (\E s \in Slug : Warm(s)) \/ Warmed \/ Restart
  BY <1>1, <1>2 DEF DeriveEnv, Warm, Warmed, Restart, StartWith
<1>3. CASE CreateServer
  <2>1. CASE stage' = "down"
    BY <1>1, <1>3, <2>1 DEF CreateServer
  <2>2. CASE stage' # "down"
    <3>1. /\ stage' = "serving" /\ UNCHANGED <<env, cache>>
          /\ ForceIsServable /\ \A s \in Servable : Resolvable(s)
          /\ brands' = [s \in Slug |->
               IF s \in Servable THEN {ResolveBrand(s, raw) : raw \in Raw(s)} ELSE {}]
      BY <1>3, <2>2 DEF CreateServer
    <3>2. \A s \in Slug : Raw(s)' = Raw(s)
      BY <3>1 DEF Raw
    <3>3. \A s \in Servable : \A raw :
            /\ Finalizable(s, raw)' <=> Finalizable(s, raw)
            /\ ResolveBrand(s, raw)' = ResolveBrand(s, raw)
      BY <3>1 DEF Finalizable, ResolveBrand, Credentials
    <3>4. \A s \in Slug : Resolved(s)' =
            IF s \in Servable THEN {ResolveBrand(s, raw) : raw \in Raw(s)} ELSE {}
      BY <3>1, <3>2, <3>3 DEF Resolved
    <3>5. (\A s \in Servable : Resolvable(s)) => (\A s \in Servable : Resolvable(s))'
      BY <3>2, <3>3 DEF Resolvable, Servable
    <3> QED BY <3>1, <3>4, <3>5 DEF Consistent, ForceIsServable
  <2> QED BY <2>1, <2>2
<1>4. CASE Redeploy
  BY <1>4 DEF Redeploy, StartWith, Consistent, Resolved, Nothing
<1>5. CASE Rotate \/ UNCHANGED vars
  <2>1. UNCHANGED <<stage, env, cache, brands>>
    BY <1>5 DEF Rotate, vars
  <2>2. \A s \in Slug : Raw(s)' = Raw(s)
    BY <2>1 DEF Raw
  <2>3. \A s \in Slug : \A raw :
          /\ Finalizable(s, raw)' <=> Finalizable(s, raw)
          /\ ResolveBrand(s, raw)' = ResolveBrand(s, raw)
    BY <2>1 DEF Finalizable, ResolveBrand, Credentials
  <2>4. \A s \in Slug : Resolved(s)' = Resolved(s)
    BY <2>1, <2>2, <2>3 DEF Resolved
  <2>5. \A s \in Servable : Resolvable(s)' <=> Resolvable(s)
    BY <2>2, <2>3 DEF Resolvable, Servable
  <2>6. (\A s \in Servable : Resolvable(s)) => (\A s \in Servable : Resolvable(s))'
    BY <2>5 DEF Servable
  <2> QED BY <2>1, <2>4, <2>6 DEF IInv, Consistent, ForceIsServable
<1> QED BY <1>2, <1>3, <1>4, <1>5 DEF Next, Boot

(* The invariant everything else follows from.                             *)
LEMMA Invariance == Spec => []IInv
<1>1. Init => IInv
  BY BootAssumption, NothingIsAStore
  DEF Init, IInv, Frame, Consistent, Resolved, Nothing
<1>2. IInv /\ [Next]_vars => IInv'
  BY FrameStep, ConsistentStep DEF IInv
<1> QED BY <1>1, <1>2, PTL DEF Spec

(* What is served was resolved from settings that pass the boot's checks.  *)
LEMMA ServedIsResolved ==
    ASSUME IInv, NEW s \in Slug, NEW b \in brands[s]
    PROVE  /\ s \in Servable /\ stage = "serving"
           /\ \E raw \in Merged : raw \in Raw(s) /\ Finalizable(s, raw) /\ b = ResolveBrand(s, raw)
<1>1. s \in Servable /\ stage = "serving" /\ b \in {ResolveBrand(s, raw) : raw \in Raw(s)}
  BY DEF IInv, Consistent, Resolved
<1>2. PICK good \in Raw(s) : Finalizable(s, good)
  BY <1>1 DEF IInv, Consistent, Resolvable
<1>3. good \in Merged /\ b = ResolveBrand(s, good)
  <2>1. CASE env.source = "aws"
    <3>1. PICK v \in Settings : cache[s] = {v}
      BY <2>1, <1>2 DEF IInv, Frame, Store, Raw
    <3>2. Raw(s) = {v}
      BY <2>1, <3>1 DEF Raw
    <3>3. v \in Merged
      BY DEF Settings, Merged
    <3> QED BY <1>1, <1>2, <3>2, <3>3
  <2>2. CASE env.source # "aws"
    <3> DEFINE v == [env.own[s] EXCEPT !.access = Or(@, env.access), !.secret = Or(@, env.secret)]
    <3>1. Raw(s) = {v}
      BY <2>2 DEF Raw
    <3>2. /\ env.own[s] \in Settings
          /\ env.access \in {NotSet, "global"} /\ env.secret \in {NotSet, "global"}
      BY BootAssumption DEF IInv, Frame, Deployment
    <3>3. v \in Merged
      BY <3>2 DEF Settings, Merged, Or
    <3> QED BY <1>1, <1>2, <3>1, <3>3
  <2> QED BY <2>1, <2>2
<1> QED BY <1>1, <1>2, <1>3

(* The parts of a brand that createServer takes from the registry, and     *)
(* what it adds.                                                           *)
LEMMA BrandParts ==
    ASSUME NEW s \in Slug, NEW raw, NEW b, b = ResolveBrand(s, raw)
    PROVE  /\ b.domains = Base[s].domains
           /\ b.hosts = Base[s].hosts /\ b.companionUrl = Base[s].companionUrl
           /\ b.plugins = Base[s].plugins
           /\ b.folders = Base[s].folders /\ b.ingest = Base[s].ingest
           /\ b.auth = EffectiveAuth(Base[s].auth, env.override[s])
           /\ b.providers = Base[s].providers \cup raw.providers
           /\ b.bucket = Or(raw.bucket, Base[s].bucket)
           /\ b.region = Or(raw.region, Base[s].region)
           /\ b.client = Credentials(raw)
BY BootAssumption DEF ResolveBrand, BrandConfig

(* An override keeps the protected fields, and merging it twice is merging *)
(* it once.                                                                *)
LEMMA AuthParts ==
    ASSUME NEW auth \in Auth, NEW override \in Override
    PROVE  /\ EffectiveAuth(auth, override).allowed = auth.allowed
           /\ EffectiveAuth(auth, override).verified = auth.verified
           /\ EffectiveAuth(EffectiveAuth(auth, override), override).cookie
                = EffectiveAuth(auth, override).cookie
           /\ EffectiveAuth(EffectiveAuth(auth, override), override).allowed = auth.allowed
BY DEF EffectiveAuth, Auth, Overridden

(* A served brand's registry entry and override have their types.          *)
LEMMA Inputs ==
    ASSUME IInv, NEW s \in Slug
    PROVE  Base[s] \in BrandConfig /\ Base[s].auth \in Auth /\ env.override[s] \in Override
BY BootAssumption DEF IInv, Frame, Deployment, BrandConfig

------------------------------------------------------------------------------
(* The invariant gives the first property.                                 *)
LEMMA AllOrNothing == IInv => ServesAllOrNothing
<1> SUFFICES ASSUME IInv, NEW s \in Slug
             PROVE  /\ brands[s] # {} <=> stage = "serving" /\ s \in Servable
                    /\ \A b \in brands[s] :
                          /\ b.bucket # NotSet /\ b.region # NotSet
                          /\ env.source = "env" => b.client # <<>>
  BY DEF ServesAllOrNothing
<1>1. ASSUME stage = "serving", s \in Servable PROVE brands[s] # {}
  BY <1>1 DEF IInv, Consistent, Resolved, Resolvable
<1>2. ASSUME NEW b \in brands[s]
      PROVE  /\ stage = "serving" /\ s \in Servable /\ b.bucket # NotSet /\ b.region # NotSet
             /\ env.source = "env" => b.client # <<>>
  <2>1. PICK raw \in Merged : raw \in Raw(s) /\ Finalizable(s, raw) /\ b = ResolveBrand(s, raw)
    BY ServedIsResolved
  <2>2. b.bucket # NotSet /\ b.region # NotSet
    BY <2>1, BrandParts DEF Finalizable
  <2>3. ASSUME env.source = "env" PROVE b.client # <<>>
    <3>1. raw.access # NotSet /\ raw.secret # NotSet
      BY <2>1, <2>3 DEF Finalizable
    <3>2. Or(raw.access, env.access) = raw.access /\ Or(raw.secret, env.secret) = raw.secret
      BY <3>1 DEF Or
    <3>3. b.client = Credentials(raw)
      BY <2>1, BrandParts
    <3>4. Credentials(raw) = <<raw.access, raw.secret>>
      BY <3>1, <3>2 DEF Credentials
    <3>5. <<raw.access, raw.secret>> # <<>>
      OBVIOUS
    <3> QED BY <3>3, <3>4, <3>5
  <2> QED BY ServedIsResolved, <2>2, <2>3
<1> QED BY <1>1, <1>2

(* For any registry, environments and secrets: a replica that serves,      *)
(* serves all servable brands with what they need, as createServer means.  *)
THEOREM AllBrandsOrNone == Spec => []ServesAllOrNothing
BY Invariance, AllOrNothing, PTL

(* It gives the routes of a serving replica.                               *)
LEMMA Routing == IInv => HostsFindTheirBrand
<1> SUFFICES ASSUME IInv, stage = "serving"
             PROVE  /\ env.force = NotSet =>
                          \A s \in Slug : \A b \in brands[s] :
                              \A host \in ValidHosts(b) \cup {RedirectHost(b)} :
                                  InstanceFor(host) = {s}
                    /\ env.force # NotSet => InstanceFor(<<>>) = {env.force}
  BY DEF HostsFindTheirBrand
<1>1. \A s \in Servable : s \in Slug /\ brands[s] # {}
  BY AllOrNothing DEF ServesAllOrNothing, Servable
<1>2. env.force \in Servable \cup {NotSet}
  BY DEF IInv, Consistent, ForceIsServable
<1>3. ASSUME env.force = NotSet, NEW s \in Slug, NEW b \in brands[s],
             NEW host \in ValidHosts(b) \cup {RedirectHost(b)}
      PROVE  InstanceFor(host) = {s}
  <2>1. s \in Servable /\ b.hosts = Base[s].hosts /\ b.companionUrl = Base[s].companionUrl
    BY ServedIsResolved, BrandParts
  <2>2. host \in Base[s].hosts
    BY <2>1, BootAssumption DEF ValidHosts, RedirectHost
  <2>3. \A t \in Servable : host \in Base[t].hosts => t = s
    BY <2>2, BootAssumption DEF Servable
  <2>4. ResolveBrandByHost(host) = {s}
    BY <1>3, <2>1, <2>2, <2>3, BootAssumption DEF ResolveBrandByHost
  <2> QED BY <2>1, <2>4, <1>1 DEF InstanceFor
<1>4. ASSUME env.force # NotSet PROVE InstanceFor(<<>>) = {env.force}
  <2>1. env.force \in Slug /\ brands[env.force] # {}
    BY <1>1, <1>2, <1>4
  <2>2. ResolveBrandByHost(<<>>) = {env.force}
    BY <2>1 DEF ResolveBrandByHost
  <2> QED BY <2>1, <2>2 DEF InstanceFor
<1> QED BY <1>3, <1>4

(* Every host of a brand leads to the brand's own instance                 *)
(* (resolveBrandByHost, the map of the instances, buildValidHosts).        *)
THEOREM HostsAreRouted == Spec => []HostsFindTheirBrand
BY Invariance, Routing, PTL

(* It gives where credentials may go.                                      *)
LEMMA Apex == IInv => CredentialsStayInApex
<1> SUFFICES ASSUME IInv, NEW s \in Slug, NEW b \in brands[s]
             PROVE  LET override == env.override[s]
                        allowed == Base[s].auth.allowed
                        targets == WhoamiTarget(b, override) \cup IngestTarget(b, override)
                                     \cup FoldersTarget(b)
                    IN  /\ \A url \in targets : ValidUrl(url, allowed)
                        /\ \A url \in Origin :
                              /\ MayCall(b, "https", url) =>
                                    url.scheme = "https" /\ HostAllowed(url.host, allowed)
                              /\ MayCallCompanion(b, url) =>
                                    url.scheme = "https" /\ url.host \in Base[s].domains
                        /\ b.auth.verified = Base[s].auth.verified
  BY DEF CredentialsStayInApex
<1> DEFINE override == env.override[s]
<1>1. Base[s].auth \in Auth /\ override \in Override
  BY Inputs
<1>2. b.auth = EffectiveAuth(Base[s].auth, override)
  BY ServedIsResolved, BrandParts
<1>3. /\ b.auth.allowed = Base[s].auth.allowed /\ b.auth.verified = Base[s].auth.verified
      /\ EffectiveAuth(b.auth, override).allowed = Base[s].auth.allowed
  BY <1>1, <1>2, AuthParts
<1>4. \A url \in WhoamiTarget(b, override) \cup IngestTarget(b, override) \cup FoldersTarget(b) :
         ValidUrl(url, Base[s].auth.allowed)
  BY <1>3 DEF WhoamiTarget, IngestTarget, FoldersTarget, Gated
<1>5. \A url : MayCall(b, "https", url) =>
         url.scheme = "https" /\ HostAllowed(url.host, Base[s].auth.allowed)
  <2>1. Base[s].auth.allowed \in Seq(Host)
    BY <1>1 DEF Auth
  <2>2. Base[s].auth.allowed # <<>> => 1 \in 1..Len(Base[s].auth.allowed)
    BY <2>1
  <2> QED BY <1>3, <2>2 DEF MayCall, HostAllowed
<1>6. \A url : MayCallCompanion(b, url) => url.scheme = "https" /\ url.host \in Base[s].domains
  BY ServedIsResolved, BrandParts DEF MayCallCompanion
<1> QED BY <1>3, <1>4, <1>5, <1>6

(* No override moves a cookie or a token out of the hosts the code allows, *)
(* or adds to the pages that may call /api or a brand's Companion with     *)
(* credentials (resolveEffectiveAuth, validateWhoamiUrl, corsForBrand,     *)
(* corsOrigins).                                                           *)
THEOREM CredentialsAreConfined == Spec => []CredentialsStayInApex
BY Invariance, Apex, PTL

(* The override is merged twice on the resolver's way and once on the      *)
(* page's: both come to the same cookie.                                   *)
THEOREM CookieNamesAgree == Spec => []OneCookieName
<1>1. IInv => OneCookieName
  <2> SUFFICES ASSUME IInv, NEW s \in Slug, NEW b \in brands[s]
               PROVE  SessionCookie(b, env.override[s]) = FoldersCookie(b)
    BY DEF OneCookieName
  <2>1. Base[s].auth \in Auth /\ env.override[s] \in Override
    BY Inputs
  <2>2. b.auth = EffectiveAuth(Base[s].auth, env.override[s])
    BY ServedIsResolved, BrandParts
  <2> QED BY <2>1, <2>2, AuthParts DEF SessionCookie, FoldersCookie
<1> QED BY <1>1, Invariance, PTL

(* What Companion is wired for, the page can use, and a brand without a    *)
(* list of plugins and without keys imports nothing from elsewhere.        *)
THEOREM WiringIsUsable == Spec => []WiredIsUsable
<1>1. IInv => WiredIsUsable
  <2> SUFFICES ASSUME IInv, NEW s \in Slug, NEW b \in brands[s]
               PROVE  /\ \A p \in Wired(b) :
                            p \in b.providers /\ \E tab \in Tabs(b) : ProviderOf[tab] = p
                      /\ b.plugins = {} =>
                            \A tab \in Tabs(b) \ {"Url"} : ProviderOf[tab] \in b.providers
                      /\ b.plugins = {} /\ b.providers \cap {"google", "dropbox", "facebook"} = {}
                            => Tabs(b) = {} /\ Wired(b) = {}
    BY DEF WiredIsUsable
  <2>1. ASSUME NEW p \in Wired(b)
        PROVE  p \in b.providers /\ \E tab \in Tabs(b) : ProviderOf[tab] = p
    BY <2>1 DEF Wired, Tabs
  <2>2. ASSUME b.plugins = {}, NEW tab \in Tabs(b) \ {"Url"}
        PROVE  ProviderOf[tab] \in b.providers
    BY <2>2 DEF Tabs, Detected
  <2>3. ASSUME b.plugins = {}, b.providers \cap {"google", "dropbox", "facebook"} = {}
        PROVE  Tabs(b) = {} /\ Wired(b) = {}
    <3>1. \A tab \in Plugin \ {"Url"} : ProviderOf[tab] \in {"google", "dropbox", "facebook"}
      BY DEF Plugin, ProviderOf
    <3>2. Detected(b) = {}
      BY <2>3, <3>1 DEF Detected
    <3> QED BY <2>3, <3>2 DEF Tabs, Wired
  <2> QED BY <2>1, <2>2, <2>3
<1> QED BY <1>1, Invariance, PTL

(* Keys that are set in pairs are used in pairs.                           *)
THEOREM KeyPairsAreWhole == Spec => []PairsAreWhole
<1>1. IInv => PairsAreWhole
  <2> SUFFICES ASSUME IInv, NEW s \in Slug, NEW b \in brands[s],
                      Paired(env), Paired(env.own[s]), \A v \in cache[s] : Paired(v)
               PROVE  b.client = <<>> \/ b.client[1] = b.client[2]
    BY DEF PairsAreWhole
  <2>1. PICK raw \in Merged : raw \in Raw(s) /\ b = ResolveBrand(s, raw)
    BY ServedIsResolved
  <2>2. /\ env.own[s] \in Settings /\ cache[s] \subseteq Settings
        /\ env.access \in {NotSet, "global"} /\ env.secret \in {NotSet, "global"}
    BY BootAssumption DEF IInv, Frame, Deployment, Store
  <2>3. env.access = env.secret
    BY <2>2 DEF Paired
  <2>4. raw.access = raw.secret
    <3>1. CASE env.source = "aws"
      BY <2>1, <2>2, <3>1 DEF Raw, Paired, Settings
    <3>2. CASE env.source # "aws"
      <4>1. raw = [env.own[s] EXCEPT !.access = Or(@, env.access), !.secret = Or(@, env.secret)]
        BY <2>1, <3>2 DEF Raw
      <4>2. env.own[s].access = env.own[s].secret
        BY <2>2 DEF Settings, Paired
      <4> QED BY <4>1, <4>2, <2>2, <2>3 DEF Settings
    <3> QED BY <3>1, <3>2
  <2>5. b.client = Credentials(raw)
    BY <2>1, BrandParts
  <2> QED BY <2>3, <2>4, <2>5 DEF Credentials
<1> QED BY <1>1, Invariance, PTL

(* The state of a boot stays in its ranges.                                *)
THEOREM BootTypeCorrect == Spec => []TypeOK
<1>1. IInv => TypeOK
  <2> SUFFICES ASSUME IInv PROVE TypeOK
    OBVIOUS
  <2>1. DOMAIN brands = Slug
    BY DEF IInv, Consistent
  <2>2. ASSUME NEW s \in Slug, NEW b \in brands[s] PROVE b \in BrandConfig
    <3>1. PICK raw \in Merged : b = ResolveBrand(s, raw)
      BY ServedIsResolved
    <3>2. EffectiveAuth(Base[s].auth, env.override[s]) \in Auth
      BY Inputs DEF EffectiveAuth, Overridden, Auth, Override
    <3>3. Credentials(raw) \in Client
      BY BootAssumption DEF IInv, Frame, Deployment, Merged, Credentials, Or, Client
    <3>4. /\ Or(raw.bucket, Base[s].bucket) \in {NotSet, "base", "own"}
          /\ Or(raw.region, Base[s].region) \in {NotSet, "base", "own"}
          /\ Base[s].providers \cup raw.providers \in SUBSET Provider
      BY Inputs DEF BrandConfig, Merged, Or
    <3> QED BY <3>1, <3>2, <3>3, <3>4, Inputs DEF ResolveBrand, BrandConfig
  <2> QED BY <2>1, <2>2 DEF TypeOK, IInv, Frame
<1> QED BY <1>1, Invariance, PTL

------------------------------------------------------------------------------
(* What a boot has fetched is what the secrets manager still holds.        *)
UpToDate == \A s \in Servable : cache[s] \in {{}, store[s]}

(* A boot in a complete environment fails by a fault only, unless the      *)
(* secrets were rotated after it had fetched them.                         *)
CompleteBootsFailByFaults ==
    [][Complete /\ UpToDate /\ stage # "down" /\ stage' = "down" => faults' = faults + 1]_vars

(* createServer runs on a warm cache.                                      *)
WarmedBeforeCreation ==
    /\ stage = "warming" => env.source = "aws"
    /\ stage \in {"creating", "serving"} /\ env.source = "aws" => \A s \in Servable : cache[s] # {}

LEMMA WarmedStep ==
    ASSUME IInv, WarmedBeforeCreation, [Next]_vars PROVE WarmedBeforeCreation'
<1> USE DEF WarmedBeforeCreation, Servable
<1>1. CASE DeriveEnv
  BY <1>1 DEF DeriveEnv
<1>2. ASSUME NEW s \in Slug, Warm(s) PROVE WarmedBeforeCreation'
  BY <1>2 DEF Warm
<1>3. CASE Warmed
  BY <1>3 DEF Warmed
<1>4. CASE CreateServer
  BY <1>4 DEF CreateServer
<1>5. CASE Restart \/ Redeploy
  BY <1>5 DEF Restart, Redeploy, StartWith
<1>6. CASE Rotate \/ UNCHANGED vars
  BY <1>6 DEF Rotate, vars
<1> QED BY <1>1, <1>2, <1>3, <1>4, <1>5, <1>6 DEF Next, Boot

(* What the environment has to name is what createServer asks for.         *)
LEMMA CompleteIsResolvable ==
    ASSUME IInv, Complete, NEW s \in Servable, env.source = "aws" => cache[s] = store[s]
    PROVE  Resolvable(s)
<1>1. CASE env.source = "aws"
  <2>1. PICK v \in cache[s] : /\ Or(v.bucket, Base[s].bucket) # NotSet
                              /\ Or(v.region, Base[s].region) # NotSet
    BY <1>1 DEF Complete
  <2> QED BY <1>1, <2>1 DEF Resolvable, Raw, Finalizable
<1>2. CASE env.source # "aws"
  <2> DEFINE own == env.own[s]
             raw == [own EXCEPT !.access = Or(@, env.access), !.secret = Or(@, env.secret)]
  <2>1. own \in Settings /\ s \in Slug
    BY BootAssumption DEF IInv, Frame, Deployment, Servable
  <2>2. /\ Or(own.bucket, Base[s].bucket) # NotSet /\ Or(own.region, Base[s].region) # NotSet
        /\ env.source = "env" => Or(own.access, env.access) # NotSet
                                   /\ Or(own.secret, env.secret) # NotSet
    BY <1>2 DEF Complete
  <2>3. /\ raw.bucket = own.bucket /\ raw.region = own.region
        /\ raw.access = Or(own.access, env.access) /\ raw.secret = Or(own.secret, env.secret)
    BY <2>1 DEF Settings
  <2>4. raw \in Raw(s)
    BY <1>2 DEF Raw
  <2> HIDE DEF raw, own
  <2> QED BY <2>2, <2>3, <2>4 DEF Resolvable, Finalizable
<1> QED BY <1>1, <1>2

(* The checks of deriveEnv, the warm-up and createServer together refuse   *)
(* no complete environment, whatever the registry.                         *)
THEOREM OnlyFaultsEndACompleteBoot == Spec => CompleteBootsFailByFaults
<1>1. IInv /\ WarmedBeforeCreation /\ [Next]_vars
        => [Complete /\ UpToDate /\ stage # "down" /\ stage' = "down"
              => faults' = faults + 1]_vars
  <2> SUFFICES ASSUME IInv, WarmedBeforeCreation, Next, Complete, UpToDate,
                      stage # "down", stage' = "down"
               PROVE  faults' = faults + 1
    OBVIOUS
  <2>1. CASE DeriveEnv
    BY <2>1 DEF DeriveEnv, Complete
  <2>2. ASSUME NEW s \in Slug, Warm(s) PROVE faults' = faults + 1
    <3>1. s \in Servable /\ env.source = "aws" => store[s] # {}
      BY DEF Complete
    <3>2. env.source = "aws"
      BY <2>2 DEF Warm, WarmedBeforeCreation
    <3> QED BY <2>2, <3>1, <3>2 DEF Warm
  <2>3. CASE CreateServer
    <3>1. \A s \in Servable : env.source = "aws" => cache[s] = store[s]
      BY <2>3 DEF WarmedBeforeCreation, UpToDate, CreateServer
    <3>2. \A s \in Servable : Resolvable(s)
      BY <3>1, CompleteIsResolvable
    <3> QED BY <2>3, <3>2 DEF CreateServer, Complete
  <2> QED BY <2>1, <2>2, <2>3
     DEF Next, Boot, Warmed, Restart, Redeploy, Rotate, StartWith
<1>2. Init => WarmedBeforeCreation
  BY DEF Init, WarmedBeforeCreation
<1> QED
  BY <1>1, <1>2, WarmedStep, Invariance, PTL DEF Spec, CompleteBootsFailByFaults

(* Fields that are set twice keep the last values.                         *)
LEMMA LastOneWins ==
    ASSUME NEW auth \in Auth, NEW x, NEW y, NEW z, NEW u, NEW v, NEW w
    PROVE  [[auth EXCEPT !.whoamiUrl = x, !.signInUrl = y, !.cookie = z]
              EXCEPT !.whoamiUrl = u, !.signInUrl = v, !.cookie = w]
             = [auth EXCEPT !.whoamiUrl = u, !.signInUrl = v, !.cookie = w]
BY DEF Auth

(* It makes no difference how often resolveEffectiveAuth merges an         *)
(* override: not for the cookie alone, but for every field.                *)
THEOREM OverrideIsIdempotent ==
    ASSUME NEW auth \in Auth, NEW override \in Override
    PROVE  EffectiveAuth(EffectiveAuth(auth, override), override) = EffectiveAuth(auth, override)
<1> DEFINE x == Overridden(override.whoamiUrl \ {NoUrl}, auth.whoamiUrl)
           y == Overridden(override.signInUrl \ {NoUrl}, auth.signInUrl)
           z == Overridden(override.cookie \ {NotSet, Invalid}, auth.cookie)
           once == EffectiveAuth(auth, override)
<1>1. once = [auth EXCEPT !.whoamiUrl = x, !.signInUrl = y, !.cookie = z]
  BY DEF EffectiveAuth
<1>2. /\ Overridden(override.whoamiUrl \ {NoUrl}, x) = x
      /\ Overridden(override.signInUrl \ {NoUrl}, y) = y
      /\ Overridden(override.cookie \ {NotSet, Invalid}, z) = z
  BY DEF Overridden
<1> HIDE DEF once, x, y, z
<1>3. once.whoamiUrl = x /\ once.signInUrl = y /\ once.cookie = z
  BY <1>1 DEF Auth
<1>4. EffectiveAuth(once, override)
        = [once EXCEPT !.whoamiUrl = x, !.signInUrl = y, !.cookie = z]
  BY <1>2, <1>3 DEF EffectiveAuth
<1>5. [once EXCEPT !.whoamiUrl = x, !.signInUrl = y, !.cookie = z] = once
  BY <1>1, LastOneWins
<1> QED BY <1>4, <1>5 DEF once
=============================================================================
