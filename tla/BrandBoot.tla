----------------------------- MODULE BrandBoot -----------------------------
(***************************************************************************)
(* The boot of a replica, from its environment to the brands it serves:    *)
(* the configuration, the secrets warmed one brand at a time when they are *)
(* in AWS Secrets Manager, and createServer, which resolves every servable *)
(* brand or throws.  The orchestrator starts a process that failed again,  *)
(* and may start any with another environment; the secrets may change at   *)
(* any time.                                                               *)
(*                                                                         *)
(* A secret or an S3 setting is abstracted to where it comes from: "own"   *)
(* (the brand's variable or secret), "global" (AWS_...), "base" (the       *)
(* registry), or NotSet.                                                   *)
(***************************************************************************)
EXTENDS Brands

CONSTANTS
    Slug,
    Base,               \* the base registry
    Typo,               \* a BRAND_FORCE that is no slug
    Deployments,        \* environments a process may be started with
    Stores,             \* contents of the secrets manager
    Origin,             \* pages that may try to call a brand
    MaxFaults, MaxChanges

(* A brand's own settings, in variables or in its secret.                  *)
Settings == [access : {NotSet, "own"}, secret : {NotSet, "own"},
             bucket : {NotSet, "own"}, region : {NotSet, "own"},
             providers : SUBSET Provider]

(* A stored secret that is missing or does not parse is none.              *)
Store == [Slug -> {{}} \cup {{v} : v \in Settings}]

Deployment == [secretValid : BOOLEAN,   \* COMPANION_SECRET has 16 characters
               source : {"env", "aws"},
               force : Slug \cup {NotSet, Typo},
               access : {NotSet, "global"}, secret : {NotSet, "global"},
               own : [Slug -> Settings],
               override : [Slug -> Override]]

Client == {<<>>} \cup ({"own", "global"} \X {"own", "global"})
    \* the credentials of an S3 client; <<>> is the default provider chain

BrandConfig == [domains : SUBSET Host, hosts : SUBSET Host, companionUrl : Url, auth : Auth,
                plugins : SUBSET Plugin, providers : SUBSET Provider,
                folders : Url, ingest : Url,
                bucket : {NotSet, "base", "own"}, region : {NotSet, "base", "own"},
                client : Client]

Servable == {s \in Slug : Base[s].hosts # {}}

ASSUME BootAssumption ==
    /\ NotSet \notin Slug /\ Typo \notin Slug \cup {NotSet}
    /\ Base \in [Slug -> BrandConfig]
    /\ \A s, t \in Slug : s # t => Base[s].hosts \cap Base[t].hosts = {}
    /\ \A s \in Servable : RedirectHost(Base[s]) \in Base[s].hosts
    /\ Deployments \subseteq Deployment /\ Stores \subseteq Store
    /\ Origin \subseteq Url
    /\ MaxFaults \in Nat /\ MaxChanges \in Nat

VARIABLES
    stage,          \* of the boot
    env,            \* process.env of the process
    store,          \* the secrets manager
    cache,          \* awsSecretsCache
    brands,         \* the resolved brands, each with its Companion instance
    faults, changes

vars == <<stage, env, store, cache, brands, faults, changes>>

TypeOK ==
    /\ stage \in {"config", "warming", "creating", "serving", "down"}
    /\ env \in Deployments
    /\ store \in Stores
    /\ cache \in Store
    /\ DOMAIN brands = Slug
    /\ \A s \in Slug : brands[s] \subseteq BrandConfig
    /\ faults \in 0..MaxFaults /\ changes \in 0..MaxChanges

Nothing == [s \in Slug |-> {}]

Init ==
    /\ stage = "config"
    /\ env \in Deployments /\ store \in Stores
    /\ cache = Nothing /\ brands = Nothing
    /\ faults = 0 /\ changes = 0

------------------------------------------------------------------------------
(* deriveEnv: the global configuration parses, or the process ends.        *)
DeriveEnv ==
    /\ stage = "config"
    /\ stage' = IF ~ env.secretValid THEN "down"
                ELSE IF env.source = "aws" THEN "warming" ELSE "creating"
    /\ UNCHANGED <<env, store, cache, brands, faults, changes>>

(* warmAwsBrandSecretsCache, one servable brand after the other (in any    *)
(* order: nothing depends on it); a secret that cannot be fetched or does  *)
(* not parse ends the process.                                             *)
Warm(s) ==
    /\ stage = "warming" /\ s \in Servable /\ cache[s] = {}
    /\ UNCHANGED <<env, store, brands, changes>>
    /\ \/ /\ store[s] # {} /\ cache' = [cache EXCEPT ![s] = store[s]]
          /\ UNCHANGED <<stage, faults>>
       \/ /\ store[s] = {} /\ stage' = "down"
          /\ UNCHANGED <<cache, faults>>
       \/ /\ faults < MaxFaults /\ faults' = faults + 1 /\ stage' = "down"
          /\ UNCHANGED cache

Warmed ==
    /\ stage = "warming" /\ \A s \in Servable : cache[s] # {}
    /\ stage' = "creating"
    /\ UNCHANGED <<env, store, cache, brands, faults, changes>>

ForceIsASlug == env.force \in Slug \cup {NotSet}

(* assertBrandForceIsServable.                                             *)
ForceIsServable == env.force \in Servable \cup {NotSet}

RawGlobalFirst(s) ==
    IF env.source = "aws" THEN cache[s]
    ELSE {[env.own[s] EXCEPT !.access = Or(env.access, @), !.secret = Or(@, env.secret)]}

(* readAwsBrandSecrets and readEnvBrandSecrets: none when the cache has    *)
(* none; own variables come before the global keys.                        *)
Raw(s) ==
    IF env.source = "aws" THEN cache[s]
    ELSE {[env.own[s] EXCEPT !.access = Or(@, env.access), !.secret = Or(@, env.secret)]}

FinalizableAlwaysWithKeys(s, raw) ==
    /\ Or(raw.bucket, Base[s].bucket) # NotSet /\ Or(raw.region, Base[s].region) # NotSet
    /\ raw.access # NotSet /\ raw.secret # NotSet

FinalizableWithoutKeys(s, raw) ==
    Or(raw.bucket, Base[s].bucket) # NotSet /\ Or(raw.region, Base[s].region) # NotSet

(* finalizeBrandSecrets does not throw.                                    *)
Finalizable(s, raw) ==
    /\ Or(raw.bucket, Base[s].bucket) # NotSet /\ Or(raw.region, Base[s].region) # NotSet
    /\ env.source = "env" => raw.access # NotSet /\ raw.secret # NotSet

CredentialsUnchecked(raw) == <<Or(raw.access, env.access), Or(raw.secret, env.secret)>>

(* getS3Client: missing keys are taken from the environment, one by one;   *)
(* an incomplete pair leaves the choice to the default provider chain.     *)
Credentials(raw) ==
    LET access == Or(raw.access, env.access)
        secret == Or(raw.secret, env.secret)
    IN  IF NotSet \in {access, secret} THEN <<>> ELSE <<access, secret>>

ResolveBrandWithBaseAuth(s, raw) ==
    [Base[s] EXCEPT !.providers = @ \cup raw.providers,
                    !.bucket = Or(raw.bucket, @),
                    !.region = Or(raw.region, @),
                    !.client = Credentials(raw)]

(* resolveBrand, with buildCompanionOptions on top: the registry's brand   *)
(* with its effective auth, its secrets and an S3 client.                  *)
ResolveBrand(s, raw) ==
    [Base[s] EXCEPT !.auth = EffectiveAuth(@, env.override[s]),
                    !.providers = @ \cup raw.providers,
                    !.bucket = Or(raw.bucket, @),
                    !.region = Or(raw.region, @),
                    !.client = Credentials(raw)]

Resolvable(s) == \E raw \in Raw(s) : Finalizable(s, raw)

(* createServer: a forced brand that is servable, and every servable brand *)
(* resolved, or the process ends without listening.                        *)
CreateServer ==
    /\ stage = "creating"
    /\ \/ /\ ForceIsServable /\ \A s \in Servable : Resolvable(s)
          /\ stage' = "serving"
          /\ brands' = [s \in Slug |->
                IF s \in Servable THEN {ResolveBrand(s, raw) : raw \in Raw(s)} ELSE {}]
       \/ /\ ~ (ForceIsServable /\ \A s \in Servable : Resolvable(s))
          /\ stage' = "down"
          /\ UNCHANGED brands
    /\ UNCHANGED <<env, store, cache, faults, changes>>

StartWith(deployment) ==
    /\ stage' = "config" /\ env' = deployment
    /\ cache' = Nothing /\ brands' = Nothing
    /\ UNCHANGED <<store, faults>>

(* The orchestrator starts a process that ended again.                     *)
Restart == stage = "down" /\ StartWith(env) /\ UNCHANGED changes

(* A new process takes over, with variables of its own.                    *)
Redeploy ==
    /\ stage \in {"serving", "down"}
    /\ changes < MaxChanges /\ changes' = changes + 1
    /\ \E deployment \in Deployments : StartWith(deployment)

(* Somebody changes what the secrets manager holds, at any time.           *)
Rotate ==
    /\ changes < MaxChanges /\ changes' = changes + 1
    /\ store' \in Stores
    /\ UNCHANGED <<stage, env, cache, brands, faults>>

Boot == DeriveEnv \/ (\E s \in Slug : Warm(s)) \/ Warmed \/ CreateServer

Next == Boot \/ Restart \/ Redeploy \/ Rotate

Spec == Init /\ [][Next]_vars

(* A boot runs on to its end, and a process that ended is started again.   *)
FairSpec == Spec /\ WF_vars(Boot) /\ WF_vars(Restart)

------------------------------------------------------------------------------
(* resolveBrandByHost, and the instance of the brand it names.             *)
ResolveBrandByHost(host) ==
    IF env.force \in Slug THEN {env.force}
    ELSE {s \in Servable : host \in Base[s].hosts}

InstanceFor(host) == {s \in ResolveBrandByHost(host) : brands[s] # {}}

(* A replica that serves, serves every servable brand and no other, each   *)
(* with a bucket, a region and credentials; without an instance role to    *)
(* fall back on (the env source) these are keys.                           *)
ServesAllOrNothing ==
    \A s \in Slug :
        /\ brands[s] # {} <=> stage = "serving" /\ s \in Servable
        /\ \A b \in brands[s] :
              /\ b.bucket # NotSet /\ b.region # NotSet
              /\ env.source = "env" => b.client # <<>>

(* Every host a brand answers on, and the one its redirect URIs name, is   *)
(* routed to that brand's own instance; a forced brand takes every host.   *)
HostsFindTheirBrand ==
    stage = "serving" =>
        /\ env.force = NotSet =>
              \A s \in Slug : \A b \in brands[s] :
                  \A host \in ValidHosts(b) \cup {RedirectHost(b)} : InstanceFor(host) = {s}
        /\ env.force # NotSet => InstanceFor(<<>>) = {env.force}

(* Whatever the override says, a session cookie or an ingest token goes to *)
(* https URLs under the hosts the code allows only, a brand that wants     *)
(* verified emails keeps wanting them, and two lists written in the code   *)
(* bound the pages that may make credentialed calls in production: those   *)
(* under the allowed hosts may call /api (corsForBrand), those on one of   *)
(* the brand's domains may call its Companion (corsOrigins), both over     *)
(* https.  Neither list contains the other.                                *)
CredentialsStayInApex ==
    \A s \in Slug : \A b \in brands[s] :
        LET override == env.override[s]
            allowed == Base[s].auth.allowed
            targets == WhoamiTarget(b, override) \cup IngestTarget(b, override) \cup FoldersTarget(b)
        IN  /\ \A url \in targets : ValidUrl(url, allowed)
            /\ \A url \in Origin :
                  /\ MayCall(b, "https", url) =>
                        url.scheme = "https" /\ HostAllowed(url.host, allowed)
                  /\ MayCallCompanion(b, url) =>
                        url.scheme = "https" /\ url.host \in Base[s].domains
            /\ b.auth.verified = Base[s].auth.verified

(* The session resolver, which merges the override once more, and the page *)
(* that forwards the cookie to the folders read the same cookie.           *)
OneCookieName ==
    \A s \in Slug : \A b \in brands[s] :
        SessionCookie(b, env.override[s]) = FoldersCookie(b)

(* Companion is wired for a provider (buildProviderOptions) only when its  *)
(* tab is on the upload page (getEnabledPlugins) and its keys are there.   *)
(* A brand that lists no plugins shows no tab without keys behind it; with *)
(* no keys of a provider that has a tab, it is local only: no tab at all,  *)
(* not even Url, whose imports would bypass the ingest, and nothing wired. *)
WiredIsUsable ==
    \A s \in Slug : \A b \in brands[s] :
        /\ \A p \in Wired(b) : p \in b.providers /\ \E tab \in Tabs(b) : ProviderOf[tab] = p
        /\ b.plugins = {} => \A tab \in Tabs(b) \ {"Url"} : ProviderOf[tab] \in b.providers
        /\ b.plugins = {} /\ b.providers \cap {"google", "dropbox", "facebook"} = {}
              => Tabs(b) = {} /\ Wired(b) = {}

(* Where keys are set in pairs, a client signs with a pair: not with the   *)
(* access key of one identity and the secret of another.                   *)
Paired(keys) == keys.access = NotSet <=> keys.secret = NotSet

PairsAreWhole ==
    \A s \in Slug : \A b \in brands[s] :
        Paired(env) /\ Paired(env.own[s]) /\ (\A v \in cache[s] : Paired(v))
            => b.client = <<>> \/ b.client[1] = b.client[2]

(* An environment is complete when the checks of the code accept it.       *)
Complete ==
    /\ env.secretValid /\ ForceIsServable
    /\ \A s \in Servable :
          LET settings == IF env.source = "aws" THEN store[s] ELSE {env.own[s]}
          IN  \E v \in settings :
                 /\ Or(v.bucket, Base[s].bucket) # NotSet
                 /\ Or(v.region, Base[s].region) # NotSet
                 /\ env.source = "env" =>
                       Or(v.access, env.access) # NotSet /\ Or(v.secret, env.secret) # NotSet

(* With a complete environment a replica ends up serving, however many of  *)
(* its boots fail before.                                                  *)
CompleteServes == Complete ~> stage = "serving" \/ ~ Complete
=============================================================================
