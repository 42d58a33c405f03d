------------------------------- MODULE Brands -------------------------------
(***************************************************************************)
(* What is computed from a brand's configuration and nothing else: the     *)
(* merge of its override, the gate in front of every URL a cookie is sent  *)
(* to, the pages that may call it, and the plugins and providers of its    *)
(* upload page.                                                            *)
(*                                                                         *)
(* A host is the sequence of its labels, in lower case and without a port  *)
(* (normalizeHost); a URL is what the gate looks at.  A value is NotSet    *)
(* when it is absent or empty: the code takes both alike (||, !value).     *)
(***************************************************************************)
EXTENDS Integers, Sequences

NotSet == ""
Invalid == "invalid"    \* a text that is no cookie name
Or(value, other) == IF value = NotSet THEN other ELSE value

Host == Seq(STRING)
Url == [scheme : STRING, host : Host, plain : BOOLEAN]
    \* plain: no credentials, and the default port
NoUrl == [scheme |-> NotSet, host |-> <<>>, plain |-> FALSE]
    \* an empty text, or one that new URL rejects

Auth == [whoamiUrl : Url, signInUrl : Url, cookie : STRING,
         allowed : Seq(Host), verified : BOOLEAN]

(* A <SLUG>_BRAND_OVERRIDE: per field nothing, or the one value it names.  *)
Override == [whoamiUrl : SUBSET Url, signInUrl : SUBSET Url, cookie : SUBSET STRING,
             allowed : SUBSET Seq(Host), verified : SUBSET BOOLEAN]
NoOverride == [whoamiUrl |-> {}, signInUrl |-> {}, cookie |-> {},
               allowed |-> {}, verified |-> {}]

Provider == {"google", "dropbox", "facebook", "unsplash"}
    \* unsplash stands for the five nothing is wired for
Plugin == {"Facebook", "Dropbox", "GoogleDrivePicker", "GooglePhotosPicker", "Url"}

------------------------------------------------------------------------------
(* isWhoamiHostAllowed: an entry itself, or a host below one.              *)
Under(host, entry) ==
    /\ Len(entry) <= Len(host)
    /\ SubSeq(host, Len(host) - Len(entry) + 1, Len(host)) = entry

HostAllowed(host, allowed) == \E i \in 1..Len(allowed) : Under(host, allowed[i])

(* validateWhoamiUrl.                                                      *)
ValidUrl(url, allowed) ==
    url.scheme = "https" /\ url.plain /\ HostAllowed(url.host, allowed)

Overridden(values, base) == IF values = {} THEN base ELSE CHOOSE v \in values : TRUE

EffectiveAuthUnprotected(auth, override) ==
    [auth EXCEPT !.whoamiUrl = Overridden(override.whoamiUrl \ {NoUrl}, @),
                 !.signInUrl = Overridden(override.signInUrl \ {NoUrl}, @),
                 !.cookie = Overridden(override.cookie \ {NotSet, Invalid}, @),
                 !.allowed = Overridden(override.allowed, @),
                 !.verified = Overridden(override.verified, @)]

(* resolveEffectiveAuth: the fields that may be overridden, each by a      *)
(* usable value; the others keep the registry's.  (So is signOutUrl, which *)
(* only the list of brands shows.)                                         *)
EffectiveAuth(auth, override) ==
    [auth EXCEPT !.whoamiUrl = Overridden(override.whoamiUrl \ {NoUrl}, @),
                 !.signInUrl = Overridden(override.signInUrl \ {NoUrl}, @),
                 !.cookie = Overridden(override.cookie \ {NotSet, Invalid}, @)]

(* The targets a session cookie or an ingest token is sent to, none when   *)
(* the gate rejects the URL.  The brand's auth has its override already;   *)
(* the whoami and ingest targets merge it once more.                       *)
Gated(url, allowed) == IF ValidUrl(url, allowed) THEN {url} ELSE {}

WhoamiTarget(brand, override) ==
    LET auth == EffectiveAuth(brand.auth, override) IN Gated(auth.whoamiUrl, auth.allowed)

IngestTarget(brand, override) ==
    Gated(brand.ingest, EffectiveAuth(brand.auth, override).allowed)

FoldersTarget(brand) == Gated(brand.folders, brand.auth.allowed)

(* The cookie the session resolver reads and forwards, and the one         *)
(* serveUppyPage reads for the folders.                                    *)
SessionCookie(brand, override) == EffectiveAuth(brand.auth, override).cookie
FoldersCookie(brand) == brand.auth.cookie

(* corsForBrand, in front of /api: a page below the apex, in production    *)
(* over https only.                                                        *)
MayCall(brand, protocol, origin) ==
    /\ brand.auth.allowed # <<>>
    /\ \/ /\ origin.scheme = "https" \/ protocol = "http"
          /\ Under(origin.host, brand.auth.allowed[1]) /\ origin.host # brand.auth.allowed[1]
       \/ protocol = "http" /\ origin.scheme = "http" /\ origin.host = <<"localhost">>

(* The corsOrigins of the brand's Companion, which answers the routes that *)
(* are not under /api: the hosts of its pages, whatever the protocol.      *)
MayCallCompanion(brand, origin) ==
    origin.scheme = "https" /\ origin.plain /\ origin.host \in brand.domains

------------------------------------------------------------------------------
(* PLUGIN_PROVIDER_KEY: the provider behind a plugin's tab.                *)
ProviderOf == [Facebook |-> "facebook", Dropbox |-> "dropbox",
               GoogleDrivePicker |-> "google", GooglePhotosPicker |-> "google",
               Url |-> NotSet]

(* The tabs the keys of a brand would give it.                             *)
Detected(brand) == {p \in Plugin \ {"Url"} : ProviderOf[p] \in brand.providers}

TabsFallingBackToUrl(brand) ==
    IF brand.plugins # {} THEN brand.plugins ELSE Detected(brand) \cup {"Url"}

(* getEnabledPlugins: the tabs of the upload page.                         *)
Tabs(brand) ==
    IF brand.plugins # {} THEN brand.plugins
    ELSE IF Detected(brand) = {} THEN {} ELSE Detected(brand) \cup {"Url"}

WiredByCredentials(brand) == brand.providers \cap {"google", "dropbox", "facebook"}

(* buildProviderOptions: the OAuth backends Companion gets.                *)
Wired(brand) == {ProviderOf[p] : p \in brand.plugins} \cap brand.providers

(* parseCompanionUrl and buildValidHosts: the host of the redirect URIs,   *)
(* and the hosts Companion hands an OAuth answer over to.                  *)
RedirectHost(brand) ==
    IF brand.companionUrl = NoUrl THEN <<"localhost">> ELSE brand.companionUrl.host

ValidHosts(brand) ==
    brand.hosts \cup (IF brand.companionUrl = NoUrl THEN {} ELSE {brand.companionUrl.host})
=============================================================================
