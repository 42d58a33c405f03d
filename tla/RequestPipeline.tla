-------------------------- MODULE RequestPipeline --------------------------
(***************************************************************************)
(* The middleware chain assembleApp builds, from the socket to an answer:  *)
(* the global limiter per address, the probes, the brand of the host, the  *)
(* session, attachUser, CORS, the route limiter per brand and user, and    *)
(* then the upload page, the S3 handlers or Companion.  Replicas share     *)
(* nothing but the limiters' counters in Redis, so a request may run on    *)
(* any of them; between two middlewares any other request may move.        *)
(*                                                                         *)
(* The session resolver is abstracted to its results (SessionResolver has  *)
(* the rest), the handlers of an upload to the URLs they sign.             *)
(***************************************************************************)
EXTENDS ObjectKeys

CONSTANTS
    Request,        \* requests that can be under way at the same time
    Address, Brand, NoBrand,
    User,           \* users of every brand: partners number theirs alike
    NoUser, NoRequest,
    S3Prefix,       \* the brands' key prefix
    ClientKey,      \* the keys a client may name
    Stamp, FileName,    \* the date part of a key, and names
    GlobalLimit, GlobalWindow, RouteLimit, RouteWindow,
    Traffic,        \* what clients may ask, and with whose cookie
    MaxFaults

\* "probe" is a GET of healthz or readyz, "health" another method on those paths.
Path == {"probe", "health", "brands", "uppy", "asset", "preflight", "api", "s3", "other"}
Asks == [path : Path, host : Brand \cup {NoBrand}, address : Address,
         cookie : User \cup {NoUser}]

ASSUME PipelineAssumption ==
    /\ Traffic \subseteq Asks
    /\ NoBrand \notin Brand /\ NoUser \notin User
    /\ User \subseteq UserId /\ S3Prefix \in Text /\ ClientKey \subseteq Text
    /\ Stamp \in Text /\ FileName \subseteq Text
    /\ Address \cap User = {}
    /\ {GlobalLimit, GlobalWindow, RouteLimit, RouteWindow} \subseteq Nat \ {0}
    /\ MaxFaults \in Nat

VARIABLES
    at,             \* the middleware each request is about to enter
    request,        \* what it asks, and with whose cookie
    session,        \* req.sessionResult
    user,           \* req.user
    granted,        \* the key an answer lets its client use, whose session
                    \* was accepted, and where the key comes from
    global, route,  \* the limiters' counters: hits, and the window's rest
    admitted,       \* requests the global limiter let pass in this window
    passed,         \* requests under way that the global limiter counted
    asked,          \* times a request made the resolver ask
    chargedBy,      \* whose requests each route counter holds
    faults

requestVars == <<request, session, user, asked>>
limiterVars == <<global, route, admitted, chargedBy>>
vars == <<at, requestVars, granted, passed, limiterVars, faults>>

Place == {"free", "global", "session", "attach", "limit", "auth", "page", "folders",
          "render", "asset", "bundle", "sign", "companion", "hung"}
Session == {"none", "authenticated", "refused"}
Client == Brand \X (User \cup Address)
Counter(limit, window) == [hits : 0..(limit + 1), rest : 0..window]
Unused == [hits |-> 0, rest |-> 0]
\* A key is built by buildS3Key, checked by keyBelongsToUser, or only named
\* by the client.
Via == {"none", "built", "checked", "named"}
NoGrant == [to |-> NoUser, via |-> "none", key |-> <<>>]

TypeOK ==
    /\ at \in [Request -> Place]
    /\ request \in [Request -> Traffic \cup {NoRequest}]
    /\ session \in [Request -> Session]
    /\ user \in [Request -> User \cup {NoUser}]
    /\ granted \in [Request -> [to : User \cup {NoUser}, via : Via, key : Text]]
    /\ global \in [Address -> Counter(GlobalLimit, GlobalWindow)]
    /\ route \in [Client -> Counter(RouteLimit, RouteWindow)]
    /\ admitted \in [Address -> Nat]
    /\ passed \subseteq Request
    /\ asked \in [Request -> Nat]
    /\ chargedBy \in [Client -> SUBSET Client]
    /\ faults \in 0..MaxFaults

Init ==
    /\ at = [r \in Request |-> "free"]
    /\ request = [r \in Request |-> NoRequest]
    /\ session = [r \in Request |-> "none"]
    /\ user = [r \in Request |-> NoUser]
    /\ granted = [r \in Request |-> NoGrant]
    /\ global = [a \in Address |-> Unused]
    /\ route = [c \in Client |-> Unused]
    /\ admitted = [a \in Address |-> 0]
    /\ passed = {}
    /\ asked = [r \in Request |-> 0]
    /\ chargedBy = [c \in Client |-> {}]
    /\ faults = 0

------------------------------------------------------------------------------
(* A Redis command that fails; the budget keeps the instances small.       *)
Fault == faults < MaxFaults /\ faults' = faults + 1
NoFault == UNCHANGED faults

Enter(r, place) ==
    at' = [at EXCEPT ![r] = place] /\ UNCHANGED <<request, granted, passed>>

Forward(r, place) == Enter(r, place) /\ UNCHANGED <<session, user>>

(* An answer is sent, with a key when the handler grants one, and nothing  *)
(* of the request is left.                                                 *)
Respond(r, grant) ==
    /\ at' = [at EXCEPT ![r] = "free"]
    /\ request' = [request EXCEPT ![r] = NoRequest]
    /\ session' = [session EXCEPT ![r] = "none"]
    /\ user' = [user EXCEPT ![r] = NoUser]
    /\ granted' = [granted EXCEPT ![r] = grant]
    /\ passed' = passed \ {r}

Answer(r) == Respond(r, NoGrant)

(* Whose session the resolver accepted on the request, by its cookie.      *)
Accepted(r) == IF session[r] = "authenticated" THEN request[r].cookie ELSE NoUser

Grant(r, via, key) == Respond(r, [to |-> Accepted(r), via |-> via, key |-> key])

(* A client sends a request, to any replica.                               *)
Arrive(r, asks) ==
    /\ at[r] = "free"
    /\ at' = [at EXCEPT ![r] = "global"]
    /\ request' = [request EXCEPT ![r] = asks]
    /\ granted' = [granted EXCEPT ![r] = NoGrant]
    /\ asked' = [asked EXCEPT ![r] = 0]
    /\ UNCHANGED <<session, user, passed, limiterVars, faults>>

(* A client stops waiting for an answer that never comes.                  *)
Leave(r) ==
    /\ at[r] = "hung"
    /\ Answer(r)
    /\ UNCHANGED <<asked, limiterVars, faults>>

(* rate-limit-redis counts in one script: a key that is gone starts a      *)
(* window with its first hit, later hits leave the window's end alone.     *)
CountSliding(c, limit, window) ==
    [hits |-> IF c.hits > limit THEN c.hits ELSE c.hits + 1, rest |-> window]

Count(c, limit, window) ==
    [hits |-> IF c.hits > limit THEN c.hits ELSE c.hits + 1,
     rest |-> IF c.rest = 0 THEN window ELSE c.rest]

Hit(a) == Count(global[a], GlobalLimit, GlobalWindow)

(* The list of the brands, with what is configured for each when the key   *)
(* is right: secrets masked, from what was resolved at boot.               *)
ListBrands(r) == request[r].path = "brands" /\ Answer(r)

(* Behind the probes and the list of brands a request needs a brand's host. *)
Admit(r, counted) ==
    \/ ListBrands(r)
    \/ request[r].path # "brands" /\ request[r].host = NoBrand /\ Answer(r)
    \/ /\ request[r].path # "brands" /\ request[r].host # NoBrand
       /\ at' = [at EXCEPT ![r] = "session"] /\ passed' = counted
       /\ UNCHANGED <<request, session, user, granted>>

LetThrough(r) ==
    LET a == request[r].address IN
    /\ admitted' = [admitted EXCEPT ![a] = @ + 1]
    /\ Admit(r, passed \cup {r})

(* What `skip' exempts, by the path alone, whatever the method.            *)
Exempt(r) == request[r].path \in {"probe", "health"}

GlobalLimiterFailingOpen(r) ==
    LET a == request[r].address IN
    /\ at[r] = "global" /\ ~ Exempt(r)
    /\ UNCHANGED <<asked, route, chargedBy>>
    /\ \/ /\ NoFault /\ global' = [global EXCEPT ![a] = Hit(a)] /\ Hit(a).hits > GlobalLimit
          /\ Answer(r) /\ UNCHANGED admitted
       \/ /\ \/ Fault /\ UNCHANGED global
             \/ NoFault /\ Hit(a).hits <= GlobalLimit /\ global' = [global EXCEPT ![a] = Hit(a)]
          /\ LetThrough(r)

(* The limiter every path but the two exempt ones goes through; a store    *)
(* that fails, with or without having counted, ends the request.           *)
GlobalLimiter(r) ==
    LET a == request[r].address IN
    /\ at[r] = "global" /\ ~ Exempt(r)
    /\ UNCHANGED <<asked, route, chargedBy>>
    /\ \/ /\ Fault /\ Answer(r)
          /\ global' \in {global, [global EXCEPT ![a] = Hit(a)]}
          /\ UNCHANGED admitted
       \/ /\ NoFault /\ global' = [global EXCEPT ![a] = Hit(a)]
          /\ \/ /\ Hit(a).hits > GlobalLimit
                /\ Answer(r) /\ UNCHANGED admitted
             \/ Hit(a).hits <= GlobalLimit /\ LetThrough(r)

(* The handlers of healthz and readyz answer a GET, without a brand.       *)
Probe(r) ==
    /\ at[r] = "global" /\ request[r].path = "probe"
    /\ Answer(r)
    /\ UNCHANGED <<asked, limiterVars, faults>>

SkipEverything(r) ==
    /\ at[r] = "global" /\ request[r].path # "probe"
    /\ Admit(r, passed)
    /\ UNCHANGED <<asked, limiterVars, faults>>

(* Another method on a probe's path is not counted and no handler's: it    *)
(* goes on like any request that needs a brand's host.                     *)
SkipLimiter(r) ==
    /\ at[r] = "global" /\ request[r].path = "health"
    /\ Admit(r, passed)
    /\ UNCHANGED <<asked, limiterVars, faults>>

(* express-session: Companion's own session, from Redis when it has one.   *)
LoadSession(r) ==
    /\ at[r] = "session"
    /\ \/ NoFault /\ Forward(r, "attach")
       \/ Fault /\ Answer(r)
    /\ UNCHANGED <<asked, limiterVars>>

BehindForgettingNext(r) ==
    \/ request[r].path = "preflight" /\ Answer(r)
    \/ request[r].path # "preflight" /\ Forward(r, "hung")

(* The chain behind attachUser, by path: corsForBrand answers an OPTIONS   *)
(* request itself, before the route limiter.                               *)
Behind(r) ==
    \/ request[r].path \in {"preflight", "health"} /\ Answer(r)
    \/ request[r].path # "preflight" /\
       \E result \in {"authenticated", "refused"} :
          /\ result = "authenticated" => request[r].cookie # NoUser
          /\ session' = [session EXCEPT ![r] = result]
          /\ user' = [user EXCEPT ![r] =
                IF result = "authenticated" THEN request[r].cookie ELSE NoUser]
          /\ \/ request[r].path \in {"uppy", "api", "health"} /\ Enter(r, "limit")
             \/ request[r].path = "asset" /\ Enter(r, "asset")
             \/ request[r].path = "s3" /\ Enter(r, "auth")
             \/ request[r].path = "other" /\ Enter(r, "companion")

(* attachUser: the resolver's result (its three ways to fail differ in the *)
(* refusal's status only), and on to the next middleware in every case.  A *)
(* breaker command that rejects leaves the request hanging.                *)
AttachUser(r) ==
    /\ at[r] = "attach"
    /\ asked' = [asked EXCEPT ![r] = @ + 1]
    /\ \/ NoFault /\ Behind(r)
       \/ Fault /\ Forward(r, "hung")
    /\ UNCHANGED limiterVars

ClientKeyWithoutBrand(r) ==
    <<CHOOSE b \in Brand : TRUE,
      IF user[r] # NoUser THEN user[r] ELSE request[r].address>>

(* The route limiter's key: the brand, and the user or else the address.   *)
LimiterKey(r) ==
    <<request[r].host, IF user[r] # NoUser THEN user[r] ELSE request[r].address>>

(* Whose request it is, by its cookie; nobody's when it is not accepted.   *)
Identity(r) ==
    <<request[r].host,
      IF session[r] = "authenticated" THEN request[r].cookie ELSE request[r].address>>

ChargeWithGlobalWindow(k) == Count(route[k], RouteLimit, GlobalWindow)

(* A hit on the route limiter's own counter, with its own window.          *)
Charge(k) == Count(route[k], RouteLimit, RouteWindow)

RouteLimiter(r) ==
    LET k == LimiterKey(r)
        c == Charge(k)
    IN
    /\ at[r] = "limit"
    /\ \/ /\ Fault /\ Answer(r)
          /\ \/ UNCHANGED <<route, chargedBy>>
             \/ /\ route' = [route EXCEPT ![k] = c]
                /\ chargedBy' = [chargedBy EXCEPT ![k] = @ \cup {Identity(r)}]
       \/ /\ NoFault
          /\ route' = [route EXCEPT ![k] = c]
          /\ chargedBy' = [chargedBy EXCEPT ![k] = @ \cup {Identity(r)}]
          /\ \/ c.hits > RouteLimit /\ Answer(r)
             \/ /\ c.hits <= RouteLimit
                /\ Forward(r, IF request[r].path = "uppy" THEN "page" ELSE "auth")
    /\ UNCHANGED <<asked, global, admitted>>

RequireAuthAskingAgain(r) ==
    /\ at[r] = "auth"
    /\ \/ /\ user[r] # NoUser /\ UNCHANGED asked
          /\ Forward(r, IF request[r].path = "api" THEN "sign" ELSE "companion")
       \/ /\ user[r] = NoUser
          /\ asked' = [asked EXCEPT ![r] = @ + 1]
          /\ Answer(r)
    /\ UNCHANGED <<limiterVars, faults>>

(* requireAuth takes the result attachUser left on the request: without a  *)
(* user the answer is 401, 403 or 503.  It stands before every path of     *)
(* /api, those the router has no handler for included, and before /s3.     *)
RequireAuth(r) ==
    /\ at[r] = "auth"
    /\ \/ /\ user[r] # NoUser
          /\ Forward(r, IF request[r].path = "api" THEN "sign" ELSE "companion")
       \/ /\ user[r] = NoUser
          /\ Answer(r)
    /\ UNCHANGED <<asked, limiterVars, faults>>

(* redirectToLoginOrShowError, or the page that asks the embedding one.    *)
AskToSignIn(r) == user[r] = NoUser /\ Answer(r)

(* fetchFolders: without a URL or a usable cookie there is nothing to ask; *)
(* else the brand is asked, for at most five seconds.                      *)
FetchFolders(r) ==
    user[r] # NoUser /\ (Forward(r, "render") \/ Forward(r, "folders"))

(* serveUppyPage: the page needs a user, and renders with whatever folders *)
(* it got, none when the brand failed, refused or was too slow.            *)
ServePage(r) ==
    /\ \/ at[r] = "page" /\ (AskToSignIn(r) \/ FetchFolders(r))
       \/ at[r] = "folders" /\ Forward(r, "render")
       \/ at[r] = "render" /\ Answer(r)
    /\ UNCHANGED <<asked, limiterVars, faults>>

(* serveUppyModalJs and serveUppyCss: the built file, or an error, or,     *)
(* where nothing was built, a bundle made on the spot.                     *)
ServeAsset(r) ==
    /\ \/ at[r] = "asset" /\ (Answer(r) \/ Forward(r, "bundle"))
       \/ at[r] = "bundle" /\ Answer(r)
    /\ UNCHANGED <<asked, limiterVars, faults>>

NewKey(r) == {BuiltKey(S3Prefix, user[r], Stamp, name) : name \in FileName}

(* signS3 and createMultipartUpload make a key, unless something is        *)
(* missing, outside the limits or fails.                                   *)
SignNew(r) == Answer(r) \/ \E key \in NewKey(r) : Grant(r, "built", key)

(* signPart and listParts, complete and abort alike, are given a key, and  *)
(* refuse one that is not in the user's folder.                            *)
UseKey(r) ==
    \/ Answer(r)
    \/ \E key \in ClientKey : KeyOwned(S3Prefix, user[r], key) /\ Grant(r, "checked", key)

(* The router behind /api/uppy.                                            *)
Sign(r) ==
    /\ at[r] = "sign" /\ (SignNew(r) \/ UseKey(r))
    /\ UNCHANGED <<asked, limiterVars, faults>>

(* The brand's own Companion, where everything ends that no route took.    *)
(* Its S3 endpoints that start an upload ask getKey, that is buildS3Key,   *)
(* which throws without a user; the later ones of a multipart upload take  *)
(* the key the client names.                                               *)
Companion(r) ==
    /\ at[r] = "companion"
    /\ \/ Answer(r)
       \/ /\ request[r].path = "s3"
          /\ \/ user[r] # NoUser /\ \E key \in NewKey(r) : Grant(r, "built", key)
             \/ \E key \in ClientKey : Grant(r, "named", key)
    /\ UNCHANGED <<asked, limiterVars, faults>>

(* Time passes in Redis: a counter whose window ends is gone.              *)
Aged(c) == IF c.rest <= 1 THEN Unused ELSE [c EXCEPT !.rest = @ - 1]

Tick ==
    /\ \/ \E a \in Address : global[a].rest > 0
       \/ \E c \in Client : route[c].rest > 0
    /\ global' = [a \in Address |-> Aged(global[a])]
    /\ route' = [c \in Client |-> Aged(route[c])]
    /\ admitted' = [a \in Address |-> IF global[a].rest <= 1 THEN 0 ELSE admitted[a]]
    /\ chargedBy' = [c \in Client |-> IF route[c].rest <= 1 THEN {} ELSE chargedBy[c]]
    /\ UNCHANGED <<at, requestVars, granted, passed, faults>>

------------------------------------------------------------------------------
Handle(r) ==
    \/ GlobalLimiter(r) \/ Probe(r) \/ SkipLimiter(r) \/ LoadSession(r)
    \/ AttachUser(r) \/ RouteLimiter(r) \/ RequireAuth(r)
    \/ ServePage(r) \/ ServeAsset(r) \/ Sign(r) \/ Companion(r)

Next ==
    \/ \E r \in Request : Handle(r) \/ Leave(r) \/ \E asks \in Traffic : Arrive(r, asks)
    \/ Tick

Spec == Init /\ [][Next]_vars

(* Node runs every middleware to its end, and time passes.                 *)
Fairness == WF_vars(Tick) /\ \A r \in Request : WF_vars(Handle(r))

FairSpec == Spec /\ Fairness

------------------------------------------------------------------------------
(* The global limiter lets at most GlobalLimit requests of an address pass *)
(* in a window, over all replicas and while Redis fails.  A request makes  *)
(* the resolver ask at most once, attachUser and requireAuth together, and *)
(* none does that the limiter did not count, but for those with another    *)
(* method on a probe's path, which `skip' exempts as well.                 *)
PartnerShielded ==
    /\ \A a \in Address : admitted[a] <= GlobalLimit
    /\ \A r \in Request :
          /\ asked[r] <= 1
          /\ asked[r] > 0 /\ at[r] # "free" => r \in passed \/ request[r].path = "health"

(* The route limiter refuses a signed-in user for the requests of that     *)
(* user at that brand only: nobody else's are in the counter, neither the  *)
(* same number's at another brand nor those without a session.             *)
OwnBudget ==
    \A b \in Brand, u \in User : chargedBy[<<b, u>>] \subseteq {<<b, u>>}

(* Keys are granted to signed-in users only, and one that was built here,  *)
(* for the brand's API or for Companion, or that the API took from the     *)
(* client, lies in the folder of that user and of no other.  A key that    *)
(* Companion's later multipart endpoints took from the client may be any.  *)
GrantsInOwnFolder ==
    \A r \in Request :
        granted[r] # NoGrant =>
            /\ granted[r].to \in User
            /\ granted[r].via # "named" =>
                  \A u \in User : StartsWith(granted[r].key, UserKeyPrefix(S3Prefix, u))
                                      <=> u = granted[r].to

(* Every request is answered, unless a breaker command rejects under it.   *)
EveryRequestAnswered ==
    \A r \in Request :
        at[r] = "global" ~> at[r] = "free" \/ (at[r] = "hung" /\ faults > 0)

(* An address that was refused is let through again, however many requests *)
(* it goes on sending: refused requests do not keep its window from ending. *)
RefusalsEnd ==
    \A a \in Address : global[a].hits > GlobalLimit ~> global[a].hits <= GlobalLimit

(* Both limiters, over all replicas and whatever Redis loses of them, are  *)
(* fixed windows: the global one in what it lets through, failing requests *)
(* included, the route one in what it counts up to its limit.              *)
Charged(c) == IF route[c].hits < RouteLimit THEN route[c].hits ELSE RouteLimit

GlobalWindows == INSTANCE FixedWindow WITH
    Source <- Address, Limit <- GlobalLimit, Span <- GlobalWindow,
    spent <- admitted, left <- [a \in Address |-> global[a].rest]

RouteWindows == INSTANCE FixedWindow WITH
    Source <- Client, Limit <- RouteLimit, Span <- RouteWindow,
    spent <- [c \in Client |-> Charged(c)], left <- [c \in Client |-> route[c].rest]

LimitersSpec == GlobalWindows!Spec /\ RouteWindows!Spec
==============================================================================
