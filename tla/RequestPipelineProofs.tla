----------------------- MODULE RequestPipelineProofs -----------------------
(***************************************************************************)
(* Proofs about RequestPipeline, for any number of requests, addresses,    *)
(* brands and users, any limits and windows, and any texts as user ids,    *)
(* names and keys that a client may send.                                  *)
(***************************************************************************)
EXTENDS RequestPipeline, ObjectKeysProofs

(* A window lets no more requests pass than it has counted hits.           *)
AdmittedAreCounted ==
    \A a \in Address : admitted[a] <= global[a].hits /\ admitted[a] <= GlobalLimit

(* A request has a user only from its own cookie, a brand once it is past  *)
(* the lookup of its host, and by then the global limiter has counted it   *)
(* or has skipped it for its path.                                         *)
Attached(r) ==
    /\ at[r] # "free" => request[r] \in Traffic
    /\ at[r] \notin {"free", "global"} =>
          request[r].host \in Brand /\ (r \in passed \/ request[r].path = "health")
    /\ at[r] = "free" => session[r] = "none"
    /\ at[r] = "sign" \/ (at[r] = "companion" /\ request[r].path = "s3")
          => user[r] \in User
    /\ user[r] # NoUser => session[r] = "authenticated"
    /\ session[r] = "authenticated" => user[r] = request[r].cookie /\ user[r] \in User

(* The resolver is asked when attachUser runs, and not before or after.    *)
AskedOnce(r) ==
    asked[r] <= 1 /\ (at[r] \in {"global", "session", "attach"} => asked[r] = 0)

(* A granted key is a signed-in user's, and in the folder of that user     *)
(* unless Companion took it from the client.                               *)
Owned(grant) ==
    /\ grant.to \in User
    /\ grant.via # "named" => KeyOwned(S3Prefix, grant.to, grant.key)

GrantedOwn(r) == granted[r] # NoGrant => Owned(granted[r])

PipelineInv ==
    /\ TypeOK
    /\ AdmittedAreCounted
    /\ OwnBudget
    /\ \A r \in Request : Attached(r) /\ AskedOnce(r) /\ GrantedOwn(r)

LEMMA AsksType ==
    ASSUME NEW asks \in Traffic
    PROVE  /\ asks.path \in Path /\ asks.host \in Brand \cup {NoBrand}
           /\ asks.address \in Address /\ asks.cookie \in User \cup {NoUser}
BY PipelineAssumption DEF Asks

LEMMA CountType ==
    ASSUME NEW limit \in Nat \ {0}, NEW window \in Nat \ {0},
           NEW c \in Counter(limit, window)
    PROVE  /\ Count(c, limit, window) \in Counter(limit, window)
           /\ Count(c, limit, window).hits >= c.hits
           /\ Count(c, limit, window).hits <= limit
                => Count(c, limit, window).hits = c.hits + 1
           /\ Aged(c) \in Counter(limit, window)
           /\ c.rest > 1 => Aged(c).hits = c.hits
BY DEF Counter, Count, Aged, Unused

LEMMA PipelineInit == Init => PipelineInv
<1> SUFFICES ASSUME Init PROVE PipelineInv
  OBVIOUS
<1>1. TypeOK
  BY PipelineAssumption DEF Init, TypeOK, Place, Session, Counter, Unused, NoGrant, Via, Text
<1>2. AdmittedAreCounted /\ OwnBudget
  BY PipelineAssumption DEF Init, AdmittedAreCounted, OwnBudget, Unused, Client
<1>3. \A r \in Request : Attached(r) /\ AskedOnce(r) /\ GrantedOwn(r)
  BY DEF Init, Attached, AskedOnce, GrantedOwn
<1> QED
  BY <1>1, <1>2, <1>3 DEF PipelineInv

(* What one request's moves leave of the others' facts.                    *)
LEMMA OthersKept ==
    ASSUME PipelineInv, NEW r \in Request, NEW q \in Request, q # r,
           at'[q] = at[q], request'[q] = request[q], session'[q] = session[q],
           user'[q] = user[q], granted'[q] = granted[q], asked'[q] = asked[q],
           q \in passed => q \in passed'
    PROVE  Attached(q)' /\ AskedOnce(q)' /\ GrantedOwn(q)'
BY DEF PipelineInv, Attached, AskedOnce, GrantedOwn, Owned

LEMMA ForwardKeeps ==
    ASSUME PipelineInv, NEW r \in Request,
           NEW place \in Place \ {"free", "global", "session"},
           at[r] \notin {"free", "global"},
           place = "sign" \/ (place = "companion" /\ request[r].path = "s3")
              => user[r] \in User,
           place = "attach" => asked'[r] = 0,
           asked' \in [Request -> Nat], asked'[r] <= 1,
           \A q \in Request : q # r => asked'[q] = asked[q],
           Forward(r, place)
    PROVE  /\ at' \in [Request -> Place]
           /\ request' \in [Request -> Traffic \cup {NoRequest}]
           /\ session' \in [Request -> Session] /\ user' \in [Request -> User \cup {NoUser}]
           /\ granted' \in [Request -> [to : User \cup {NoUser}, via : Via, key : Text]]
           /\ passed' \subseteq Request
           /\ \A q \in Request : Attached(q)' /\ AskedOnce(q)' /\ GrantedOwn(q)'
<1>1. Attached(r)' /\ AskedOnce(r)' /\ GrantedOwn(r)'
  BY DEF PipelineInv, TypeOK, Forward, Enter, Attached, AskedOnce, GrantedOwn
<1>2. \A q \in Request : q # r => Attached(q)' /\ AskedOnce(q)' /\ GrantedOwn(q)'
  BY OthersKept DEF PipelineInv, TypeOK, Forward, Enter
<1> QED
  BY <1>1, <1>2 DEF PipelineInv, TypeOK, Forward, Enter

LEMMA RespondKeeps ==
    ASSUME PipelineInv, NEW r \in Request, NEW grant,
           \/ grant = NoGrant
           \/ /\ grant \in [to : User, via : Via, key : Text]
              /\ Owned(grant),
           UNCHANGED asked, Respond(r, grant)
    PROVE  /\ at' \in [Request -> Place]
           /\ request' \in [Request -> Traffic \cup {NoRequest}]
           /\ session' \in [Request -> Session] /\ user' \in [Request -> User \cup {NoUser}]
           /\ granted' \in [Request -> [to : User \cup {NoUser}, via : Via, key : Text]]
           /\ passed' \subseteq Request
           /\ \A q \in Request : Attached(q)' /\ AskedOnce(q)' /\ GrantedOwn(q)'
<1>1. Attached(r)' /\ AskedOnce(r)' /\ GrantedOwn(r)'
  BY DEF PipelineInv, TypeOK, Respond, Attached, AskedOnce, GrantedOwn
<1>2. \A q \in Request : q # r => Attached(q)' /\ AskedOnce(q)' /\ GrantedOwn(q)'
  BY OthersKept DEF PipelineInv, TypeOK, Respond
<1>3. grant \in [to : User \cup {NoUser}, via : Via, key : Text]
  <2>1. <<>> \in Text
    BY DEF Text
  <2>2. CASE grant = NoGrant
    BY <2>1, <2>2 DEF NoGrant, Via
  <2>3. CASE grant \in [to : User, via : Via, key : Text]
    BY <2>3
  <2> QED
    BY <2>2, <2>3
<1> QED
  BY <1>1, <1>2, <1>3 DEF PipelineInv, TypeOK, Respond, Place, Session

(* Every action preserves the invariant, one step per action.              *)
LEMMA PipelineStep == PipelineInv /\ [Next]_vars => PipelineInv'
<1> SUFFICES ASSUME PipelineInv, [Next]_vars PROVE PipelineInv'
  OBVIOUS
<1>0. UNCHANGED limiterVars => AdmittedAreCounted' /\ OwnBudget'
  BY DEF limiterVars, PipelineInv, AdmittedAreCounted, OwnBudget
<1>a. ASSUME NEW r \in Request, UNCHANGED <<asked, limiterVars>>, Answer(r), faults' \in 0..MaxFaults
      PROVE  PipelineInv'
  BY <1>a, <1>0, RespondKeeps DEF Answer, PipelineInv, TypeOK, limiterVars
<1>b. ASSUME NEW r \in Request, UNCHANGED <<asked, limiterVars>>,
             NEW key \in Text, NEW via \in Via,
             via # "named" => KeyOwned(S3Prefix, user[r], key),
             user[r] \in User, Grant(r, via, key), UNCHANGED faults
      PROVE  PipelineInv'
  <2>1. Accepted(r) = user[r]
    <3>1. user[r] # NoUser
      BY <1>b, PipelineAssumption
    <3> QED
      BY <3>1 DEF PipelineInv, Attached, Accepted
  <2> PICK grant : grant = [to |-> Accepted(r), via |-> via, key |-> key]
    OBVIOUS
  <2>2. grant \in [to : User, via : Via, key : Text] /\ Owned(grant)
    BY <1>b, <2>1 DEF Owned
  <2>3. Respond(r, grant)
    BY <1>b DEF Grant
  <2> QED
    BY <1>b, <1>0, <2>2, <2>3, RespondKeeps DEF PipelineInv, TypeOK, limiterVars
<1>c. ASSUME NEW r \in Request, UNCHANGED <<asked, limiterVars>>,
             NEW place \in Place \ {"free", "global", "session", "attach"},
             at[r] \notin {"free", "global"},
             place = "sign" \/ (place = "companion" /\ request[r].path = "s3")
                => user[r] \in User,
             Forward(r, place), UNCHANGED faults
      PROVE  PipelineInv'
  <2>1. asked \in [Request -> Nat] /\ asked[r] <= 1
    BY DEF PipelineInv, TypeOK, AskedOnce
  <2> QED
    BY <1>c, <1>0, <2>1, ForwardKeeps DEF PipelineInv, TypeOK, limiterVars
<1>1. ASSUME NEW r \in Request, NEW asks \in Traffic, Arrive(r, asks) PROVE PipelineInv'
  <2>1. TypeOK'
    BY <1>1 DEF Arrive, PipelineInv, TypeOK, Place, limiterVars, NoGrant, Via, Text
  <2>2. Attached(r)' /\ AskedOnce(r)' /\ GrantedOwn(r)'
    BY <1>1 DEF Arrive, PipelineInv, TypeOK, Attached, AskedOnce, GrantedOwn
  <2>3. \A q \in Request : q # r => Attached(q)' /\ AskedOnce(q)' /\ GrantedOwn(q)'
    BY <1>1, OthersKept DEF Arrive, PipelineInv, TypeOK
  <2> QED
    BY <1>0, <1>1, <2>1, <2>2, <2>3 DEF Arrive, PipelineInv
<1>2. ASSUME NEW r \in Request, Leave(r) PROVE PipelineInv'
  BY <1>2, <1>a DEF Leave, PipelineInv, TypeOK
<1>3. ASSUME NEW r \in Request, Probe(r) PROVE PipelineInv'
  BY <1>3, <1>a DEF Probe, PipelineInv, TypeOK
<1>m. ASSUME NEW r \in Request, at[r] = "global", NEW counted,
             counted \in {passed, passed \cup {r}}, r \in counted \/ request[r].path = "health",
             Admit(r, counted), UNCHANGED <<asked, route, chargedBy>>,
             global' \in [Address -> Counter(GlobalLimit, GlobalWindow)],
             admitted' \in [Address -> Nat], faults' \in 0..MaxFaults, AdmittedAreCounted'
      PROVE  PipelineInv'
  <2>1. OwnBudget'
    BY <1>m DEF OwnBudget, PipelineInv
  <2>2. CASE Answer(r)
    BY <1>m, <2>1, <2>2, RespondKeeps DEF Answer, PipelineInv, TypeOK
  <2>3. CASE /\ request[r].host # NoBrand
             /\ at' = [at EXCEPT ![r] = "session"] /\ passed' = counted
             /\ UNCHANGED <<request, session, user, granted>>
    <3>1. request[r] \in Traffic /\ request[r].host \in Brand
      BY <1>m, <2>3, AsksType DEF PipelineInv, Attached
    <3>2. Attached(r)' /\ AskedOnce(r)' /\ GrantedOwn(r)'
      BY <1>m, <2>3, <3>1 DEF PipelineInv, TypeOK, Attached, AskedOnce, GrantedOwn
    <3>3. \A q \in Request : q # r => Attached(q)' /\ AskedOnce(q)' /\ GrantedOwn(q)'
      BY <1>m, <2>3, OthersKept DEF PipelineInv, TypeOK
    <3>4. TypeOK'
      BY <1>m, <2>3 DEF PipelineInv, TypeOK, Place
    <3> QED
      BY <1>m, <2>1, <3>2, <3>3, <3>4 DEF PipelineInv
  <2> QED
    BY <1>m, <2>2, <2>3 DEF Admit, ListBrands
<1>s. ASSUME NEW r \in Request, SkipLimiter(r) PROVE PipelineInv'
  BY <1>s, <1>m, <1>0 DEF SkipLimiter, PipelineInv, TypeOK, limiterVars
<1>4. ASSUME NEW r \in Request, GlobalLimiter(r) PROVE PipelineInv'
  <2> DEFINE a == request[r].address
  <2>1. at[r] = "global" /\ request[r] \in Traffic /\ a \in Address /\ asked[r] = 0
    BY <1>4, AsksType DEF GlobalLimiter, PipelineInv, Attached, AskedOnce
  <2>2. /\ Hit(a) \in Counter(GlobalLimit, GlobalWindow) /\ Hit(a).hits >= global[a].hits
        /\ Hit(a).hits <= GlobalLimit => Hit(a).hits = global[a].hits + 1
    BY <2>1, CountType, PipelineAssumption DEF Hit, PipelineInv, TypeOK
  <2>3. global' \in [Address -> Counter(GlobalLimit, GlobalWindow)] /\ faults' \in 0..MaxFaults
    <3>1. global' \in {global, [global EXCEPT ![a] = Hit(a)]}
      BY <1>4 DEF GlobalLimiter
    <3>2. Fault \/ NoFault
      BY <1>4 DEF GlobalLimiter
    <3> QED
      BY <2>1, <2>2, <3>1, <3>2, PipelineAssumption DEF Fault, NoFault, PipelineInv, TypeOK
  <2>4. admitted' \in [Address -> Nat] /\ AdmittedAreCounted'
    <3>1. \A x \in Address : global[x].hits \in Nat /\ admitted[x] \in Nat /\ Hit(a).hits \in Nat
      BY <2>2, PipelineAssumption DEF Counter, PipelineInv, TypeOK
    <3>2. CASE UNCHANGED admitted
      BY <2>1, <2>2, <3>1, <3>2, <1>4, PipelineAssumption
         DEF GlobalLimiter, PipelineInv, TypeOK, AdmittedAreCounted
    <3>3. CASE /\ Hit(a).hits <= GlobalLimit /\ admitted' = [admitted EXCEPT ![a] = @ + 1]
               /\ global' = [global EXCEPT ![a] = Hit(a)]
      BY <2>1, <2>2, <3>1, <3>3, PipelineAssumption DEF PipelineInv, TypeOK, AdmittedAreCounted
    <3> QED
      BY <1>4, <3>2, <3>3 DEF GlobalLimiter, LetThrough
  <2>5. Answer(r) \/ Admit(r, passed \cup {r})
    BY <1>4 DEF GlobalLimiter, LetThrough
  <2>6. UNCHANGED <<asked, route, chargedBy>>
    BY <1>4 DEF GlobalLimiter
  <2>7. OwnBudget'
    BY <2>6 DEF OwnBudget, PipelineInv
  <2>8. CASE Answer(r)
    BY <2>3, <2>4, <2>6, <2>7, <2>8, RespondKeeps DEF Answer, PipelineInv, TypeOK
  <2>9. CASE Admit(r, passed \cup {r})
    BY <1>m, <2>1, <2>3, <2>4, <2>6, <2>9
  <2> QED
    BY <2>5, <2>8, <2>9
<1>5. ASSUME NEW r \in Request, LoadSession(r) PROVE PipelineInv'
  <2>1. at[r] = "session" /\ request[r].host \in Brand /\ asked[r] = 0 /\ asked \in [Request -> Nat]
    BY <1>5 DEF LoadSession, PipelineInv, TypeOK, Attached, AskedOnce
  <2>2. CASE NoFault /\ Forward(r, "attach")
    BY <1>5, <1>0, <2>1, <2>2, ForwardKeeps
       DEF LoadSession, PipelineInv, TypeOK, Place, limiterVars, NoFault
  <2>3. CASE Fault /\ Answer(r)
    BY <1>5, <1>a, <2>3, PipelineAssumption DEF LoadSession, PipelineInv, TypeOK, Fault
  <2> QED
    BY <1>5, <2>2, <2>3 DEF LoadSession
<1>6. ASSUME NEW r \in Request, RequireAuth(r) PROVE PipelineInv'
  <2>1. at[r] = "auth" /\ request[r].host \in Brand /\ user[r] \in User \cup {NoUser}
    BY <1>6 DEF RequireAuth, PipelineInv, TypeOK, Attached
  <2>2. CASE user[r] # NoUser /\ (Forward(r, "sign") \/ Forward(r, "companion"))
    BY <1>6, <1>c, <2>1, <2>2 DEF RequireAuth, Place
  <2>3. CASE Answer(r)
    BY <1>6, <1>a, <2>3 DEF RequireAuth, PipelineInv, TypeOK
  <2> QED
    BY <1>6, <2>2, <2>3 DEF RequireAuth
<1>7. ASSUME NEW r \in Request, ServePage(r) PROVE PipelineInv'
  <2>1. CASE Answer(r)
    BY <1>7, <1>a, <2>1 DEF ServePage, PipelineInv, TypeOK
  <2>2. CASE at[r] \in {"page", "folders"} /\ (Forward(r, "render") \/ Forward(r, "folders"))
    BY <1>7, <1>c, <2>2 DEF ServePage, PipelineInv, Attached, Place
  <2> QED
    BY <1>7, <2>1, <2>2 DEF ServePage, AskToSignIn, FetchFolders
<1>8. ASSUME NEW r \in Request, ServeAsset(r) PROVE PipelineInv'
  <2>1. CASE Answer(r)
    BY <1>8, <1>a, <2>1 DEF ServeAsset, PipelineInv, TypeOK
  <2>2. CASE at[r] = "asset" /\ Forward(r, "bundle")
    BY <1>8, <1>c, <2>2 DEF ServeAsset, PipelineInv, Attached, Place
  <2> QED
    BY <1>8, <2>1, <2>2 DEF ServeAsset
<1>9. ASSUME NEW r \in Request, user[r] \in User, NEW key \in NewKey(r)
      PROVE  key \in Text /\ KeyOwned(S3Prefix, user[r], key)
  <2> PICK u \in User : u = user[r]
    BY <1>9
  <2> PICK name \in FileName : key = BuiltKey(S3Prefix, u, Stamp, name)
    BY <1>9 DEF NewKey
  <2> QED
    BY BuiltKeyFits, PipelineAssumption
<1>10. ASSUME NEW r \in Request, Sign(r) PROVE PipelineInv'
  <2>1. at[r] = "sign" /\ user[r] \in User /\ UNCHANGED <<asked, limiterVars, faults>>
    BY <1>10 DEF Sign, PipelineInv, Attached
  <2>2. CASE Answer(r)
    BY <1>a, <2>1, <2>2 DEF PipelineInv, TypeOK
  <2>3. ASSUME NEW key \in NewKey(r), Grant(r, "built", key) PROVE PipelineInv'
    BY <1>b, <1>9, <2>1, <2>3 DEF Via
  <2>4. ASSUME NEW key \in ClientKey, KeyOwned(S3Prefix, user[r], key),
               Grant(r, "checked", key)
        PROVE  PipelineInv'
    BY <1>b, <2>1, <2>4, PipelineAssumption DEF Via
  <2> QED
    BY <1>10, <2>2, <2>3, <2>4 DEF Sign, SignNew, UseKey
<1>11. ASSUME NEW r \in Request, Companion(r) PROVE PipelineInv'
  <2>1. at[r] = "companion" /\ UNCHANGED <<asked, limiterVars, faults>>
    BY <1>11 DEF Companion
  <2>2. CASE Answer(r)
    BY <1>a, <2>1, <2>2 DEF PipelineInv, TypeOK
  <2>3. request[r].path = "s3" => user[r] \in User
    BY <2>1 DEF PipelineInv, Attached
  <2>4. ASSUME request[r].path = "s3", NEW key \in NewKey(r), Grant(r, "built", key)
        PROVE  PipelineInv'
    BY <1>b, <1>9, <2>1, <2>3, <2>4 DEF Via
  <2>5. ASSUME request[r].path = "s3", NEW key \in ClientKey, Grant(r, "named", key)
        PROVE  PipelineInv'
    BY <1>b, <2>1, <2>3, <2>5, PipelineAssumption DEF Via
  <2> QED
    BY <1>11, <2>2, <2>4, <2>5 DEF Companion
<1>12. ASSUME NEW r \in Request, AttachUser(r) PROVE PipelineInv'
  <2>1. /\ at[r] = "attach" /\ request[r] \in Traffic /\ request[r].host \in Brand
        /\ session[r] \in Session /\ user[r] \in User \cup {NoUser}
        /\ asked[r] = 0 /\ request[r].cookie \in User \cup {NoUser}
    BY <1>12, AsksType DEF AttachUser, PipelineInv, TypeOK, Attached, AskedOnce
  <2>2. /\ asked' \in [Request -> Nat] /\ asked'[r] = 1
        /\ \A q \in Request : q # r => asked'[q] = asked[q]
        /\ faults' \in 0..MaxFaults /\ UNCHANGED limiterVars
    BY <1>12, <2>1, PipelineAssumption DEF AttachUser, Fault, NoFault, PipelineInv, TypeOK
  <2>3. CASE Forward(r, "hung")
    BY <1>0, <2>1, <2>2, <2>3, ForwardKeeps DEF PipelineInv, TypeOK, limiterVars, Place
  <2>4. CASE Answer(r)
    <3>1. /\ at' = [at EXCEPT ![r] = "free"] /\ session' = [session EXCEPT ![r] = "none"]
          /\ user' = [user EXCEPT ![r] = NoUser] /\ granted' = [granted EXCEPT ![r] = NoGrant]
          /\ request' = [request EXCEPT ![r] = NoRequest] /\ passed' = passed \ {r}
      BY <2>4 DEF Answer, Respond
    <3>2. Attached(r)' /\ AskedOnce(r)' /\ GrantedOwn(r)'
      BY <2>2, <3>1 DEF PipelineInv, TypeOK, Attached, AskedOnce, GrantedOwn
    <3>3. \A q \in Request : q # r => Attached(q)' /\ AskedOnce(q)' /\ GrantedOwn(q)'
      BY <2>2, <3>1, OthersKept DEF PipelineInv, TypeOK
    <3>4. TypeOK'
      BY <2>2, <3>1 DEF PipelineInv, TypeOK, Place, Session, NoGrant, Via, Text, limiterVars
    <3> QED
      BY <1>0, <2>2, <3>2, <3>3, <3>4 DEF PipelineInv
  <2>5. ASSUME NEW result \in {"authenticated", "refused"},
               result = "authenticated" => request[r].cookie # NoUser,
               session' = [session EXCEPT ![r] = result],
               user' = [user EXCEPT ![r] =
                  IF result = "authenticated" THEN request[r].cookie ELSE NoUser],
               NEW place \in {"limit", "asset", "auth", "companion"}, Enter(r, place),
               place = "companion" => request[r].path # "s3"
        PROVE  PipelineInv'
    <3>1. Attached(r)' /\ AskedOnce(r)' /\ GrantedOwn(r)'
      BY <2>1, <2>2, <2>5 DEF Enter, PipelineInv, TypeOK, Attached, AskedOnce, GrantedOwn
    <3>2. \A q \in Request : q # r => Attached(q)' /\ AskedOnce(q)' /\ GrantedOwn(q)'
      BY <2>2, <2>5, OthersKept DEF Enter, PipelineInv, TypeOK
    <3>3. TypeOK'
      BY <2>1, <2>2, <2>5 DEF Enter, PipelineInv, TypeOK, Place, Session, limiterVars
    <3> QED
      BY <1>0, <2>2, <3>1, <3>2, <3>3 DEF PipelineInv
  <2> QED
    BY <1>12, <2>3, <2>4, <2>5 DEF AttachUser, Behind
<1>13. ASSUME NEW r \in Request, RouteLimiter(r) PROVE PipelineInv'
  <2> DEFINE k == LimiterKey(r)
  <2>1. /\ at[r] = "limit" /\ request[r] \in Traffic /\ request[r].host \in Brand
        /\ user[r] \in User \cup {NoUser} /\ request[r].address \in Address
        /\ request[r].cookie \in User \cup {NoUser}
    BY <1>13, AsksType DEF RouteLimiter, PipelineInv, TypeOK, Attached
  <2>2. k \in Client /\ Identity(r) \in Client /\ (k \in Brand \X User => Identity(r) = k)
    BY <2>1, PipelineAssumption DEF PipelineInv, Attached, LimiterKey, Identity, Client
  <2>3. Count(route[k], RouteLimit, RouteWindow) \in Counter(RouteLimit, RouteWindow)
    BY <2>2, CountType, PipelineAssumption DEF PipelineInv, TypeOK
  <2>4. /\ route' \in [Client -> Counter(RouteLimit, RouteWindow)]
        /\ chargedBy' \in [Client -> SUBSET Client] /\ OwnBudget'
        /\ faults' \in 0..MaxFaults /\ UNCHANGED <<asked, global, admitted>>
    <3>1. \/ UNCHANGED <<route, chargedBy>>
          \/ /\ route' = [route EXCEPT ![k] = Count(route[k], RouteLimit, RouteWindow)]
             /\ chargedBy' = [chargedBy EXCEPT ![k] = @ \cup {Identity(r)}]
      BY <1>13 DEF RouteLimiter, Charge
    <3>2. OwnBudget'
      BY <2>2, <3>1 DEF OwnBudget, PipelineInv, TypeOK, Client
    <3>3. faults' \in 0..MaxFaults /\ UNCHANGED <<asked, global, admitted>>
      BY <1>13, PipelineAssumption DEF RouteLimiter, Fault, NoFault, PipelineInv, TypeOK
    <3>4. /\ route \in [Client -> Counter(RouteLimit, RouteWindow)]
          /\ chargedBy \in [Client -> SUBSET Client]
      BY DEF PipelineInv, TypeOK
    <3>5. route' \in [Client -> Counter(RouteLimit, RouteWindow)]
      BY <2>2, <2>3, <3>1, <3>4
    <3>6. chargedBy' \in [Client -> SUBSET Client]
      <4> DEFINE S == chargedBy[k] \cup {Identity(r)}
      <4>1. S \in SUBSET Client
        BY <2>2, <3>4
      <4>2. chargedBy' = chargedBy \/ chargedBy' = [chargedBy EXCEPT ![k] = S]
        BY <3>1
      <4> HIDE DEF S
      <4> QED
        BY <2>2, <3>4, <4>1, <4>2
    <3> QED
      BY <3>2, <3>3, <3>5, <3>6
  <2>5. AdmittedAreCounted' /\ asked \in [Request -> Nat] /\ asked[r] <= 1
    BY <2>4 DEF AdmittedAreCounted, AskedOnce, PipelineInv, TypeOK
  <2>6. CASE Answer(r)
    BY <2>4, <2>5, <2>6, RespondKeeps DEF Answer, PipelineInv, TypeOK
  <2>7. CASE Forward(r, "page") \/ Forward(r, "auth")
    BY <2>1, <2>4, <2>5, <2>7, ForwardKeeps DEF PipelineInv, TypeOK, Place
  <2> QED
    BY <1>13, <2>6, <2>7 DEF RouteLimiter
<1>14. CASE Tick
  <2>1. \A a \in Address : /\ Aged(global[a]) \in Counter(GlobalLimit, GlobalWindow)
                           /\ global[a].rest > 1 => Aged(global[a]).hits = global[a].hits
    BY CountType, PipelineAssumption DEF PipelineInv, TypeOK
  <2>2. \A c \in Client : Aged(route[c]) \in Counter(RouteLimit, RouteWindow)
    BY CountType, PipelineAssumption DEF PipelineInv, TypeOK
  <2>3. TypeOK'
    BY <1>14, <2>1, <2>2 DEF Tick, PipelineInv, TypeOK, requestVars
  <2>4. AdmittedAreCounted'
    <3>1. \A a \in Address : global[a].rest \in Nat /\ Aged(global[a]).hits \in Nat
      BY <2>1, PipelineAssumption DEF PipelineInv, TypeOK, Counter
    <3> QED
      BY <1>14, <2>1, <3>1, PipelineAssumption DEF Tick, PipelineInv, AdmittedAreCounted
  <2>5. OwnBudget'
    BY <1>14 DEF Tick, PipelineInv, OwnBudget, Client
  <2>6. \A r \in Request : Attached(r)' /\ AskedOnce(r)' /\ GrantedOwn(r)'
    BY <1>14 DEF Tick, requestVars, PipelineInv, Attached, AskedOnce, GrantedOwn, Owned
  <2> QED
    BY <2>3, <2>4, <2>5, <2>6 DEF PipelineInv
<1>15. CASE UNCHANGED vars
  BY <1>15 DEF vars, requestVars, limiterVars, PipelineInv, TypeOK, AdmittedAreCounted,
               OwnBudget, Attached, AskedOnce, GrantedOwn, Owned
<1> QED
  BY <1>1, <1>2, <1>3, <1>s, <1>4, <1>5, <1>6, <1>7, <1>8, <1>10, <1>11, <1>12, <1>13, <1>14,
     <1>15 DEF Next, Handle

(* Every variable keeps its type: no request is ever at two middlewares or *)
(* at none, no counter runs past its limit or its window.                  *)
THEOREM PipelineTypeCorrect == Spec => []TypeOK
<1>1. PipelineInv => TypeOK
  BY DEF PipelineInv
<1> QED
  BY <1>1, PipelineInit, PipelineStep, PTL DEF Spec

(* The global limiter, failing or not, lets no more requests of an address *)
(* pass in a window than its limit.  attachUser and requireAuth together   *)
(* ask the partner's whoami once for a request, and only for one it has    *)
(* counted or, for its path, skipped.                                      *)
THEOREM PartnerIsShielded == Spec => []PartnerShielded
<1>1. PipelineInv => PartnerShielded
  <2> SUFFICES ASSUME PipelineInv PROVE PartnerShielded
    OBVIOUS
  <2>1. ASSUME NEW r \in Request, asked[r] > 0, at[r] # "free"
        PROVE  r \in passed \/ request[r].path = "health"
    <3>1. at[r] # "global"
      BY <2>1 DEF PipelineInv, AskedOnce
    <3> QED
      BY <2>1, <3>1 DEF PipelineInv, Attached
  <2> QED
    BY <2>1 DEF PipelineInv, PartnerShielded, AdmittedAreCounted, AskedOnce
<1> QED
  BY <1>1, PipelineInit, PipelineStep, PTL DEF Spec

(* buildRateLimiter's counters of signed-in users hold nobody else's       *)
(* requests.                                                               *)
THEOREM BudgetsAreOwn == Spec => []OwnBudget
<1>1. PipelineInv => OwnBudget
  BY DEF PipelineInv
<1> QED
  BY <1>1, PipelineInit, PipelineStep, PTL DEF Spec

(* Whatever the ids and the keys named, a key is granted to signed-in      *)
(* users only, and one that was built or checked is in the folder of that  *)
(* user and, as no key is in two users' folders, of no other user.         *)
THEOREM GrantsStayInTheFolder == Spec => []GrantsInOwnFolder
<1>1. PipelineInv => GrantsInOwnFolder
  <2> SUFFICES ASSUME PipelineInv, NEW r \in Request, granted[r] # NoGrant
               PROVE  /\ granted[r].to \in User
                      /\ granted[r].via # "named" =>
                            \A u \in User :
                               StartsWith(granted[r].key, UserKeyPrefix(S3Prefix, u))
                                  <=> u = granted[r].to
    BY DEF GrantsInOwnFolder
  <2>1. Owned(granted[r])
    BY DEF PipelineInv, GrantedOwn
  <2>2. ASSUME granted[r].via # "named", NEW u \in User
        PROVE  StartsWith(granted[r].key, UserKeyPrefix(S3Prefix, u)) <=> u = granted[r].to
    <3> PICK to \in User : to = granted[r].to
      BY <2>1 DEF Owned
    <3> PICK key \in Text : key = granted[r].key
      BY DEF PipelineInv, TypeOK
    <3>1. KeyOwned(S3Prefix, to, key)
      BY <2>1, <2>2 DEF Owned
    <3>2. KeyOwned(S3Prefix, u, key) => u = to
      BY <3>1, OwnersDisjoint, PipelineAssumption
    <3> QED
      BY <3>1, <3>2 DEF KeyOwned
  <2> QED
    BY <2>1, <2>2 DEF Owned
<1> QED
  BY <1>1, PipelineInit, PipelineStep, PTL DEF Spec

------------------------------------------------------------------------------
(* What a step may do to the limiters: nothing, a hit on one counter of    *)
(* one of them, or the passing of time.                                    *)
GlobalHit(a) ==
    /\ UNCHANGED route
    /\ \/ UNCHANGED admitted /\ global' \in {global, [global EXCEPT ![a] = Hit(a)]}
       \/ /\ Hit(a).hits <= GlobalLimit
          /\ admitted' = [admitted EXCEPT ![a] = @ + 1]
          /\ global' = [global EXCEPT ![a] = Hit(a)]

RouteHit(k) ==
    /\ UNCHANGED <<global, admitted>>
    /\ \/ UNCHANGED route
       \/ route' = [route EXCEPT ![k] = Count(route[k], RouteLimit, RouteWindow)]

LEMMA LimiterMoves ==
    PipelineInv /\ [Next]_vars =>
        \/ UNCHANGED <<global, route, admitted>>
        \/ \E a \in Address : GlobalHit(a)
        \/ \E k \in Client : RouteHit(k)
        \/ Tick
<1> SUFFICES ASSUME PipelineInv, [Next]_vars
             PROVE  \/ UNCHANGED <<global, route, admitted>>
                    \/ \E a \in Address : GlobalHit(a)
                    \/ \E k \in Client : RouteHit(k)
                    \/ Tick
  OBVIOUS
<1>1. ASSUME NEW r \in Request, GlobalLimiter(r) PROVE \E a \in Address : GlobalHit(a)
  <2>1. request[r].address \in Address
    BY <1>1, AsksType DEF GlobalLimiter, PipelineInv, Attached
  <2>2. GlobalHit(request[r].address)
    BY <1>1 DEF GlobalLimiter, LetThrough, GlobalHit
  <2> QED
    BY <2>1, <2>2
<1>2. ASSUME NEW r \in Request, RouteLimiter(r) PROVE \E k \in Client : RouteHit(k)
  <2>1. /\ request[r] \in Traffic /\ request[r].host \in Brand
        /\ user[r] \in User \cup {NoUser}
    BY <1>2 DEF RouteLimiter, PipelineInv, TypeOK, Attached
  <2>2. LimiterKey(r) \in Client
    BY <2>1, AsksType DEF LimiterKey, Client
  <2>3. RouteHit(LimiterKey(r))
    BY <1>2 DEF RouteLimiter, RouteHit, Charge
  <2> QED
    BY <2>2, <2>3
<1>3. ASSUME NEW r \in Request,
             \/ Probe(r) \/ SkipLimiter(r) \/ LoadSession(r) \/ AttachUser(r) \/ RequireAuth(r)
             \/ ServePage(r) \/ ServeAsset(r) \/ Sign(r) \/ Companion(r) \/ Leave(r)
             \/ \E asks \in Traffic : Arrive(r, asks)
      PROVE  UNCHANGED <<global, route, admitted>>
  BY <1>3 DEF Probe, SkipLimiter, LoadSession, AttachUser, RequireAuth, ServePage, ServeAsset,
              Sign, Companion, Leave, Arrive, limiterVars
<1>4. CASE UNCHANGED vars
  BY <1>4 DEF vars, limiterVars
<1> QED
  BY <1>1, <1>2, <1>3, <1>4 DEF Next, Handle

(* A counter without a window is one that is not there.                    *)
WindowsCount ==
    /\ \A a \in Address : global[a].rest = 0 => global[a].hits = 0
    /\ \A c \in Client : route[c].rest = 0 => route[c].hits = 0

LEMMA WindowsInit == Init => WindowsCount
BY DEF Init, WindowsCount, Unused

LEMMA CountOpens ==
    ASSUME NEW limit \in Nat \ {0}, NEW window \in Nat \ {0},
           NEW c \in Counter(limit, window), c.rest = 0 => c.hits = 0
    PROVE  /\ Count(c, limit, window).rest = IF c.rest = 0 THEN window ELSE c.rest
           /\ Count(c, limit, window).hits = IF c.hits > limit THEN c.hits ELSE c.hits + 1
           /\ Count(c, limit, window).rest # 0
           /\ Aged(c).rest = IF c.rest > 0 THEN c.rest - 1 ELSE 0
           /\ Aged(c).hits = IF c.rest > 1 THEN c.hits ELSE 0
           /\ Aged(c).rest = 0 => Aged(c).hits = 0
BY DEF Counter, Count, Aged, Unused

LEMMA WindowsStep == PipelineInv /\ WindowsCount /\ [Next]_vars => WindowsCount'
<1> SUFFICES ASSUME PipelineInv, WindowsCount, [Next]_vars PROVE WindowsCount'
  OBVIOUS
<1>0. /\ global \in [Address -> Counter(GlobalLimit, GlobalWindow)]
      /\ route \in [Client -> Counter(RouteLimit, RouteWindow)]
  BY DEF PipelineInv, TypeOK
<1>1. CASE UNCHANGED <<global, route, admitted>>
  BY <1>1 DEF WindowsCount
<1>2. ASSUME NEW a \in Address, GlobalHit(a) PROVE WindowsCount'
  <2>1. Hit(a).rest # 0
    BY <1>0, CountOpens, PipelineAssumption DEF WindowsCount, Hit
  <2> QED
    BY <1>0, <1>2, <2>1 DEF GlobalHit, WindowsCount
<1>3. ASSUME NEW k \in Client, RouteHit(k) PROVE WindowsCount'
  <2>1. Count(route[k], RouteLimit, RouteWindow).rest # 0
    BY <1>0, CountOpens, PipelineAssumption DEF WindowsCount
  <2> QED
    BY <1>0, <1>3, <2>1 DEF RouteHit, WindowsCount
<1>4. CASE Tick
  <2>1. \A a \in Address : Aged(global[a]).rest = 0 => Aged(global[a]).hits = 0
    BY <1>0, CountOpens, PipelineAssumption DEF WindowsCount
  <2>2. \A c \in Client : Aged(route[c]).rest = 0 => Aged(route[c]).hits = 0
    BY <1>0, CountOpens, PipelineAssumption DEF WindowsCount
  <2> QED
    BY <1>4, <2>1, <2>2 DEF Tick, WindowsCount
<1> QED
  BY <1>1, <1>2, <1>3, <1>4, LimiterMoves

LEMMA GlobalWindowStep ==
    PipelineInv /\ WindowsCount /\ [Next]_vars => [GlobalWindows!Next]_(GlobalWindows!vars)
<1> SUFFICES ASSUME PipelineInv, WindowsCount, [Next]_vars
             PROVE  [GlobalWindows!Next]_(GlobalWindows!vars)
  OBVIOUS
<1> DEFINE Left == [a \in Address |-> global[a].rest]
<1>0. /\ global \in [Address -> Counter(GlobalLimit, GlobalWindow)]
      /\ admitted \in [Address -> Nat]
      /\ \A a \in Address : global[a].rest \in 0..GlobalWindow /\ global[a].hits \in Nat
  BY PipelineAssumption DEF PipelineInv, TypeOK, Counter
<1>1. ASSUME UNCHANGED <<global, admitted>> PROVE UNCHANGED GlobalWindows!vars
  BY <1>1 DEF GlobalWindows!vars
<1>2. ASSUME NEW a \in Address, GlobalHit(a)
      PROVE  [GlobalWindows!Next]_(GlobalWindows!vars)
  <2>1. CASE UNCHANGED <<global, admitted>>
    BY <1>1, <2>1
  <2>2. CASE global' = [global EXCEPT ![a] = Hit(a)]
    <3>1. /\ Hit(a).rest = IF global[a].rest = 0 THEN GlobalWindow ELSE global[a].rest
          /\ Hit(a).hits <= GlobalLimit => admitted[a] < GlobalLimit
      BY <1>0, CountOpens, PipelineAssumption
         DEF WindowsCount, Hit, PipelineInv, AdmittedAreCounted
    <3>2. Left' = [Left EXCEPT ![a] = IF @ = 0 THEN GlobalWindow ELSE @]
      BY <1>0, <2>2, <3>1
    <3>3. \/ UNCHANGED admitted
          \/ admitted[a] < GlobalLimit /\ admitted' = [admitted EXCEPT ![a] = @ + 1]
      BY <1>2, <3>1 DEF GlobalHit
    <3>4. GlobalWindows!TakeHit(a)
      BY <3>2, <3>3 DEF GlobalWindows!TakeHit
    <3> QED
      BY <3>4 DEF GlobalWindows!Next
  <2> QED
    BY <1>2, <2>1, <2>2 DEF GlobalHit
<1>3. CASE Tick
  <2>1. \A a \in Address : Aged(global[a]).rest = IF global[a].rest > 0 THEN global[a].rest - 1 ELSE 0
    BY <1>0, CountOpens, PipelineAssumption DEF WindowsCount
  <2>2. Left' = [a \in Address |-> IF Left[a] > 0 THEN Left[a] - 1 ELSE 0]
    BY <1>3, <2>1 DEF Tick
  <2>3. admitted' = [a \in Address |-> IF Left[a] > 1 THEN admitted[a] ELSE 0]
    BY <1>0, <1>3 DEF Tick
  <2>4. CASE \E a \in Address : global[a].rest > 0
    <3>1. \E a \in Address : Left[a] > 0
      BY <2>4
    <3>2. GlobalWindows!Elapse
      BY <2>2, <2>3, <3>1 DEF GlobalWindows!Elapse
    <3> QED
      BY <3>2 DEF GlobalWindows!Next
  <2>5. CASE \A a \in Address : ~ global[a].rest > 0
    <3>1. \A a \in Address : global[a].rest = 0 /\ admitted[a] = 0
      BY <1>0, <2>5, PipelineAssumption DEF WindowsCount, PipelineInv, AdmittedAreCounted
    <3>2. admitted' = admitted /\ Left' = Left
      BY <1>0, <2>2, <2>3, <3>1
    <3> QED
      BY <3>2 DEF GlobalWindows!vars
  <2> QED
    BY <2>4, <2>5
<1>4. ASSUME NEW k \in Client, RouteHit(k) PROVE UNCHANGED GlobalWindows!vars
  BY <1>1, <1>4 DEF RouteHit
<1> QED
  BY <1>1, <1>2, <1>3, <1>4, LimiterMoves

LEMMA RouteWindowStep ==
    PipelineInv /\ WindowsCount /\ [Next]_vars => [RouteWindows!Next]_(RouteWindows!vars)
<1> SUFFICES ASSUME PipelineInv, WindowsCount, [Next]_vars
             PROVE  [RouteWindows!Next]_(RouteWindows!vars)
  OBVIOUS
<1> DEFINE Left == [c \in Client |-> route[c].rest]
           Spent == [c \in Client |-> Charged(c)]
<1>0. /\ route \in [Client -> Counter(RouteLimit, RouteWindow)]
      /\ RouteLimit \in Nat \ {0} /\ RouteWindow \in Nat \ {0}
      /\ \A c \in Client : route[c].rest \in 0..RouteWindow /\ route[c].hits \in 0..(RouteLimit + 1)
  BY PipelineAssumption DEF PipelineInv, TypeOK, Counter
<1>1. ASSUME UNCHANGED route PROVE UNCHANGED RouteWindows!vars
  BY <1>1 DEF RouteWindows!vars, Charged
<1>2. ASSUME NEW k \in Client, RouteHit(k)
      PROVE  [RouteWindows!Next]_(RouteWindows!vars)
  <2> DEFINE n == Count(route[k], RouteLimit, RouteWindow)
  <2>1. CASE UNCHANGED route
    BY <1>1, <2>1
  <2>2. CASE route' = [route EXCEPT ![k] = n]
    <3>1. /\ n.rest = IF route[k].rest = 0 THEN RouteWindow ELSE route[k].rest
          /\ n.hits = IF route[k].hits > RouteLimit THEN route[k].hits ELSE route[k].hits + 1
      BY <1>0, CountOpens DEF WindowsCount
    <3> HIDE DEF n
    <3>2. Left' = [Left EXCEPT ![k] = IF @ = 0 THEN RouteWindow ELSE @]
      BY <1>0, <2>2, <3>1
    <3>3. Charged(k)' = IF n.hits < RouteLimit THEN n.hits ELSE RouteLimit
      BY <1>0, <2>2 DEF Charged
    <3>4. \A c \in Client \ {k} : Charged(c)' = Charged(c)
      BY <1>0, <2>2 DEF Charged
    <3>5. CASE Charged(k) < RouteLimit
      <4>1. Charged(k)' = Charged(k) + 1
        BY <1>0, <3>1, <3>3, <3>5 DEF Charged
      <4>2. Spent' = [Spent EXCEPT ![k] = @ + 1] /\ Spent[k] < RouteLimit
        BY <3>4, <3>5, <4>1
      <4>3. RouteWindows!TakeHit(k)
        BY <3>2, <4>2 DEF RouteWindows!TakeHit
      <4> QED
        BY <4>3 DEF RouteWindows!Next
    <3>6. CASE ~ Charged(k) < RouteLimit
      <4>1. Charged(k)' = Charged(k)
        BY <1>0, <3>1, <3>3, <3>6 DEF Charged
      <4>2. Spent' = Spent
        BY <3>4, <4>1
      <4>3. RouteWindows!TakeHit(k)
        BY <3>2, <4>2 DEF RouteWindows!TakeHit
      <4> QED
        BY <4>3 DEF RouteWindows!Next
    <3> QED
      BY <3>5, <3>6
  <2> QED
    BY <1>2, <2>1, <2>2 DEF RouteHit
<1>3. CASE Tick
  <2>1. \A c \in Client :
           /\ Aged(route[c]).rest = IF route[c].rest > 0 THEN route[c].rest - 1 ELSE 0
           /\ Aged(route[c]).hits = IF route[c].rest > 1 THEN route[c].hits ELSE 0
    BY <1>0, CountOpens DEF WindowsCount
  <2>2. Left' = [c \in Client |-> IF Left[c] > 0 THEN Left[c] - 1 ELSE 0]
    BY <1>3, <2>1 DEF Tick
  <2>3. \A c \in Client : Charged(c)' = IF route[c].rest > 1 THEN Charged(c) ELSE 0
    BY <1>0, <1>3, <2>1 DEF Tick, Charged
  <2>4. Spent' = [c \in Client |-> IF Left[c] > 1 THEN Spent[c] ELSE 0]
    BY <2>3
  <2>5. CASE \E c \in Client : route[c].rest > 0
    <3>1. \E c \in Client : Left[c] > 0
      BY <2>5
    <3>2. RouteWindows!Elapse
      BY <2>2, <2>4, <3>1 DEF RouteWindows!Elapse
    <3> QED
      BY <3>2 DEF RouteWindows!Next
  <2>6. CASE \A c \in Client : ~ route[c].rest > 0
    <3>1. \A c \in Client : route[c].rest = 0 /\ Charged(c) = 0
      BY <1>0, <2>6 DEF WindowsCount, Charged
    <3>2. Spent' = Spent /\ Left' = Left
      BY <2>2, <2>4, <3>1
    <3> QED
      BY <3>2 DEF RouteWindows!vars
  <2> QED
    BY <2>5, <2>6
<1>4. ASSUME NEW a \in Address, GlobalHit(a) PROVE UNCHANGED RouteWindows!vars
  BY <1>1, <1>4 DEF GlobalHit
<1> QED
  BY <1>1, <1>2, <1>3, <1>4, LimiterMoves

(* The two limiters implement fixed windows, for any number of sources and *)
(* requests and whatever Redis commands fail: no window lets more through  *)
(* than its limit, and no hit moves the end of the one it falls in.        *)
THEOREM LimitersAreFixedWindows == Spec => LimitersSpec
<1>1. Init => GlobalWindows!Init /\ RouteWindows!Init
  BY PipelineAssumption
     DEF Init, Unused, Charged, GlobalWindows!Init, RouteWindows!Init
<1>2. PipelineInv /\ WindowsCount /\ [Next]_vars => (PipelineInv /\ WindowsCount)'
  BY PipelineStep, WindowsStep
<1> QED
  BY <1>1, <1>2, PipelineInit, WindowsInit, GlobalWindowStep, RouteWindowStep, PTL
     DEF Spec, LimitersSpec, GlobalWindows!Spec, RouteWindows!Spec

------------------------------------------------------------------------------
(* The handlers a request may still meet.                                  *)
Ahead(place) ==
    IF place = "global" THEN 7
    ELSE IF place = "session" THEN 6
    ELSE IF place = "attach" THEN 5
    ELSE IF place = "limit" THEN 4
    ELSE IF place \in {"page", "asset", "auth"} THEN 3
    ELSE IF place = "folders" THEN 2
    ELSE IF place \in {"render", "bundle", "sign", "companion"} THEN 1
    ELSE 0

(* A request is moved by its own handlers only, whatever the others do     *)
(* meanwhile, and every one of them brings it nearer to its answer: the    *)
(* chain of next() calls has no way back.                                  *)
RequestsMoveOn ==
    [][\A r \in Request :
          /\ Handle(r) => Ahead(at'[r]) < Ahead(at[r])
          /\ ~ Handle(r) /\ at[r] \notin {"free", "hung"} => at'[r] = at[r]]_vars

LEMMA HandlersMoveOn ==
    ASSUME PipelineInv, NEW r \in Request, Handle(r)
    PROVE  /\ Ahead(at'[r]) < Ahead(at[r])
           /\ \A q \in Request \ {r} : at'[q] = at[q]
<1> USE DEF PipelineInv, TypeOK, Ahead, Answer, Grant, Respond, Forward, Enter
<1>1. CASE GlobalLimiter(r)
  BY <1>1 DEF GlobalLimiter, LetThrough, Admit, ListBrands
<1>2. CASE Probe(r) \/ SkipLimiter(r) \/ LoadSession(r)
  BY <1>2 DEF Probe, SkipLimiter, LoadSession, Admit, ListBrands
<1>3. CASE AttachUser(r)
  BY <1>3 DEF AttachUser, Behind
<1>4. CASE RouteLimiter(r)
  BY <1>4 DEF RouteLimiter
<1>5. CASE RequireAuth(r)
  BY <1>5 DEF RequireAuth
<1>6. CASE ServePage(r) \/ ServeAsset(r)
  BY <1>6 DEF ServePage, AskToSignIn, FetchFolders, ServeAsset
<1>7. CASE Sign(r) \/ Companion(r)
  BY <1>7 DEF Sign, SignNew, UseKey, Companion
<1> QED
  BY <1>1, <1>2, <1>3, <1>4, <1>5, <1>6, <1>7 DEF Handle

(* So no request waits for another one or goes round in circles: seven     *)
(* handlers at most stand between its arrival and its answer.              *)
THEOREM EveryHandlerMovesOn == Spec => RequestsMoveOn
<1>1. PipelineInv /\ [Next]_vars =>
        [\A r \in Request :
            /\ Handle(r) => Ahead(at'[r]) < Ahead(at[r])
            /\ ~ Handle(r) /\ at[r] \notin {"free", "hung"} => at'[r] = at[r]]_vars
  <2> SUFFICES ASSUME PipelineInv, Next, NEW r \in Request
               PROVE  /\ Handle(r) => Ahead(at'[r]) < Ahead(at[r])
                      /\ ~ Handle(r) /\ at[r] \notin {"free", "hung"} => at'[r] = at[r]
    BY Zenon
  <2>1. Handle(r) => Ahead(at'[r]) < Ahead(at[r])
    BY HandlersMoveOn
  <2>2. ASSUME ~ Handle(r), at[r] \notin {"free", "hung"} PROVE at'[r] = at[r]
    <3>1. ASSUME NEW q \in Request, Handle(q) PROVE at'[r] = at[r]
      BY <2>2, <3>1, HandlersMoveOn
    <3>2. ASSUME NEW q \in Request, Leave(q) \/ \E asks \in Traffic : Arrive(q, asks)
          PROVE  at'[r] = at[r]
      BY <2>2, <3>2 DEF Leave, Answer, Respond, Arrive, PipelineInv, TypeOK
    <3>3. CASE Tick
      BY <3>3 DEF Tick
    <3> QED
      BY <3>1, <3>2, <3>3 DEF Next
  <2> QED
    BY <2>1, <2>2
<1> QED
  BY <1>1, PipelineInit, PipelineStep, PTL DEF Spec, RequestsMoveOn
=============================================================================
