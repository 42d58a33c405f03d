------------------------- MODULE MCRequestPipeline -------------------------
(***************************************************************************)
(* Instances of RequestPipeline for TLC.                                   *)
(***************************************************************************)
EXTENDS RequestPipeline, TLC

CONSTANTS one, two, slash, dot, original, stamp, a1, b1, b2

(* User "1" and user "12": the one id is a prefix of the other.            *)
User1 == <<one>>
User12 == <<one, two>>
Users == {User1, User12}
NoPrefix == <<>>

(* A key of each user's folder.                                            *)
Keys == {UserKeyPrefix(NoPrefix, u) \o <<stamp>> : u \in Users}
StampText == <<stamp, slash>>
Names == {<<one, dot, two>>}

(* User 1 at both brands, from one address, and a request for each path.   *)
From(path, host, cookie) ==
    [path |-> path, host |-> host, address |-> a1, cookie |-> cookie]
Asked ==
    {From("uppy", b1, User1), From("api", b2, User1),
     From("s3", b1, User1), From("preflight", b1, NoUser), From("asset", b1, NoUser),
     From("other", b2, NoUser), From("brands", NoBrand, NoUser),
     From("other", NoBrand, NoUser), From("probe", NoBrand, NoUser),
     From("health", b1, NoUser)}
==============================================================================
