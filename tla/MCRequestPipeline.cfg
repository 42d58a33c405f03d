\* Two requests at a time, users whose ids are prefixes of one another, two
\* brands, one address, one failing Redis command.
CONSTANTS
    one = one  two = two  slash = slash  dot = dot  original = original  stamp = stamp
    Char = {one, two, slash, dot, original, stamp}
    Slash = slash  Dot = dot  Original = original
    a1 = a1  b1 = b1  b2 = b2
    Request = {r1, r2}
    Address = {a1}
    Brand = {b1, b2}
    NoBrand = NoBrand
    User <- Users
    NoUser = NoUser
    NoRequest = NoRequest
    S3Prefix <- NoPrefix
    ClientKey <- Keys
    Stamp <- StampText
    FileName <- Names
    GlobalLimit = 1
    GlobalWindow = 2
    RouteLimit = 1
    RouteWindow = 1
    Traffic <- Asked
    MaxFaults = 1
SPECIFICATION FairSpec
INVARIANTS
    TypeOK
    PartnerShielded
    OwnBudget
    GrantsInOwnFolder
PROPERTIES
    EveryRequestAnswered
    RefusalsEnd
    LimitersSpec
