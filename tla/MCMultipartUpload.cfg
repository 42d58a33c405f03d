\* One file, up to three handlers of it at a time, up to three faults, and a
\* browser that goes on retrying.
CONSTANTS
    u1 = u1  u2 = u2  r1 = r1  r2 = r2  r3 = r3  k1 = k1  k2 = k2
    Upload = {u1}
    Request = {r1, r2, r3}
    Key = {k1}
    KeyOf <- OwnKeys
    NoUpload = NoUpload
    NoRequest = NoRequest
    MaxFaults = 3
SPECIFICATION FairSpec
CHECK_DEADLOCK FALSE
INVARIANTS
    TypeOK
    LibraryHoldsOnlyCheckedObjects
    EveryOrphanCostsAFault
PROPERTIES
    UploadsSettle
    PromiseSpec
