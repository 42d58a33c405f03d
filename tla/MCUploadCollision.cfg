\* Two files of one name, created in the same millisecond, no faults.
CONSTANTS
    u1 = u1  u2 = u2  r1 = r1  r2 = r2  r3 = r3  k1 = k1  k2 = k2
    Upload = {u1, u2}
    Request = {r1, r2}
    Key = {k1}
    KeyOf <- OneKey
    NoUpload = NoUpload
    NoRequest = NoRequest
    MaxFaults = 0
SPECIFICATION Spec
CHECK_DEADLOCK FALSE
INVARIANT LibraryHoldsOnlyCheckedObjects
