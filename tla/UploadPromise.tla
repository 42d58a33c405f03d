--------------------------- MODULE UploadPromise ---------------------------
(***************************************************************************)
(* What the upload path promises, whoever runs it and in whatever order:   *)
(* a file gets one verdict, the verdict is final, and by the time it is    *)
(* given it is backed by what the bucket, the partner's library and the    *)
(* operator's signals hold.                                                *)
(***************************************************************************)
CONSTANT File

VARIABLES
    ingests,        \* the brand forwards its files to the partner's library
    preview,        \* the files that are thumbnails
    verdict,        \* what the browser tells the user about each file
    stored,         \* the files the bucket holds
    sound,          \* those within the brand's limits
    listed,         \* the files the partner's library lists
    signalled       \* the files the operator is told to look after

vars == <<ingests, preview, verdict, stored, sound, listed, signalled>>

Init ==
    /\ ingests \in BOOLEAN
    /\ preview \in SUBSET File
    /\ verdict = [f \in File |-> "pending"]
    /\ stored = {} /\ sound = {} /\ listed = {} /\ signalled = {}

(* The bucket holds what it was given, for good.                           *)
Store(f) ==
    /\ stored' = stored \cup {f}
    /\ sound' \in {sound, sound \cup {f}}
    /\ UNCHANGED <<ingests, preview, verdict, listed, signalled>>

(* The library lists a sound file of a brand that ingests, or the operator *)
(* is told of a file, or both: no entry and no signal is undone.           *)
Forward(f) ==
    /\ \/ UNCHANGED listed
       \/ ingests /\ f \in sound /\ listed' = listed \cup {f}
    /\ signalled' \in {signalled, signalled \cup {f}}
    /\ UNCHANGED <<ingests, preview, verdict, stored, sound>>

Backed(f, v) ==
    /\ v = "counted" => f \in stored /\ (ingests => f \in listed)
    /\ v = "failed" => f \in signalled
    /\ v \in {"counted", "failed"} => f \notin preview
    /\ v = "thumbnail" => f \in preview

Settle(f) ==
    /\ verdict[f] = "pending"
    /\ \E v \in {"counted", "failed", "thumbnail", "cancelled", "gave_up"} :
          /\ Backed(f, v)
          /\ verdict' = [verdict EXCEPT ![f] = v]
    /\ UNCHANGED <<ingests, preview, stored, sound, listed, signalled>>

Next == \E f \in File : Store(f) \/ Forward(f) \/ Settle(f)

Spec == Init /\ [][Next]_vars
==============================================================================
