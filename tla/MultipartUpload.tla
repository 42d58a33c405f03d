-------------------------- MODULE MultipartUpload --------------------------
(***************************************************************************)
(* Multipart uploads of one brand, from the browser's create call to the   *)
(* entry in the partner's library: the s3 controller's handlers, the       *)
(* metadata they stash in Redis between create and complete, the inline    *)
(* ingest call with its one retry, and the browser that retries a complete *)
(* whose answer it lost.                                                   *)
(*                                                                         *)
(* Every request is a handler running on some replica, one step per await. *)
(* Requests of one upload overlap: a client that lost a connection sends   *)
(* the next request while the handler of the first still runs.  S3, Redis, *)
(* the partner and Uppy are the environment.  MaxFaults bounds the losses, *)
(* errors and crashes of a behaviour.                                      *)
(***************************************************************************)
EXTENDS Naturals, FiniteSets

CONSTANTS
    Upload,         \* files, each with an S3 uploadId of its own
    Key,            \* S3 keys
    KeyOf,          \* what buildS3Key makes of each file
    Request,        \* handlers that can run at the same time
    NoUpload,
    NoRequest,
    MaxFaults

ASSUME UploadAssumption ==
    /\ NoUpload \notin Upload
    /\ NoRequest \notin Request
    /\ KeyOf \in [Upload -> Key]
    /\ MaxFaults \in Nat

VARIABLES
    ingest,         \* the brand's ingest callback and its configuration
    isThumbnail,    \* Uppy made the file for a preview
    phase,          \* where the browser is with each file
    waiting,        \* the request whose answer the browser awaits
    outcome,        \* how the browser's 'complete' handler accounts for it
    at,             \* where each handler is
    of,             \* the upload it works on
    reply,          \* the answer it sends
    multipart,      \* S3: the multipart upload
    object,         \* S3: the file whose parts each key's object is made of
    content,        \* the parts the browser put to S3, by their size and type:
                    \* within the brand's limits or outside
    stash,          \* Redis: the stashed UploadMeta
    late,           \* ingest posts that timed out but still reach the partner
    library,        \* the partner's uploads table, a row per key
    signalled,      \* recordIngestedFalse was called for the upload
    faults

browserVars == <<phase, waiting, outcome>>
handlerVars == <<at, of, reply>>
storeVars == <<multipart, object, content, stash>>
partnerVars == <<late, library>>
config == <<ingest, isThumbnail>>
vars == <<config, browserVars, handlerVars, storeVars, partnerVars, signalled, faults>>

Place == {"free", "create", "stash", "complete", "read_meta", "head",
          "ingest", "retry_ingest", "abort", "reply"}
Phase == {"start", "creating", "uploading", "completing", "over"}
Reply == {"none", "created", "error", "ingested", "not_ingested",
          "no_ingest", "unconfirmed", "aborted"}
Outcome == {"pending", "counted", "failed", "thumbnail", "cancelled", "gave_up"}

TypeOK ==
    /\ ingest \in {"none", "unusable", "ready"}
    /\ isThumbnail \in [Upload -> BOOLEAN]
    /\ phase \in [Upload -> Phase]
    /\ waiting \in [Upload -> Request \cup {NoRequest}]
    /\ outcome \in [Upload -> Outcome]
    /\ at \in [Request -> Place]
    /\ of \in [Request -> Upload \cup {NoUpload}]
    /\ reply \in [Request -> Reply]
    /\ multipart \in [Upload -> {"none", "open", "completed", "aborted"}]
    /\ object \in [Key -> Upload \cup {NoUpload}]
    /\ content \in [Upload -> {"absent", "within", "outside"}]
    /\ stash \in [Upload -> {"none", "file", "thumbnail"}]
    /\ late \subseteq Key
    /\ library \subseteq Key
    /\ signalled \subseteq Upload
    /\ faults \in 0..MaxFaults
    /\ \A r \in Request :
          /\ at[r] = "free" <=> of[r] = NoUpload
          /\ at[r] = "reply" <=> reply[r] # "none"

Init ==
    /\ ingest \in {"none", "unusable", "ready"}
    /\ isThumbnail \in [Upload -> BOOLEAN]
    /\ phase = [u \in Upload |-> "start"]
    /\ waiting = [u \in Upload |-> NoRequest]
    /\ outcome = [u \in Upload |-> "pending"]
    /\ at = [r \in Request |-> "free"]
    /\ of = [r \in Request |-> NoUpload]
    /\ reply = [r \in Request |-> "none"]
    /\ multipart = [u \in Upload |-> "none"]
    /\ object = [k \in Key |-> NoUpload]
    /\ content = [u \in Upload |-> "absent"]
    /\ stash = [u \in Upload |-> "none"]
    /\ late = {} /\ library = {} /\ signalled = {}
    /\ faults = 0

------------------------------------------------------------------------------
(* A budgeted fault: a lost message, an error of S3, Redis or the partner, *)
(* a crash.                                                                *)
Fault == faults < MaxFaults /\ faults' = faults + 1
NoFault == UNCHANGED faults

Advance(r, place) ==
    /\ at' = [at EXCEPT ![r] = place]
    /\ UNCHANGED <<of, reply>>

AnswerWithoutReturn(r, answer) ==
    /\ reply' = [reply EXCEPT ![r] = answer]
    /\ UNCHANGED <<at, of>>

Answer(r, answer) ==
    /\ at' = [at EXCEPT ![r] = "reply"]
    /\ reply' = [reply EXCEPT ![r] = answer]
    /\ UNCHANGED of

Release(r) ==
    /\ at' = [at EXCEPT ![r] = "free"]
    /\ of' = [of EXCEPT ![r] = NoUpload]
    /\ reply' = [reply EXCEPT ![r] = "none"]

Start(r, u, place) ==
    /\ at[r] = "free"
    /\ at' = [at EXCEPT ![r] = place]
    /\ of' = [of EXCEPT ![r] = u]
    /\ UNCHANGED reply

Signal(r) == signalled' = signalled \cup {of[r]}
NoSignal == UNCHANGED signalled

------------------------------------------------------------------------------
(* createMultipartUpload.                                                  *)

(* The browser asks for a multipart upload of a file.                      *)
SendCreate(u, r) ==
    /\ phase[u] = "start"
    /\ Start(r, u, "create")
    /\ phase' = [phase EXCEPT ![u] = "creating"]
    /\ waiting' = [waiting EXCEPT ![u] = r]
    /\ UNCHANGED <<config, outcome, storeVars, partnerVars, signalled, faults>>

(* The declared size and type are outside the limits or S3 refuses: 400 or *)
(* 500.  Otherwise S3 opens the multipart upload.                          *)
S3Create(r) ==
    /\ at[r] = "create"
    /\ \/ Answer(r, "error") /\ UNCHANGED multipart
       \/ Advance(r, "stash") /\ multipart' = [multipart EXCEPT ![of[r]] = "open"]
    /\ UNCHANGED <<config, browserVars, object, content, stash,
                   partnerVars, signalled, faults>>

(* stashUploadMeta is best effort: a Redis error leaves no stash.          *)
StashUploadMeta(u) ==
    \/ /\ NoFault
       /\ stash' = [stash EXCEPT ![u] = IF isThumbnail[u] THEN "thumbnail" ELSE "file"]
    \/ Fault /\ UNCHANGED stash

(* The create succeeds whether or not its metadata could be stashed.       *)
Stash(r) ==
    /\ at[r] = "stash"
    /\ StashUploadMeta(of[r])
    /\ Answer(r, "created")
    /\ UNCHANGED <<config, browserVars, multipart, object, content, partnerVars,
                   signalled>>

(* The stash's 24 hours are over.                                          *)
StashExpires(u) ==
    /\ stash[u] # "none"
    /\ stash' = [stash EXCEPT ![u] = "none"]
    /\ UNCHANGED <<config, browserVars, handlerVars, multipart,
                   object, content, partnerVars, signalled, faults>>

ReceiveCreated(u) ==
    /\ phase[u] = "creating" /\ waiting[u] # NoRequest
    /\ at[waiting[u]] = "reply"
    /\ \/ /\ reply[waiting[u]] = "created"
          /\ phase' = [phase EXCEPT ![u] = "uploading"]
          /\ UNCHANGED outcome
       \/ /\ reply[waiting[u]] = "error"
          /\ phase' = [phase EXCEPT ![u] = "over"]
          /\ outcome' = [outcome EXCEPT ![u] = "gave_up"]
    /\ Release(waiting[u])
    /\ waiting' = [waiting EXCEPT ![u] = NoRequest]
    /\ UNCHANGED <<config, storeVars, partnerVars, signalled, faults>>

(* The browser signs every part (signPart) and puts it to S3 directly.     *)
(* What it uploads need not be what it declared.                           *)
UploadParts(u) ==
    /\ phase[u] = "uploading"
    /\ \E measure \in {"within", "outside"} :
          content' = [content EXCEPT ![u] = measure]
    /\ phase' = [phase EXCEPT ![u] = "completing"]
    /\ UNCHANGED <<config, waiting, outcome, handlerVars, multipart,
                   object, stash, partnerVars, signalled, faults>>

------------------------------------------------------------------------------
(* completeMultipartUpload.                                                *)

(* The browser asks to complete, again after an error or a lost answer.    *)
SendComplete(u, r) ==
    /\ phase[u] = "completing" /\ waiting[u] = NoRequest
    /\ Start(r, u, "complete")
    /\ waiting' = [waiting EXCEPT ![u] = r]
    /\ UNCHANGED <<config, phase, outcome, storeVars, partnerVars,
                   signalled, faults>>

NoSuchUploadIsAnError(r) ==
    LET u == of[r] IN
    /\ at[r] = "complete"
    /\ IF multipart[u] = "open"
          THEN /\ multipart' = [multipart EXCEPT ![u] = "completed"]
               /\ object' = [object EXCEPT ![KeyOf[u]] = u]
               /\ Advance(r, "read_meta")
          ELSE UNCHANGED <<multipart, object>> /\ Answer(r, "error")
    /\ UNCHANGED <<config, browserVars, content, stash,
                   partnerVars, signalled, faults>>

(* CompleteMultipartUploadCommand.  A consumed or aborted upload makes S3  *)
(* say NoSuchUpload, which counts as completed; any other error is a 500,  *)
(* and S3 may have consumed the upload nevertheless.                       *)
S3Complete(r) ==
    LET u == of[r]
        Consume == /\ multipart' = [multipart EXCEPT ![u] = "completed"]
                   /\ object' = [object EXCEPT ![KeyOf[u]] = u]
    IN
    /\ at[r] = "complete"
    /\ \/ multipart[u] = "open" /\ Consume /\ Advance(r, "read_meta") /\ NoFault
       \/ /\ multipart[u] # "open"
          /\ UNCHANGED <<multipart, object>>
          /\ Advance(r, "read_meta") /\ NoFault
       \/ UNCHANGED <<multipart, object>> /\ Answer(r, "error") /\ Fault
       \/ multipart[u] = "open" /\ Consume /\ Answer(r, "error") /\ Fault
    /\ UNCHANGED <<config, browserVars, content, stash,
                   partnerVars, signalled>>

(* A 200 with ingested: false; ingestConfigured tells a brand without an   *)
(* ingest step from one whose step did not take place.                     *)
Unforwarded == IF ingest = "none" THEN "no_ingest" ELSE "not_ingested"

(* readUploadMeta: the stash, or nothing when it is gone or Redis fails.   *)
ReadUploadMeta(u, found) ==
    \/ found = stash[u] /\ NoFault
    \/ found = "none" /\ stash[u] # "none" /\ Fault

(* A thumbnail is answered at once; everything else goes on to the checks. *)
ReadMeta(r) ==
    /\ at[r] = "read_meta"
    /\ \E found \in {"none", "file", "thumbnail"} :
          /\ ReadUploadMeta(of[r], found)
          /\ \/ found = "thumbnail" /\ Answer(r, Unforwarded)
             \/ found # "thumbnail" /\ Advance(r, "head")
    /\ UNCHANGED <<config, browserVars, storeVars, partnerVars, signalled>>

(* What HeadObject says of the object under the key of u.                  *)
Stored(u) == IF object[KeyOf[u]] = NoUpload THEN "absent" ELSE content[object[KeyOf[u]]]

HeadTrustingTheDeclaration(r) ==
    /\ at[r] = "head"
    /\ \/ Stored(of[r]) = "absent" /\ Answer(r, "unconfirmed") /\ Signal(r)
       \/ /\ Stored(of[r]) # "absent"
          /\ IF ingest = "ready"
                THEN Advance(r, "ingest") /\ NoSignal
                ELSE Answer(r, Unforwarded)
                     /\ Signal(r)
    /\ UNCHANGED <<config, browserVars, storeVars, partnerVars, faults>>

HeadWithoutSignal(r) ==
    /\ at[r] = "head"
    /\ \/ Stored(of[r]) = "within" /\ ingest = "ready" /\ Advance(r, "ingest")
       \/ Stored(of[r]) = "absent" /\ Answer(r, "unconfirmed")
       \/ /\ Stored(of[r]) # "absent"
          /\ Stored(of[r]) = "outside" \/ ingest # "ready"
          /\ Answer(r, Unforwarded)
    /\ UNCHANGED <<config, browserVars, storeVars, partnerVars,
                   signalled, faults>>

(* HeadObject and everything up to the ingest call: an object that is not  *)
(* there (or a failing Head) ends in the catch block, one outside the      *)
(* limits is rejected, a brand without ingest is done, an unusable ingest  *)
(* target or token is an operator's case.                                  *)
Head(r) ==
    /\ at[r] = "head"
    /\ \/ /\ \/ Stored(of[r]) = "absent" /\ NoFault
             \/ Fault
          /\ Answer(r, "unconfirmed") /\ Signal(r)
       \/ /\ Stored(of[r]) = "outside" /\ NoFault
          /\ Answer(r, Unforwarded)
          /\ Signal(r)
       \/ /\ Stored(of[r]) = "within" /\ NoFault
          /\ \/ ingest = "none" /\ Answer(r, "no_ingest") /\ NoSignal
             \/ ingest = "unusable" /\ Answer(r, "not_ingested") /\ Signal(r)
             \/ ingest = "ready" /\ Advance(r, "ingest") /\ NoSignal
    /\ UNCHANGED <<config, browserVars, storeVars, partnerVars>>

(* The partner adds the file to the library, once (unique user and URL).   *)
Insert(k) == library' = library \cup {k} /\ UNCHANGED late

(* attemptIngest, one POST: the partner inserts and confirms, confirms     *)
(* with no entry (it skips the file, or one it already has), or fails.  A  *)
(* failed attempt may have inserted the entry, or do so later.             *)
Confirmed(r) == Insert(KeyOf[of[r]]) /\ NoFault
Skipped(r) == UNCHANGED partnerVars /\ NoFault
Failed(r) ==
    /\ \/ UNCHANGED partnerVars
       \/ Insert(KeyOf[of[r]])
       \/ late' = late \cup {KeyOf[of[r]]} /\ UNCHANGED library
    /\ Fault

SkippedCountsAsIngested(r) ==
    /\ at[r] \in {"ingest", "retry_ingest"}
    /\ \/ Confirmed(r) /\ Answer(r, "ingested") /\ NoSignal
       \/ Skipped(r) /\ Answer(r, "ingested") /\ NoSignal
       \/ at[r] = "ingest" /\ Failed(r) /\ Advance(r, "retry_ingest") /\ NoSignal
       \/ at[r] = "retry_ingest" /\ Failed(r) /\ Answer(r, "not_ingested") /\ Signal(r)
    /\ UNCHANGED <<config, browserVars, storeVars>>

(* postIngest: the first attempt, and one immediate retry when it failed;  *)
(* the file is ingested when the last attempt listed an entry for it.      *)
PostIngest(r) ==
    /\ at[r] \in {"ingest", "retry_ingest"}
    /\ \/ Confirmed(r) /\ Answer(r, "ingested") /\ NoSignal
       \/ Skipped(r) /\ Answer(r, "not_ingested") /\ Signal(r)
       \/ at[r] = "ingest" /\ Failed(r) /\ Advance(r, "retry_ingest") /\ NoSignal
       \/ at[r] = "retry_ingest" /\ Failed(r) /\ Answer(r, "not_ingested") /\ Signal(r)
    /\ UNCHANGED <<config, browserVars, storeVars>>

(* A post the companion gave up on reaches the partner after all.          *)
LateIngest(k) ==
    /\ k \in late
    /\ late' = late \ {k}
    /\ library' = library \cup {k}
    /\ UNCHANGED <<config, browserVars, handlerVars, storeVars,
                   signalled, faults>>

------------------------------------------------------------------------------
AccountByStatusAlone(u) == IF isThumbnail[u] THEN "thumbnail" ELSE "counted"

(* The browser, on an answer to its complete request: an error leaves it   *)
(* where it is, free to retry; a 200 is accounted for by the 'complete'    *)
(* handler.                                                                *)
Account(u) ==
    IF isThumbnail[u] THEN "thumbnail"
    ELSE IF reply[waiting[u]] \in {"ingested", "no_ingest"} THEN "counted"
    ELSE "failed"

ReceiveCompleted(u) ==
    /\ phase[u] = "completing" /\ waiting[u] # NoRequest
    /\ at[waiting[u]] = "reply"
    /\ \/ reply[waiting[u]] = "error" /\ UNCHANGED <<phase, outcome>>
       \/ /\ reply[waiting[u]] # "error"
          /\ phase' = [phase EXCEPT ![u] = "over"]
          /\ outcome' = [outcome EXCEPT ![u] = Account(u)]
    /\ Release(waiting[u])
    /\ waiting' = [waiting EXCEPT ![u] = NoRequest]
    /\ UNCHANGED <<config, storeVars, partnerVars, signalled, faults>>

(* Nobody waits for this answer any more.                                  *)
Discard(r) ==
    /\ at[r] = "reply" /\ waiting[of[r]] # r
    /\ Release(r)
    /\ UNCHANGED <<config, browserVars, storeVars, partnerVars,
                   signalled, faults>>

(* The browser stops waiting for an answer.  A file whose create call is   *)
(* lost fails in Uppy; a complete call can be sent again.                  *)
StopWaiting(u) ==
    /\ waiting' = [waiting EXCEPT ![u] = NoRequest]
    /\ IF phase[u] = "creating"
          THEN /\ phase' = [phase EXCEPT ![u] = "over"]
               /\ outcome' = [outcome EXCEPT ![u] = "gave_up"]
          ELSE UNCHANGED <<phase, outcome>>

(* The connection breaks; the handler runs on.                             *)
LoseAnswer(u) ==
    /\ waiting[u] # NoRequest
    /\ Fault
    /\ StopWaiting(u)
    /\ UNCHANGED <<config, handlerVars, storeVars, partnerVars, signalled>>

(* The replica stops in the middle of a handler.                           *)
Crash(r) ==
    /\ at[r] # "free"
    /\ Fault
    /\ IF waiting[of[r]] = r THEN StopWaiting(of[r]) ELSE UNCHANGED browserVars
    /\ Release(r)
    /\ UNCHANGED <<config, storeVars, partnerVars, signalled>>

(* Uppy does not retry for ever.                                           *)
GiveUp(u) ==
    /\ phase[u] \in {"uploading", "completing"} /\ waiting[u] = NoRequest
    /\ phase' = [phase EXCEPT ![u] = "over"]
    /\ outcome' = [outcome EXCEPT ![u] = "gave_up"]
    /\ UNCHANGED <<config, waiting, handlerVars, storeVars,
                   partnerVars, signalled, faults>>

(* The user removes the file; the browser sends abortMultipartUpload and   *)
(* waits for nothing, a complete call it sent before included.             *)
Cancel(u, r) ==
    /\ phase[u] \in {"uploading", "completing"}
    /\ Start(r, u, "abort")
    /\ phase' = [phase EXCEPT ![u] = "over"]
    /\ outcome' = [outcome EXCEPT ![u] = "cancelled"]
    /\ waiting' = [waiting EXCEPT ![u] = NoRequest]
    /\ UNCHANGED <<config, storeVars, partnerVars, signalled, faults>>

(* AbortMultipartUploadCommand: S3 drops an open upload, and refuses any   *)
(* other with NoSuchUpload, a 500 to the browser.                          *)
S3Abort(r) ==
    /\ at[r] = "abort"
    /\ \/ /\ multipart[of[r]] = "open"
          /\ multipart' = [multipart EXCEPT ![of[r]] = "aborted"]
          /\ Answer(r, "aborted") /\ NoFault
       \/ multipart[of[r]] # "open" /\ UNCHANGED multipart /\ Answer(r, "error") /\ NoFault
       \/ UNCHANGED multipart /\ Answer(r, "error") /\ Fault
    /\ UNCHANGED <<config, browserVars, object, content, stash,
                   partnerVars, signalled>>

------------------------------------------------------------------------------
HandlerStep(r) ==
    \/ S3Create(r) \/ Stash(r)
    \/ S3Complete(r) \/ ReadMeta(r) \/ Head(r) \/ PostIngest(r)
    \/ S3Abort(r) \/ Discard(r)

BrowserStep(u) == ReceiveCreated(u) \/ UploadParts(u) \/ ReceiveCompleted(u)

Next ==
    \/ \E r \in Request : HandlerStep(r) \/ Crash(r)
    \/ \E u \in Upload :
          \/ BrowserStep(u) \/ LoseAnswer(u) \/ GiveUp(u)
          \/ StashExpires(u)
          \/ \E r \in Request :
                SendCreate(u, r) \/ SendComplete(u, r) \/ Cancel(u, r)
    \/ \E k \in Key : LateIngest(k)

Spec == Init /\ [][Next]_vars

(* Node runs every handler to its end, its calls are bounded by timeouts,  *)
(* and a browser that has something to complete asks again.                *)
Fairness ==
    /\ \A r \in Request : WF_vars(HandlerStep(r))
    /\ \A u \in Upload :
          WF_vars(BrowserStep(u)) /\ WF_vars(\E r \in Request : SendComplete(u, r))

FairSpec == Spec /\ Fairness

------------------------------------------------------------------------------
WithinLimits(k) == object[k] # NoUpload /\ content[object[k]] = "within"

(* Only an object whose stored size and type are within the brand's limits *)
(* enters the partner's library, whatever the browser declared, lost,      *)
(* retried or cancelled: the limit is enforced at the library boundary.    *)
LibraryHoldsOnlyCheckedObjects == \A k \in library : WithinLimits(k)

(* A file the browser counts as added is what the bucket holds under its   *)
(* key, and in the library of a brand that has one.                        *)
CountedMeansStored ==
    \A u \in Upload :
        outcome[u] = "counted" =>
            /\ object[KeyOf[u]] = u
            /\ ingest # "none" => KeyOf[u] \in library

(* A file the browser reports as failed has its operator signal: nothing   *)
(* that was completed is lost in silence.                                  *)
EveryFailedFileIsSignalled ==
    \A u \in Upload : outcome[u] = "failed" => u \in signalled

(* Files S3 completed of a brand that forwards them, which neither the     *)
(* library nor the operator has heard of and no handler is working on.     *)
Forwarding == {"read_meta", "head", "ingest", "retry_ingest"}

Orphans ==
    {u \in Upload :
        /\ ingest # "none" /\ ~isThumbnail[u]
        /\ object[KeyOf[u]] = u
        /\ KeyOf[u] \notin library /\ u \notin signalled
        /\ \A r \in Request : of[r] = u => at[r] \notin Forwarding}

(* Nothing is lost in silence without a fault, and one fault loses one     *)
(* file at most: every path of the complete handler ends with an entry, a  *)
(* signal or another handler at work, whatever was retried, cancelled,     *)
(* given up or overwritten meanwhile.                                      *)
EveryOrphanCostsAFault == Cardinality(Orphans) <= faults

(* A browser that goes on asking gets a 200 in the end, even when the      *)
(* answer it lost was to a complete that S3 had accepted.                  *)
UploadsSettle ==
    \A u \in Upload : phase[u] = "completing" ~> phase[u] = "over"

(* The handlers, the browser, S3, Redis and the partner together implement *)
(* UploadPromise: each file's one verdict is final and backed when given,  *)
(* the library grows by files within the limits only, of a brand that      *)
(* ingests, and no signal is taken back.                                   *)
Promise == INSTANCE UploadPromise WITH
    File <- Upload,
    ingests <- ingest # "none",
    preview <- {u \in Upload : isThumbnail[u]},
    verdict <- outcome,
    stored <- {u \in Upload : object[KeyOf[u]] = u},
    sound <- {u \in Upload : object[KeyOf[u]] = u /\ content[u] = "within"},
    listed <- {u \in Upload : KeyOf[u] \in library}

PromiseSpec == Promise!Spec
==============================================================================
