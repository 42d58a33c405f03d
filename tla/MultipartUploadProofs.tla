----------------------- MODULE MultipartUploadProofs -----------------------
(***************************************************************************)
(* Proofs about MultipartUpload, for any number of files, handlers and     *)
(* faults.                                                                 *)
(***************************************************************************)
EXTENDS MultipartUpload, FiniteSetTheorems, TLAPS

(* The request a browser waits for works on its file, and answers what the *)
(* browser asked.                                                          *)
Awaited ==
    \A u \in Upload :
        waiting[u] # NoRequest =>
            /\ of[waiting[u]] = u
            /\ \/ /\ phase[u] = "creating"
                  /\ at[waiting[u]] \in {"create", "stash", "reply"}
                  /\ reply[waiting[u]] \in {"none", "created", "error"}
               \/ /\ phase[u] = "completing"
                  /\ at[waiting[u]] \in {"complete", "read_meta", "head", "ingest",
                                        "retry_ingest", "reply"}
                  /\ reply[waiting[u]] \in {"none", "error", "ingested", "not_ingested",
                                            "no_ingest", "unconfirmed"}

(* A file is created by one request, before any other works on it.         *)
CreatedOnce ==
    /\ \A u \in Upload :
          phase[u] = "start" =>
              multipart[u] = "none" /\ \A r \in Request : of[r] # u
    /\ \A r \in Request :
          at[r] = "create" =>
              /\ multipart[of[r]] = "none"
              /\ phase[of[r]] \in {"creating", "over"}
              /\ \A s \in Request : of[s] = of[r] => s = r

(* An object is made of a file that S3 completed under this key, and no    *)
(* parts follow a complete call.                                           *)
ObjectAfterComplete ==
    /\ \A k \in Key :
          object[k] # NoUpload =>
              KeyOf[object[k]] = k /\ multipart[object[k]] = "completed"
    /\ \A u \in Upload :
          multipart[u] = "completed" => phase[u] \in {"completing", "over"}
    /\ \A r \in Request :
          at[r] = "complete" => phase[of[r]] \in {"completing", "over"}

UploadInv == TypeOK /\ Awaited /\ CreatedOnce /\ ObjectAfterComplete

LEMMA UploadInit == Init => UploadInv
BY UploadAssumption
   DEF Init, UploadInv, TypeOK, Awaited, CreatedOnce, ObjectAfterComplete,
       Place, Phase, Reply, Outcome

LEMMA UploadStep ==
    UploadInv /\ [Next]_vars => UploadInv'
<1> SUFFICES ASSUME UploadInv, [Next]_vars
             PROVE  UploadInv'
  OBVIOUS
<1> USE UploadAssumption
        DEF UploadInv, TypeOK, Awaited, CreatedOnce, ObjectAfterComplete, Place,
            Phase, Reply, Outcome, Fault, NoFault, Advance, Answer, Release, Signal,
            NoSignal, config, browserVars, handlerVars, storeVars, partnerVars
<1>1. ASSUME NEW u \in Upload, NEW r \in Request, SendCreate(u, r)
      PROVE  UploadInv'
  BY <1>1 DEF SendCreate, Start
<1>2. ASSUME NEW r \in Request, S3Create(r) PROVE UploadInv'
  BY <1>2 DEF S3Create
<1>3. ASSUME NEW r \in Request, Stash(r) PROVE UploadInv'
  BY <1>3 DEF Stash, StashUploadMeta
<1>4. ASSUME NEW r \in Request, S3Complete(r) PROVE UploadInv'
  BY <1>4 DEF S3Complete
<1>5. ASSUME NEW r \in Request, ReadMeta(r) PROVE UploadInv'
  BY <1>5 DEF ReadMeta, ReadUploadMeta, Unforwarded
<1>6. ASSUME NEW r \in Request, Head(r) PROVE UploadInv'
  BY <1>6 DEF Head, Stored, Unforwarded
<1>7. ASSUME NEW r \in Request, PostIngest(r) PROVE UploadInv'
  BY <1>7 DEF PostIngest, Confirmed, Skipped, Failed, Insert
<1>8. ASSUME NEW r \in Request, S3Abort(r) PROVE UploadInv'
  BY <1>8 DEF S3Abort
<1>9. ASSUME NEW r \in Request, Discard(r) PROVE UploadInv'
  BY <1>9 DEF Discard
<1>10. ASSUME NEW r \in Request, Crash(r) PROVE UploadInv'
  BY <1>10 DEF Crash, StopWaiting
<1>11. ASSUME NEW u \in Upload, ReceiveCreated(u) PROVE UploadInv'
  BY <1>11 DEF ReceiveCreated
<1>12. ASSUME NEW u \in Upload, UploadParts(u) PROVE UploadInv'
  BY <1>12 DEF UploadParts
<1>13. ASSUME NEW u \in Upload, ReceiveCompleted(u) PROVE UploadInv'
  BY <1>13 DEF ReceiveCompleted, Account
<1>14. ASSUME NEW u \in Upload, LoseAnswer(u) PROVE UploadInv'
  BY <1>14 DEF LoseAnswer, StopWaiting
<1>15. ASSUME NEW u \in Upload, GiveUp(u) \/ StashExpires(u) PROVE UploadInv'
  BY <1>15 DEF GiveUp, StashExpires
<1>16. ASSUME NEW k \in Key, LateIngest(k) PROVE UploadInv'
  BY <1>16 DEF LateIngest
<1>17. ASSUME NEW u \in Upload, NEW r \in Request, SendComplete(u, r)
      PROVE  UploadInv'
  BY <1>17 DEF SendComplete, Start
<1>18. ASSUME NEW u \in Upload, NEW r \in Request, Cancel(u, r)
      PROVE  UploadInv'
  BY <1>18 DEF Cancel, Start
<1>19. CASE UNCHANGED vars
  BY <1>19 DEF vars
<1>20. QED
  BY <1>1, <1>2, <1>3, <1>4, <1>5, <1>6, <1>7, <1>8, <1>9, <1>10,
     <1>11, <1>12, <1>13, <1>14, <1>15, <1>16, <1>17, <1>18, <1>19
     DEF Next, HandlerStep, BrowserStep

(* Every variable keeps its type.                                          *)
THEOREM UploadTypeCorrect == Spec => []TypeOK
<1>1. UploadInv => TypeOK
  BY DEF UploadInv
<1>2. QED
  BY <1>1, UploadInit, UploadStep, PTL DEF Spec

------------------------------------------------------------------------------
(* The library boundary: whatever is on its way to the library passed the  *)
(* check of the stored object.  An object once checked stays what it was   *)
(* only if no two files share a key.                                       *)
DistinctKeys == \A u, v \in Upload : KeyOf[u] = KeyOf[v] => u = v

Checked ==
    /\ \A r \in Request :
          at[r] \in {"ingest", "retry_ingest"} => WithinLimits(KeyOf[of[r]])
    /\ \A k \in late : WithinLimits(k)
    /\ LibraryHoldsOnlyCheckedObjects

LEMMA CheckedInit == Init => Checked
BY UploadAssumption DEF Init, Checked, LibraryHoldsOnlyCheckedObjects

LEMMA CheckedStep ==
    ASSUME DistinctKeys
    PROVE  UploadInv /\ Checked /\ [Next]_vars => Checked'
<1> SUFFICES ASSUME UploadInv, Checked, [Next]_vars
             PROVE  Checked'
  OBVIOUS
<1> USE UploadAssumption
        DEF UploadInv, TypeOK, Awaited, CreatedOnce, ObjectAfterComplete, Place,
            Phase, Reply, Outcome, Fault, NoFault, Advance, Answer, Release, Signal,
            NoSignal, config, browserVars, handlerVars, storeVars, partnerVars,
            Checked, LibraryHoldsOnlyCheckedObjects, WithinLimits, DistinctKeys
<1>1. ASSUME NEW u \in Upload, NEW r \in Request, SendCreate(u, r)
      PROVE  Checked'
  BY <1>1 DEF SendCreate, Start
<1>2. ASSUME NEW r \in Request, S3Create(r) PROVE Checked'
  BY <1>2 DEF S3Create
<1>3. ASSUME NEW r \in Request, Stash(r) PROVE Checked'
  BY <1>3 DEF Stash, StashUploadMeta
<1>4. ASSUME NEW r \in Request, S3Complete(r) PROVE Checked'
  BY <1>4 DEF S3Complete
<1>5. ASSUME NEW r \in Request, ReadMeta(r) PROVE Checked'
  BY <1>5 DEF ReadMeta, ReadUploadMeta, Unforwarded
<1>6. ASSUME NEW r \in Request, Head(r) PROVE Checked'
  BY <1>6 DEF Head, Stored, Unforwarded
<1>7. ASSUME NEW r \in Request, PostIngest(r) PROVE Checked'
  BY <1>7 DEF PostIngest, Confirmed, Skipped, Failed, Insert
<1>8. ASSUME NEW r \in Request, S3Abort(r) PROVE Checked'
  BY <1>8 DEF S3Abort
<1>9. ASSUME NEW r \in Request, Discard(r) PROVE Checked'
  BY <1>9 DEF Discard
<1>10. ASSUME NEW r \in Request, Crash(r) PROVE Checked'
  BY <1>10 DEF Crash, StopWaiting
<1>11. ASSUME NEW u \in Upload, ReceiveCreated(u) PROVE Checked'
  BY <1>11 DEF ReceiveCreated
<1>12. ASSUME NEW u \in Upload, UploadParts(u) PROVE Checked'
  BY <1>12 DEF UploadParts
<1>13. ASSUME NEW u \in Upload, ReceiveCompleted(u) PROVE Checked'
  BY <1>13 DEF ReceiveCompleted, Account
<1>14. ASSUME NEW u \in Upload, LoseAnswer(u) PROVE Checked'
  BY <1>14 DEF LoseAnswer, StopWaiting
<1>15. ASSUME NEW u \in Upload, GiveUp(u) \/ StashExpires(u) PROVE Checked'
  BY <1>15 DEF GiveUp, StashExpires
<1>16. ASSUME NEW k \in Key, LateIngest(k) PROVE Checked'
  BY <1>16 DEF LateIngest
<1>17. ASSUME NEW u \in Upload, NEW r \in Request, SendComplete(u, r)
      PROVE  Checked'
  BY <1>17 DEF SendComplete, Start
<1>18. ASSUME NEW u \in Upload, NEW r \in Request, Cancel(u, r) PROVE Checked'
  BY <1>18 DEF Cancel, Start
<1>19. CASE UNCHANGED vars
  BY <1>19 DEF vars
<1>20. QED
  BY <1>1, <1>2, <1>3, <1>4, <1>5, <1>6, <1>7, <1>8, <1>9, <1>10,
     <1>11, <1>12, <1>13, <1>14, <1>15, <1>16, <1>17, <1>18, <1>19
     DEF Next, HandlerStep, BrowserStep

(* As long as no two files share a key, no order of retries, late ingest   *)
(* calls, cancellations and crashes gets an object that breaks the limits  *)
(* into the library.                                                       *)
THEOREM LibraryBoundary ==
    ASSUME DistinctKeys
    PROVE  Spec => []LibraryHoldsOnlyCheckedObjects
<1>1. UploadInv /\ Checked /\ [Next]_vars => (UploadInv /\ Checked)'
  BY UploadStep, CheckedStep
<1>2. Checked => LibraryHoldsOnlyCheckedObjects
  BY DEF Checked
<1>3. QED
  BY <1>1, <1>2, UploadInit, CheckedInit, PTL DEF Spec

------------------------------------------------------------------------------
(* The operator's signals, whatever keys the files share: an answer that   *)
(* says a file did not get through follows a signal, unless the file is a  *)
(* preview nobody misses, and only a preview is stashed as one.            *)
SignalsHold ==
    /\ \A u \in Upload : stash[u] = "thumbnail" => isThumbnail[u]
    /\ \A r \in Request :
          reply[r] \in {"not_ingested", "unconfirmed"} =>
              of[r] \in signalled \/ isThumbnail[of[r]]

SignalInv == SignalsHold /\ EveryFailedFileIsSignalled

LEMMA SignalInit == Init => SignalInv
BY UploadAssumption DEF Init, SignalInv, SignalsHold, EveryFailedFileIsSignalled

LEMMA SignalStep == UploadInv /\ SignalInv /\ [Next]_vars => SignalInv'
<1> SUFFICES ASSUME UploadInv, SignalInv, [Next]_vars
             PROVE  SignalInv'
  OBVIOUS
<1> USE UploadAssumption
        DEF UploadInv, TypeOK, Awaited, Place, Phase, Reply, Outcome, Fault,
            NoFault, Advance, Answer, Release, Signal, NoSignal, config,
            browserVars, handlerVars, storeVars, partnerVars, SignalInv,
            SignalsHold, EveryFailedFileIsSignalled
<1>1. ASSUME NEW u \in Upload, NEW r \in Request, SendCreate(u, r) PROVE SignalInv'
  BY <1>1 DEF SendCreate, Start
<1>2. ASSUME NEW r \in Request, S3Create(r) PROVE SignalInv'
  BY <1>2 DEF S3Create
<1>3. ASSUME NEW r \in Request, Stash(r) PROVE SignalInv'
  BY <1>3 DEF Stash, StashUploadMeta
<1>4. ASSUME NEW r \in Request, S3Complete(r) PROVE SignalInv'
  BY <1>4 DEF S3Complete
<1>5. ASSUME NEW r \in Request, ReadMeta(r) PROVE SignalInv'
  BY <1>5 DEF ReadMeta, ReadUploadMeta, Unforwarded
<1>6. ASSUME NEW r \in Request, Head(r) PROVE SignalInv'
  BY <1>6 DEF Head, Stored, Unforwarded
<1>7. ASSUME NEW r \in Request, PostIngest(r) PROVE SignalInv'
  BY <1>7 DEF PostIngest, Confirmed, Skipped, Failed, Insert
<1>8. ASSUME NEW r \in Request, S3Abort(r) PROVE SignalInv'
  BY <1>8 DEF S3Abort
<1>9. ASSUME NEW r \in Request, Discard(r) PROVE SignalInv'
  BY <1>9 DEF Discard
<1>10. ASSUME NEW r \in Request, Crash(r) PROVE SignalInv'
  BY <1>10 DEF Crash, StopWaiting
<1>11. ASSUME NEW u \in Upload, ReceiveCreated(u) PROVE SignalInv'
  BY <1>11 DEF ReceiveCreated
<1>12. ASSUME NEW u \in Upload, UploadParts(u) PROVE SignalInv'
  BY <1>12 DEF UploadParts
<1>13. ASSUME NEW u \in Upload, ReceiveCompleted(u) PROVE SignalInv'
  BY <1>13 DEF ReceiveCompleted, Account
<1>14. ASSUME NEW u \in Upload, LoseAnswer(u) PROVE SignalInv'
  BY <1>14 DEF LoseAnswer, StopWaiting
<1>15. ASSUME NEW u \in Upload, GiveUp(u) \/ StashExpires(u) PROVE SignalInv'
  BY <1>15 DEF GiveUp, StashExpires
<1>16. ASSUME NEW k \in Key, LateIngest(k) PROVE SignalInv'
  BY <1>16 DEF LateIngest
<1>17. ASSUME NEW u \in Upload, NEW r \in Request, SendComplete(u, r) PROVE SignalInv'
  BY <1>17 DEF SendComplete, Start
<1>18. ASSUME NEW u \in Upload, NEW r \in Request, Cancel(u, r) PROVE SignalInv'
  BY <1>18 DEF Cancel, Start
<1>19. CASE UNCHANGED vars
  BY <1>19 DEF vars
<1>20. QED
  BY <1>1, <1>2, <1>3, <1>4, <1>5, <1>6, <1>7, <1>8, <1>9, <1>10,
     <1>11, <1>12, <1>13, <1>14, <1>15, <1>16, <1>17, <1>18, <1>19
     DEF Next, HandlerStep, BrowserStep

(* The operator has a signal for every file the browser reports as failed, *)
(* even when files share a key and overwrite each other.                   *)
THEOREM FailuresAreSignalled == Spec => []EveryFailedFileIsSignalled
<1>1. UploadInv /\ SignalInv /\ [Next]_vars => (UploadInv /\ SignalInv)'
  BY UploadStep, SignalStep
<1>2. SignalInv => EveryFailedFileIsSignalled
  BY DEF SignalInv
<1>3. QED
  BY <1>1, <1>2, UploadInit, SignalInit, PTL DEF Spec

------------------------------------------------------------------------------
(* Orphans.  A step makes no orphan, or makes one and costs a fault.       *)
OrphansKept == Orphans' \subseteq Orphans /\ faults' \in {faults, faults + 1}
OneOrphanMore(u) == Orphans' \subseteq Orphans \cup {u} /\ faults' = faults + 1

LEMMA OrphansStep ==
    UploadInv /\ SignalInv /\ [Next]_vars
        => OrphansKept \/ \E u \in Upload : OneOrphanMore(u)
<1> SUFFICES ASSUME UploadInv, SignalInv, [Next]_vars
             PROVE  OrphansKept \/ \E u \in Upload : OneOrphanMore(u)
  OBVIOUS
<1> USE UploadAssumption
        DEF UploadInv, TypeOK, Place, Reply, Fault, NoFault, Advance, Answer,
            Release, Signal, NoSignal, config, browserVars, handlerVars, storeVars,
            partnerVars, OrphansKept, OneOrphanMore, Orphans, Forwarding
(* Steps of the browser and its files, and handlers that come and go.      *)
<1>1. ASSUME NEW u \in Upload,
             UploadParts(u) \/ StashExpires(u) \/ LoseAnswer(u) \/ GiveUp(u)
      PROVE  OrphansKept
  BY <1>1 DEF UploadParts, StashExpires, LoseAnswer, GiveUp
<1>2. ASSUME NEW u \in Upload, NEW r \in Request,
             SendCreate(u, r) \/ SendComplete(u, r) \/ Cancel(u, r)
      PROVE  OrphansKept
  BY <1>2 DEF SendCreate, SendComplete, Cancel, Start
<1>3. ASSUME NEW u \in Upload, ReceiveCreated(u) \/ ReceiveCompleted(u)
      PROVE  OrphansKept
  BY <1>3 DEF ReceiveCreated, ReceiveCompleted
<1>4. ASSUME NEW r \in Request, S3Create(r) \/ Stash(r) \/ S3Abort(r) \/ Discard(r)
      PROVE  OrphansKept
  BY <1>4 DEF S3Create, Stash, StashUploadMeta, S3Abort, Discard
(* The complete handler, from S3's answer to its own.                      *)
<1>5. ASSUME NEW r \in Request, S3Complete(r)
      PROVE  OrphansKept \/ OneOrphanMore(of[r])
  <2>1. CASE at' = [at EXCEPT ![r] = "read_meta"]
    BY <1>5, <2>1 DEF S3Complete
  <2>2. CASE at' = [at EXCEPT ![r] = "reply"]
    BY <1>5, <2>2 DEF S3Complete
  <2>3. QED
    BY <1>5, <2>1, <2>2 DEF S3Complete
<1>6. ASSUME NEW r \in Request, ReadMeta(r) PROVE OrphansKept
  BY <1>6 DEF ReadMeta, ReadUploadMeta, SignalInv, SignalsHold
<1>7. ASSUME NEW r \in Request, Head(r) PROVE OrphansKept
  BY <1>7 DEF Head
<1>8. ASSUME NEW r \in Request, PostIngest(r) PROVE OrphansKept
  BY <1>8 DEF PostIngest, Confirmed, Skipped, Failed, Insert
<1>9. ASSUME NEW k \in Key, LateIngest(k) PROVE OrphansKept
  BY <1>9 DEF LateIngest
(* A crash leaves the one file its handler was working on.                 *)
<1>10. ASSUME NEW r \in Request, Crash(r) PROVE OneOrphanMore(of[r])
  BY <1>10 DEF Crash
<1>11. CASE UNCHANGED vars
  BY <1>11 DEF vars
<1>12. ASSUME NEW r \in Request, S3Complete(r) \/ Crash(r) PROVE of[r] \in Upload
  BY <1>12 DEF S3Complete, Crash
<1>13. QED
  BY <1>1, <1>2, <1>3, <1>4, <1>5, <1>6, <1>7, <1>8, <1>9, <1>10, <1>11, <1>12
     DEF Next, HandlerStep, BrowserStep

LEMMA OrphansBounded ==
    ASSUME IsFiniteSet(Upload)
    PROVE  UploadInv /\ EveryOrphanCostsAFault
              /\ (OrphansKept \/ \E u \in Upload : OneOrphanMore(u))
              => EveryOrphanCostsAFault'
<1> SUFFICES ASSUME UploadInv, EveryOrphanCostsAFault,
                    OrphansKept \/ \E u \in Upload : OneOrphanMore(u)
             PROVE  EveryOrphanCostsAFault'
  OBVIOUS
<1> USE DEF EveryOrphanCostsAFault
<1>1. IsFiniteSet(Orphans) /\ Cardinality(Orphans) \in Nat
  BY FS_Subset, FS_CardinalityType DEF Orphans
<1>2. faults \in Nat
  BY UploadAssumption DEF UploadInv, TypeOK
<1>3. ASSUME NEW S, NEW T, IsFiniteSet(S), T \subseteq S
      PROVE  /\ Cardinality(S) \in Nat /\ Cardinality(T) \in Nat
             /\ Cardinality(T) <= Cardinality(S)
  <2>1. T \in SUBSET S
    BY <1>3
  <2>2. IsFiniteSet(T) /\ Cardinality(T) <= Cardinality(S)
    BY <1>3, <2>1, FS_Subset, Zenon
  <2>3. QED
    BY <1>3, <2>2, FS_CardinalityType
<1>4. CASE OrphansKept
  <2>1. Cardinality(Orphans') \in Nat /\ Cardinality(Orphans') <= Cardinality(Orphans)
    BY <1>1, <1>3, <1>4 DEF OrphansKept
  <2>2. QED
    BY <1>1, <1>2, <1>4, <2>1 DEF OrphansKept
<1>5. ASSUME NEW u \in Upload, OneOrphanMore(u) PROVE EveryOrphanCostsAFault'
  <2>1. /\ IsFiniteSet(Orphans \cup {u})
        /\ Cardinality(Orphans \cup {u}) =
              IF u \in Orphans THEN Cardinality(Orphans) ELSE Cardinality(Orphans) + 1
    BY <1>1, FS_AddElement, Zenon
  <2>2. Cardinality(Orphans') \in Nat /\ Cardinality(Orphans') <= Cardinality(Orphans) + 1
    BY <1>1, <1>3, <1>5, <2>1 DEF OneOrphanMore
  <2>3. QED
    BY <1>1, <1>2, <1>5, <2>2 DEF OneOrphanMore
<1>6. QED
  BY <1>4, <1>5

(* For any finite number of files, with keys of their own or shared: at    *)
(* most as many files are lost in silence as there were faults, so without *)
(* a fault every completed file has its entry, its signal or a handler.    *)
THEOREM OrphansCostFaults ==
    ASSUME IsFiniteSet(Upload)
    PROVE  Spec => []EveryOrphanCostsAFault
<1> DEFINE Inv == UploadInv /\ SignalInv /\ EveryOrphanCostsAFault
<1>1. Init => Inv
  <2>1. Init => Orphans = {} /\ faults = 0
    BY UploadAssumption DEF Init, Orphans
  <2>2. Init => EveryOrphanCostsAFault
    BY <2>1, FS_EmptySet DEF EveryOrphanCostsAFault
  <2>3. QED
    BY <2>2, UploadInit, SignalInit
<1>2. Inv /\ [Next]_vars => Inv'
  BY UploadStep, SignalStep, OrphansStep, OrphansBounded
<1>3. QED
  BY <1>1, <1>2, PTL DEF Spec

------------------------------------------------------------------------------
(* What an answer says is true when it is given, and stays true until it   *)
(* is read.                                                                *)
AnswersHold ==
    \A r \in Request :
        /\ reply[r] = "ingested" =>
              object[KeyOf[of[r]]] = of[r] /\ KeyOf[of[r]] \in library
        /\ reply[r] = "no_ingest" =>
              /\ ingest = "none"
              /\ object[KeyOf[of[r]]] = of[r] \/ isThumbnail[of[r]]

AccountInv == SignalInv /\ AnswersHold /\ CountedMeansStored

LEMMA AccountInit == Init => AccountInv
BY UploadAssumption, SignalInit DEF Init, AccountInv, AnswersHold, CountedMeansStored

LEMMA AccountStep ==
    ASSUME DistinctKeys
    PROVE  UploadInv /\ Checked /\ AccountInv /\ [Next]_vars => AccountInv'
<1> SUFFICES ASSUME UploadInv, Checked, AccountInv, [Next]_vars
             PROVE  (AnswersHold /\ CountedMeansStored)'
  BY SignalStep DEF AccountInv
<1> DEFINE Kept == AnswersHold /\ CountedMeansStored
<1> USE UploadAssumption
        DEF UploadInv, TypeOK, Awaited, CreatedOnce, ObjectAfterComplete, Place,
            Phase, Reply, Outcome, Fault, NoFault, Advance, Answer, Release, Signal,
            NoSignal, config, browserVars, handlerVars, storeVars, partnerVars,
            Checked, AnswersHold, CountedMeansStored, SignalInv, SignalsHold, AccountInv,
            WithinLimits, DistinctKeys
<1>1. ASSUME NEW u \in Upload, NEW r \in Request, SendCreate(u, r)
      PROVE  Kept'
  BY <1>1 DEF SendCreate, Start
<1>2. ASSUME NEW r \in Request, S3Create(r) PROVE Kept'
  BY <1>2 DEF S3Create
<1>3. ASSUME NEW r \in Request, Stash(r) PROVE Kept'
  BY <1>3 DEF Stash, StashUploadMeta
<1>4. ASSUME NEW r \in Request, S3Complete(r) PROVE Kept'
  BY <1>4 DEF S3Complete
<1>5. ASSUME NEW r \in Request, ReadMeta(r) PROVE Kept'
  BY <1>5 DEF ReadMeta, ReadUploadMeta, Unforwarded
<1>6. ASSUME NEW r \in Request, Head(r) PROVE Kept'
  BY <1>6 DEF Head, Stored, Unforwarded
<1>7. ASSUME NEW r \in Request, PostIngest(r) PROVE Kept'
  BY <1>7 DEF PostIngest, Confirmed, Skipped, Failed, Insert
<1>8. ASSUME NEW r \in Request, S3Abort(r) PROVE Kept'
  BY <1>8 DEF S3Abort
<1>9. ASSUME NEW r \in Request, Discard(r) PROVE Kept'
  BY <1>9 DEF Discard
<1>10. ASSUME NEW r \in Request, Crash(r) PROVE Kept'
  BY <1>10 DEF Crash, StopWaiting
<1>11. ASSUME NEW u \in Upload, ReceiveCreated(u) PROVE Kept'
  BY <1>11 DEF ReceiveCreated
<1>12. ASSUME NEW u \in Upload, UploadParts(u) PROVE Kept'
  BY <1>12 DEF UploadParts
<1>13. ASSUME NEW u \in Upload, ReceiveCompleted(u) PROVE Kept'
  BY <1>13 DEF ReceiveCompleted, Account
<1>14. ASSUME NEW u \in Upload, LoseAnswer(u) PROVE Kept'
  BY <1>14 DEF LoseAnswer, StopWaiting
<1>15. ASSUME NEW u \in Upload, GiveUp(u) \/ StashExpires(u) PROVE Kept'
  BY <1>15 DEF GiveUp, StashExpires
<1>16. ASSUME NEW k \in Key, LateIngest(k) PROVE Kept'
  BY <1>16 DEF LateIngest
<1>17. ASSUME NEW u \in Upload, NEW r \in Request, SendComplete(u, r)
      PROVE  Kept'
  BY <1>17 DEF SendComplete, Start
<1>18. ASSUME NEW u \in Upload, NEW r \in Request, Cancel(u, r)
      PROVE  Kept'
  BY <1>18 DEF Cancel, Start
<1>19. CASE UNCHANGED vars
  BY <1>19 DEF vars
<1>20. QED
  BY <1>1, <1>2, <1>3, <1>4, <1>5, <1>6, <1>7, <1>8, <1>9, <1>10,
     <1>11, <1>12, <1>13, <1>14, <1>15, <1>16, <1>17, <1>18, <1>19
     DEF Next, HandlerStep, BrowserStep

(* The browser's account of a batch is true: what it counts is stored, and *)
(* in the library of a brand that has one; what it reports as failed has   *)
(* its operator signal.  Here no two files share a key.                    *)
THEOREM AccountIsTrue ==
    ASSUME DistinctKeys
    PROVE  Spec => [](CountedMeansStored /\ EveryFailedFileIsSignalled)
<1> DEFINE Inv == UploadInv /\ Checked /\ AccountInv
<1>1. Init => Inv
  BY UploadInit, CheckedInit, AccountInit
<1>2. Inv /\ [Next]_vars => Inv'
  BY UploadStep, CheckedStep, AccountStep
<1>3. Inv => CountedMeansStored /\ EveryFailedFileIsSignalled
  BY DEF AccountInv, SignalInv
<1>4. QED
  BY <1>1, <1>2, <1>3, PTL DEF Spec

------------------------------------------------------------------------------
(* The refinement.  A file has no verdict before the browser is done with  *)
(* it, and only a brand whose ingest is ready posts to its partner.        *)
PromiseInv ==
    /\ \A u \in Upload : phase[u] # "over" => outcome[u] = "pending"
    /\ \A r \in Request : at[r] \in {"ingest", "retry_ingest"} => ingest = "ready"
    /\ late # {} => ingest = "ready"

LEMMA PromiseInvInit == Init => PromiseInv
BY UploadAssumption DEF Init, PromiseInv

LEMMA PromiseInvStep ==
    UploadInv /\ PromiseInv /\ [Next]_vars => PromiseInv'
<1> SUFFICES ASSUME UploadInv, PromiseInv, [Next]_vars
             PROVE  PromiseInv'
  OBVIOUS
<1> USE UploadAssumption
        DEF UploadInv, TypeOK, Awaited, Place, Phase, Reply, Outcome, Fault, NoFault,
            Advance, Answer, Release, config, browserVars, handlerVars, storeVars,
            partnerVars, PromiseInv
<1>1. ASSUME NEW u \in Upload, NEW r \in Request, SendCreate(u, r) PROVE PromiseInv'
  BY <1>1 DEF SendCreate, Start
<1>2. ASSUME NEW r \in Request, S3Create(r) PROVE PromiseInv'
  BY <1>2 DEF S3Create
<1>3. ASSUME NEW r \in Request, Stash(r) PROVE PromiseInv'
  BY <1>3 DEF Stash, StashUploadMeta
<1>4. ASSUME NEW r \in Request, S3Complete(r) PROVE PromiseInv'
  BY <1>4 DEF S3Complete
<1>5. ASSUME NEW r \in Request, ReadMeta(r) PROVE PromiseInv'
  BY <1>5 DEF ReadMeta, ReadUploadMeta, Unforwarded
<1>6. ASSUME NEW r \in Request, Head(r) PROVE PromiseInv'
  BY <1>6 DEF Head, Stored, Unforwarded
<1>7. ASSUME NEW r \in Request, PostIngest(r) PROVE PromiseInv'
  BY <1>7 DEF PostIngest, Confirmed, Skipped, Failed, Insert
<1>8. ASSUME NEW r \in Request, S3Abort(r) PROVE PromiseInv'
  BY <1>8 DEF S3Abort
<1>9. ASSUME NEW r \in Request, Discard(r) PROVE PromiseInv'
  BY <1>9 DEF Discard
<1>10. ASSUME NEW r \in Request, Crash(r) PROVE PromiseInv'
  BY <1>10 DEF Crash, StopWaiting
<1>11. ASSUME NEW u \in Upload, ReceiveCreated(u) PROVE PromiseInv'
  BY <1>11 DEF ReceiveCreated
<1>12. ASSUME NEW u \in Upload, UploadParts(u) PROVE PromiseInv'
  BY <1>12 DEF UploadParts
<1>13. ASSUME NEW u \in Upload, ReceiveCompleted(u) PROVE PromiseInv'
  BY <1>13 DEF ReceiveCompleted
<1>14. ASSUME NEW u \in Upload, LoseAnswer(u) PROVE PromiseInv'
  BY <1>14 DEF LoseAnswer, StopWaiting
<1>15. ASSUME NEW u \in Upload, GiveUp(u) \/ StashExpires(u) PROVE PromiseInv'
  BY <1>15 DEF GiveUp, StashExpires
<1>16. ASSUME NEW k \in Key, LateIngest(k) PROVE PromiseInv'
  BY <1>16 DEF LateIngest
<1>17. ASSUME NEW u \in Upload, NEW r \in Request, SendComplete(u, r) PROVE PromiseInv'
  BY <1>17 DEF SendComplete, Start
<1>18. ASSUME NEW u \in Upload, NEW r \in Request, Cancel(u, r) PROVE PromiseInv'
  BY <1>18 DEF Cancel, Start
<1>19. CASE UNCHANGED vars
  BY <1>19 DEF vars
<1>20. QED
  BY <1>1, <1>2, <1>3, <1>4, <1>5, <1>6, <1>7, <1>8, <1>9, <1>10,
     <1>11, <1>12, <1>13, <1>14, <1>15, <1>16, <1>17, <1>18, <1>19
     DEF Next, HandlerStep, BrowserStep

LEMMA PromiseInit == Init => Promise!Init
BY UploadAssumption DEF Init, Promise!Init

LEMMA PromiseStep ==
    ASSUME DistinctKeys
    PROVE  UploadInv /\ Checked /\ AccountInv /\ PromiseInv /\ [Next]_vars
              => [Promise!Next]_(Promise!vars)
<1> SUFFICES ASSUME UploadInv, Checked, AccountInv, PromiseInv, [Next]_vars
             PROVE  [Promise!Next]_(Promise!vars)
  OBVIOUS
<1> USE UploadAssumption
        DEF UploadInv, TypeOK, ObjectAfterComplete, Outcome, Advance, Answer,
            Release, config, browserVars, handlerVars, storeVars, partnerVars,
            DistinctKeys
<1> DEFINE Sound == {w \in Upload : object[KeyOf[w]] = w /\ content[w] = "within"}
           Listed == {w \in Upload : KeyOf[w] \in library}
<1>0. ASSUME NEW f \in Upload,
             Promise!Store(f) \/ Promise!Forward(f) \/ Promise!Settle(f)
      PROVE  [Promise!Next]_(Promise!vars)
  BY <1>0, Zenon DEF Promise!Next
(* Steps that move neither the objects, the library, the signals nor a     *)
(* verdict.                                                                *)
<1>1. ASSUME UNCHANGED <<ingest, isThumbnail, outcome, object, content, library,
                         signalled>>
      PROVE  UNCHANGED Promise!vars
  BY <1>1 DEF Promise!vars
<1>2. ASSUME NEW u \in Upload, NEW r \in Request,
             SendCreate(u, r) \/ SendComplete(u, r)
      PROVE  UNCHANGED Promise!vars
  BY <1>1, <1>2 DEF SendCreate, SendComplete
<1>3. ASSUME NEW r \in Request,
             S3Create(r) \/ Stash(r) \/ ReadMeta(r) \/ S3Abort(r) \/ Discard(r)
      PROVE  UNCHANGED Promise!vars
  BY <1>1, <1>3 DEF S3Create, Stash, ReadMeta, S3Abort, Discard
<1>4. ASSUME NEW u \in Upload, StashExpires(u) PROVE UNCHANGED Promise!vars
  BY <1>1, <1>4 DEF StashExpires
(* The parts a browser puts belong to no object yet.                       *)
<1>5. ASSUME NEW u \in Upload, UploadParts(u) PROVE UNCHANGED Promise!vars
  <2>1. object[KeyOf[u]] # u
    BY <1>5 DEF UploadParts, Phase
  <2>2. QED
    BY <1>5, <2>1 DEF UploadParts, Promise!vars
<1>6. ASSUME NEW r \in Request, S3Complete(r) PROVE [Promise!Next]_(Promise!vars)
  <2>1. PICK f \in Upload : f = of[r]
    BY <1>6 DEF S3Complete
  <2>2. CASE UNCHANGED object
    BY <1>1, <1>6, <2>2 DEF S3Complete
  <2>3. CASE object' = [object EXCEPT ![KeyOf[of[r]]] = of[r]]
    <3>1. UNCHANGED <<ingest, isThumbnail, outcome, content, library, signalled>>
      BY <1>6 DEF S3Complete
    <3>2. {w \in Upload : object'[KeyOf[w]] = w}
             = {w \in Upload : object[KeyOf[w]] = w} \cup {f}
      BY <2>1, <2>3
    <3>3. {w \in Upload : object'[KeyOf[w]] = w /\ content[w] = "within"}
             \in {Sound, Sound \cup {f}}
      BY <2>1, <2>3
    <3>4. Promise!Store(f)
      BY <3>1, <3>2, <3>3 DEF Promise!Store
    <3>5. QED
      BY <1>0, <3>4
  <2>4. QED
    BY <1>6, <2>2, <2>3 DEF S3Complete
(* A signal, an entry, or the two at once.                                 *)
<1>7. ASSUME NEW r \in Request, Head(r) \/ PostIngest(r)
      PROVE  [Promise!Next]_(Promise!vars)
  <2>1. PICK f \in Upload : f = of[r]
    BY <1>7 DEF Head, PostIngest
  <2>2. /\ signalled' \in {signalled, signalled \cup {f}}
        /\ UNCHANGED <<ingest, isThumbnail, outcome, object, content>>
    BY <1>7, <2>1 DEF Head, PostIngest, Signal, NoSignal
  <2>3. CASE UNCHANGED library
    <3>1. Promise!Forward(f)
      BY <2>1, <2>2, <2>3 DEF Promise!Forward
    <3>2. QED
      BY <1>0, <3>1
  <2>4. CASE library' = library \cup {KeyOf[of[r]]} /\ library' # library
    <3>1. at[r] \in {"ingest", "retry_ingest"}
      BY <1>7, <2>4 DEF Head, PostIngest
    <3>2. ingest = "ready" /\ WithinLimits(KeyOf[of[r]])
      BY <3>1 DEF PromiseInv, Checked
    <3>3. object[KeyOf[of[r]]] = of[r] /\ content[of[r]] = "within"
      BY <2>1, <3>2 DEF WithinLimits
    <3>4. {w \in Upload : KeyOf[w] \in library'} = Listed \cup {f}
      BY <2>1, <2>4
    <3>5. Promise!Forward(f)
      BY <2>1, <2>2, <3>2, <3>3, <3>4 DEF Promise!Forward
    <3>6. QED
      BY <1>0, <3>5
  <2>5. QED
    <3>1. library' \in {library, library \cup {KeyOf[of[r]]}}
      BY <1>7 DEF Head, PostIngest, Confirmed, Skipped, Failed, Insert
    <3>2. QED
      BY <2>1, <2>3, <2>4, <3>1
<1>8. ASSUME NEW k \in Key, LateIngest(k) PROVE [Promise!Next]_(Promise!vars)
  <2>1. ingest = "ready" /\ WithinLimits(k)
    BY <1>8 DEF LateIngest, PromiseInv, Checked
  <2>2. PICK u \in Upload : object[k] = u
    BY <2>1 DEF WithinLimits
  <2>3. KeyOf[u] = k /\ content[u] = "within"
    BY <2>1, <2>2 DEF WithinLimits
  <2>4. u \in Upload
    BY <2>1, <2>2 DEF WithinLimits
  <2>5. {w \in Upload : KeyOf[w] \in library'} = Listed \cup {u}
    BY <1>8, <2>3, <2>4 DEF LateIngest
  <2>6. UNCHANGED <<ingest, isThumbnail, outcome, object, content, signalled>>
    BY <1>8 DEF LateIngest
  <2>7. Promise!Forward(u)
    BY <2>1, <2>2, <2>3, <2>4, <2>5, <2>6 DEF Promise!Forward
  <2>8. QED
    BY <1>0, <2>4, <2>7
(* A verdict.                                                              *)
<1>9. ASSUME NEW u \in Upload, NEW v \in Outcome \ {"pending"}, phase[u] # "over",
             outcome' = [outcome EXCEPT ![u] = v], Promise!Backed(u, v),
             UNCHANGED <<ingest, isThumbnail, object, content, library, signalled>>
      PROVE  [Promise!Next]_(Promise!vars)
  <2>1. outcome[u] = "pending"
    BY <1>9 DEF PromiseInv
  <2>2. v \in {"counted", "failed", "thumbnail", "cancelled", "gave_up"}
    OBVIOUS
  <2>3. UNCHANGED <<ingest # "none", {w \in Upload : isThumbnail[w]},
                    {w \in Upload : object[KeyOf[w]] = w},
                    {w \in Upload : object[KeyOf[w]] = w /\ content[w] = "within"},
                    {w \in Upload : KeyOf[w] \in library}, signalled>>
    BY <1>9
  <2>4. \E x \in {"counted", "failed", "thumbnail", "cancelled", "gave_up"} :
           Promise!Backed(u, x) /\ outcome' = [outcome EXCEPT ![u] = x]
    BY <1>9, <2>2, Zenon
  <2>5. Promise!Settle(u)
    BY <2>1, <2>3, <2>4, Zenon DEF Promise!Settle
  <2>6. QED
    BY <1>0, <2>5
<1>10. ASSUME NEW u \in Upload
       PROVE  Promise!Backed(u, "gave_up") /\ Promise!Backed(u, "cancelled")
  BY DEF Promise!Backed
<1>11. ASSUME NEW u \in Upload, ReceiveCreated(u) \/ LoseAnswer(u) \/ GiveUp(u)
       PROVE  [Promise!Next]_(Promise!vars)
  <2>1. CASE UNCHANGED outcome
    BY <1>1, <1>11, <2>1 DEF ReceiveCreated, LoseAnswer, GiveUp
  <2>2. CASE outcome' = [outcome EXCEPT ![u] = "gave_up"] /\ phase[u] # "over"
    BY <1>9, <1>10, <1>11, <2>2 DEF ReceiveCreated, LoseAnswer, GiveUp
  <2>3. QED
    BY <1>11, <2>1, <2>2 DEF ReceiveCreated, LoseAnswer, GiveUp, StopWaiting
<1>12. ASSUME NEW r \in Request, Crash(r) PROVE [Promise!Next]_(Promise!vars)
  <2>1. of[r] \in Upload
    BY <1>12 DEF Crash
  <2>2. CASE UNCHANGED outcome
    BY <1>1, <1>12, <2>2 DEF Crash
  <2>3. CASE outcome' = [outcome EXCEPT ![of[r]] = "gave_up"] /\ phase[of[r]] # "over"
    BY <1>9, <1>10, <1>12, <2>1, <2>3 DEF Crash
  <2>4. QED
    BY <1>12, <2>2, <2>3 DEF Crash, StopWaiting
<1>13. ASSUME NEW u \in Upload, NEW r \in Request, Cancel(u, r)
       PROVE  [Promise!Next]_(Promise!vars)
  BY <1>9, <1>10, <1>13 DEF Cancel
<1>14. ASSUME NEW u \in Upload, ReceiveCompleted(u)
       PROVE  [Promise!Next]_(Promise!vars)
  <2>1. CASE UNCHANGED outcome
    BY <1>1, <1>14, <2>1 DEF ReceiveCompleted
  <2>2. CASE outcome' = [outcome EXCEPT ![u] = Account(u)]
    <3>1. of[waiting[u]] = u /\ waiting[u] \in Request
      BY <1>14 DEF ReceiveCompleted, Awaited
    <3>2. Account(u) \in {"thumbnail", "counted", "failed"}
      BY DEF Account
    <3>3. reply[waiting[u]] \in {"error", "ingested", "not_ingested", "no_ingest",
                                 "unconfirmed"}
          \/ outcome' = outcome
      BY <1>14, <3>1 DEF ReceiveCompleted, Awaited
    <3>4. reply[waiting[u]] # "error" \/ outcome' = outcome
      BY <1>14 DEF ReceiveCompleted
    <3>5. CASE outcome' # outcome
      <4>1. reply[waiting[u]] \in {"ingested", "not_ingested", "no_ingest", "unconfirmed"}
        BY <3>3, <3>4, <3>5
      <4>2. Promise!Backed(u, Account(u))
        BY <3>1, <4>1 DEF AccountInv, SignalInv, SignalsHold, AnswersHold, Account,
                           Promise!Backed
      <4>3. QED
        BY <1>9, <1>14, <2>2, <3>2, <4>2 DEF ReceiveCompleted
    <3>6. QED
      BY <2>1, <3>5
  <2>3. QED
    BY <1>14, <2>1, <2>2 DEF ReceiveCompleted
<1>15. CASE UNCHANGED vars
  BY <1>1, <1>15 DEF vars
<1>16. QED
  BY <1>2, <1>3, <1>4, <1>5, <1>6, <1>7, <1>8, <1>11, <1>12, <1>13, <1>14, <1>15
     DEF Next, HandlerStep, BrowserStep

(* The detailed handlers implement the promise, for any number of files    *)
(* with keys of their own: verdicts are final and backed, entries sound,   *)
(* signals kept, through every retry, late call, cancellation and crash.   *)
THEOREM UploadKeepsItsPromise ==
    ASSUME DistinctKeys
    PROVE  Spec => PromiseSpec
<1> DEFINE Inv == UploadInv /\ Checked /\ AccountInv /\ PromiseInv
<1>1. Init => Inv /\ Promise!Init
  BY UploadInit, CheckedInit, AccountInit, PromiseInvInit, PromiseInit
<1>2. Inv /\ [Next]_vars => Inv'
  BY UploadStep, CheckedStep, AccountStep, PromiseInvStep
<1>3. Inv /\ [Next]_vars => [Promise!Next]_(Promise!vars)
  BY PromiseStep
<1>4. QED
  BY <1>1, <1>2, <1>3, PTL DEF Spec, PromiseSpec, Promise!Spec

------------------------------------------------------------------------------
(* The places of a handler of a complete call that has not answered yet.    *)
Completing == {"complete", "read_meta", "head", "ingest", "retry_ingest"}

(* The places a handler may still come to.                                 *)
Ahead(place) ==
    IF place = "complete" THEN 6
    ELSE IF place = "read_meta" THEN 5
    ELSE IF place = "head" THEN 4
    ELSE IF place \in {"ingest", "create"} THEN 3
    ELSE IF place \in {"retry_ingest", "stash", "abort"} THEN 2
    ELSE IF place = "reply" THEN 1
    ELSE 0

(* No handler is put back or held up by another one, by the browser or by  *)
(* a fault: all of its steps lead to its answer.                           *)
HandlersRunDown ==
    [][\A r \in Request :
          /\ HandlerStep(r) => Ahead(at'[r]) < Ahead(at[r])
          /\ at[r] # "free" => at'[r] = at[r] \/ Ahead(at'[r]) < Ahead(at[r])]_vars

(* The complete handler gives an error only where a fault hits it,         *)
(* whatever S3, stash, object and partner say; and a browser stops         *)
(* waiting, free to ask again, on such an error or in a fault only.        *)
RetriesCostFaults ==
    [][/\ \A r \in Request :
             at[r] \in Completing /\ reply'[r] = "error" => faults' = faults + 1
       /\ \A u \in Upload :
             phase[u] = "completing" /\ waiting[u] # NoRequest /\ waiting'[u] = NoRequest =>
                 \/ phase'[u] = "over"
                 \/ at[waiting[u]] = "reply" /\ reply[waiting[u]] = "error"
                 \/ faults' = faults + 1]_vars

(* A handler moves itself only, and forward.                               *)
LEMMA HandlerMoves ==
    ASSUME UploadInv, NEW r \in Request, HandlerStep(r) \/ Crash(r)
    PROVE  /\ Ahead(at'[r]) < Ahead(at[r])
           /\ \A s \in Request \ {r} : at'[s] = at[s] /\ reply'[s] = reply[s]
<1> USE DEF UploadInv, TypeOK, handlerVars, Ahead, Advance, Answer, Release
<1>1. CASE S3Create(r) \/ Stash(r) \/ S3Abort(r)
  BY <1>1 DEF S3Create, Stash, S3Abort
<1>2. CASE S3Complete(r)
  BY <1>2 DEF S3Complete
<1>3. CASE ReadMeta(r)
  BY <1>3 DEF ReadMeta
<1>4. CASE Head(r)
  BY <1>4 DEF Head
<1>5. CASE PostIngest(r)
  BY <1>5 DEF PostIngest
<1>6. CASE Discard(r)
  BY <1>6 DEF Discard
<1>7. CASE Crash(r)
  BY <1>7 DEF Crash, Place
<1> QED BY <1>1, <1>2, <1>3, <1>4, <1>5, <1>6, <1>7 DEF HandlerStep

(* The browser and the partner start a free handler or take its answer.    *)
LEMMA OthersMove ==
    ASSUME UploadInv, NEW r \in Request,
           \/ \E u \in Upload :
                 \/ BrowserStep(u) \/ LoseAnswer(u) \/ GiveUp(u) \/ StashExpires(u)
                 \/ \E s \in Request : SendCreate(u, s) \/ SendComplete(u, s) \/ Cancel(u, s)
           \/ \E k \in Key : LateIngest(k)
    PROVE  /\ at[r] # "free" => at'[r] = at[r] \/ Ahead(at'[r]) < Ahead(at[r])
           /\ reply'[r] \in {reply[r], "none"}
<1> USE DEF UploadInv, TypeOK, Awaited, handlerVars, Ahead, Release, Start
<1>1. ASSUME NEW u \in Upload, BrowserStep(u)
      PROVE  /\ at[r] # "free" => at'[r] = at[r] \/ Ahead(at'[r]) < Ahead(at[r])
             /\ reply'[r] \in {reply[r], "none"}
  BY <1>1 DEF BrowserStep, ReceiveCreated, UploadParts, ReceiveCompleted
<1>2. ASSUME NEW u \in Upload, LoseAnswer(u) \/ GiveUp(u) \/ StashExpires(u)
      PROVE  UNCHANGED handlerVars
  BY <1>2 DEF LoseAnswer, GiveUp, StashExpires
<1>3. ASSUME NEW u \in Upload, NEW s \in Request,
             SendCreate(u, s) \/ SendComplete(u, s) \/ Cancel(u, s)
      PROVE  /\ at[r] # "free" => at'[r] = at[r]
             /\ reply'[r] = reply[r]
  BY <1>3 DEF SendCreate, SendComplete, Cancel
<1>4. ASSUME NEW k \in Key, LateIngest(k) PROVE UNCHANGED handlerVars
  BY <1>4 DEF LateIngest
<1> QED BY <1>1, <1>2, <1>3, <1>4

(* However many handlers work on one upload, each of them runs to its      *)
(* answer in six steps at most.                                          *)
THEOREM UploadHandlersRunDown == Spec => HandlersRunDown
<1>1. UploadInv /\ [Next]_vars
        => [\A r \in Request :
              /\ HandlerStep(r) => Ahead(at'[r]) < Ahead(at[r])
              /\ at[r] # "free" => at'[r] = at[r] \/ Ahead(at'[r]) < Ahead(at[r])]_vars
  <2> SUFFICES ASSUME UploadInv, Next, NEW r \in Request
               PROVE  /\ HandlerStep(r) => Ahead(at'[r]) < Ahead(at[r])
                      /\ at[r] # "free" => at'[r] = at[r] \/ Ahead(at'[r]) < Ahead(at[r])
    OBVIOUS
  <2>1. ASSUME NEW s \in Request, HandlerStep(s) \/ Crash(s)
        PROVE  at'[r] = at[r] \/ Ahead(at'[r]) < Ahead(at[r])
    BY <2>1, HandlerMoves
  <2> QED BY <2>1, HandlerMoves, OthersMove DEF Next
<1> QED BY <1>1, UploadInit, UploadStep, PTL DEF Spec, HandlersRunDown

(* What a handler of a complete call answers.                              *)
LEMMA ErrorsAreFaults ==
    ASSUME UploadInv, Next, NEW r \in Request, at[r] \in Completing, reply'[r] = "error"
    PROVE  faults' = faults + 1
<1> USE DEF UploadInv, TypeOK, Completing, Place
<1>0. at[r] # "reply"
  OBVIOUS
<1>1. CASE HandlerStep(r)
  <2> USE DEF Advance, Answer, NoFault, Fault
  <2> QED BY <1>1 DEF HandlerStep, S3Create, Stash, S3Complete, ReadMeta, Head,
          PostIngest, S3Abort, Discard, Failed, Unforwarded
<1>2. ASSUME NEW s \in Request, s # r, HandlerStep(s) \/ Crash(s) PROVE FALSE
  BY <1>0, <1>2, HandlerMoves
<1>3. CASE Crash(r)
  BY <1>3 DEF Crash, Release
<1> QED BY <1>0, <1>1, <1>2, <1>3, OthersMove DEF Next

(* When a browser with a complete call under way stops waiting for it.     *)
LEMMA AskingAgain ==
    ASSUME UploadInv, Next, NEW u \in Upload,
           phase[u] = "completing", waiting[u] # NoRequest, waiting'[u] = NoRequest
    PROVE  \/ phase'[u] = "over"
           \/ at[waiting[u]] = "reply" /\ reply[waiting[u]] = "error"
           \/ faults' = faults + 1
<1> DEFINE Goal == \/ phase'[u] = "over"
                   \/ at[waiting[u]] = "reply" /\ reply[waiting[u]] = "error"
                   \/ faults' = faults + 1
<1> USE UploadAssumption DEF UploadInv, TypeOK, Fault, browserVars
<1>1. ASSUME NEW r \in Request, HandlerStep(r) PROVE FALSE
  BY <1>1 DEF HandlerStep, S3Create, Stash, S3Complete, ReadMeta, Head, PostIngest,
              S3Abort, Discard
<1>2. ASSUME NEW r \in Request, Crash(r) PROVE Goal
  BY <1>2 DEF Crash
<1>3. ASSUME NEW v \in Upload, BrowserStep(v) PROVE Goal
  BY <1>3 DEF BrowserStep, ReceiveCreated, UploadParts, ReceiveCompleted
<1>4. ASSUME NEW v \in Upload, LoseAnswer(v) \/ GiveUp(v) \/ StashExpires(v) PROVE Goal
  BY <1>4 DEF LoseAnswer, GiveUp, StashExpires
<1>5. ASSUME NEW v \in Upload, NEW r \in Request,
             SendCreate(v, r) \/ SendComplete(v, r) \/ Cancel(v, r)
      PROVE  Goal
  BY <1>5 DEF SendCreate, SendComplete, Cancel
<1>6. ASSUME NEW k \in Key, LateIngest(k) PROVE FALSE
  BY <1>6 DEF LateIngest
<1> QED BY <1>1, <1>2, <1>3, <1>4, <1>5, <1>6 DEF Next

(* A lost answer does not become a retry loop: each retry of a complete    *)
(* call has a fault of its own, for S3's NoSuchUpload is a success.        *)
THEOREM RetriesArePaidFor == Spec => RetriesCostFaults
<1>1. UploadInv /\ [Next]_vars
        => [/\ \A r \in Request :
                 at[r] \in Completing /\ reply'[r] = "error" => faults' = faults + 1
            /\ \A u \in Upload :
                 phase[u] = "completing" /\ waiting[u] # NoRequest /\ waiting'[u] = NoRequest =>
                     \/ phase'[u] = "over"
                     \/ at[waiting[u]] = "reply" /\ reply[waiting[u]] = "error"
                     \/ faults' = faults + 1]_vars
  BY ErrorsAreFaults, AskingAgain
<1> QED BY <1>1, UploadInit, UploadStep, PTL DEF Spec, RetriesCostFaults
==============================================================================
