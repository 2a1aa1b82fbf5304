----------------------------- MODULE BatchRequests -----------------------------
(***************************************************************************)
(* checkDAProofsBatch with its two bulk requests, as the watcher calls it: *)
(* the publications of a batch, their timestamp proofs, the pairing of the *)
(* two by position, the checks and the queue of failed proofs.  What a     *)
(* check saves is in ProofsBatch, retries and stops between two writes are *)
(* in VerifierNode.                                                        *)
(***************************************************************************)
EXTENDS BundlrBulk, FailedProofs, FiniteSets

CONSTANTS
    Concurrency,    \* the concurrency given to Bluebird's map
    MaxSpoiled,     \* bound on the batches a malformed publication spoils
    MaxDisturbances \* bound on the pages that come without an end cursor, the checks
                    \* that take too long and the stops of the process, together

ASSUME BatchAssumption ==
    /\ Concurrency \in Nat \ {0}
    /\ MaxSpoiled \in Nat /\ MaxDisturbances \in Nat

VARIABLES
    pc,             \* fetch, publications, proofs, check, save
    endCursor,      \* the watcher's variable
    savedCursor,    \* the cursor in the database
    batch,          \* the ids being requested, first of publications, then of proofs
    next,           \* the end cursor that came with the batch
    waiting,        \* pairs not yet checked
    inFlight,       \* pairs being checked
    strays,         \* pairs whose check goes on although their batch has failed
    metadata,       \* tx_da_metadata:<id> and tx_timestamp_proof_metadata:<id>: the
                    \* publication it is, or whose proofs they are, or 0
    accepted, failed, leftOut, \* history: the pairs and failures of the checks,
                    \* and the publications an answer left out of a batch
    bounds          \* how often each bounded event has happened

batchVars == <<pc, endCursor, savedCursor, batch, next, waiting, inFlight, strays,
               metadata, accepted, failed, leftOut, bounds>>

\* A publication as it is checked, with the timestamp proofs of publication proofs.
Pair == [id : Publications, proofs : Publications]

Reason == {"UNKNOWN", "TIMESTAMP_PROOF_NOT_SUBMITTER", "TIMESTAMP_PROOF_INVALID_DA_ID"}
FailedProof == [txId : Publications, reason : Reason]

BatchInit ==
    /\ pc = "fetch" /\ endCursor = 0 /\ savedCursor = 0 /\ batch = <<>> /\ next = 0
    /\ waiting = {} /\ inFlight = {} /\ strays = {}
    /\ metadata = [kind \in {"da", "proofs"} |-> [id \in Ids |-> 0]]
    /\ accepted = {} /\ failed = {} /\ leftOut = {}
    /\ bounds = [spoiled |-> 0, disturbances |-> 0]

MayDisturb == bounds.disturbances < MaxDisturbances

\* getBulkDataAvailabilityTransactions pulls pages until one has no cursor.
FetchBatch ==
    /\ pc = "fetch" /\ bounds.spoiled < MaxSpoiled
    /\ \E ids \in Pages(endCursor), null \in {b \in BOOLEAN : b => MayDisturb} :
          /\ batch' = ids
          /\ next' = IF null THEN 0 ELSE PageEnd(ids)
          /\ bounds' = [bounds EXCEPT !.disturbances = IF null THEN @ + 1 ELSE @]
    /\ pc' = "publications"
    /\ UNCHANGED <<endCursor, savedCursor, waiting, inFlight, strays, metadata,
                   accepted, failed, leftOut>>

\* The catch of the watcher's loop: the cursor stays where it is.
StartOver ==
    /\ pc' = "fetch" /\ batch' = <<>> /\ next' = 0
    /\ UNCHANGED <<endCursor, savedCursor, waiting, inFlight, strays, accepted, failed,
                   leftOut>>

\* A chunk of the request timed out.
RequestFails ==
    pc \in {"publications", "proofs"} /\ StartOver /\ UNCHANGED <<metadata, bounds>>

Spoil == [bounds EXCEPT !.spoiled = @ + 1]

\* Wrong: what cannot be parsed is left out, and nobody hears of it.
PublicationsLoadedReadable ==
    /\ pc = "publications"
    /\ \E a \in Answers(batch) :
          /\ batch' = SelectSeq(a, LAMBDA t : defect[t] \notin {"json", "receipt"})
          /\ leftOut' = leftOut \cup (Answered(batch) \ Answered(a))
    /\ pc' = "proofs"
    /\ UNCHANGED <<endCursor, savedCursor, next, waiting, inFlight, strays,
                   metadata, accepted, failed, bounds>>

\* saveTxDAMetadataDb of what can be read in the answer, though the rest cannot.
CachePublications(a) ==
    [metadata EXCEPT !.da = [id \in Ids |->
        IF id \in Answered(a) /\ defect[id] # "json" THEN id ELSE @[id]]]

\* The first bulk request and buildDAPublicationsBatchResult.  One publication that
\* is not JSON, or has no timestamp proofs to ask for, is an exception for all.
PublicationsLoaded ==
    /\ pc = "publications"
    /\ \E a \in Answers(batch) :
          /\ metadata' = CachePublications(a)
          /\ IF \E i \in DOMAIN a : defect[a[i]] \in {"json", "receipt"}
             THEN StartOver /\ bounds' = Spoil
             ELSE /\ batch' = a
                  /\ leftOut' = leftOut \cup (Answered(batch) \ Answered(a))
                  /\ pc' = "proofs"
                  /\ UNCHANGED <<endCursor, savedCursor, next, waiting, inFlight, strays,
                                 accepted, failed, bounds>>

\* Wrong: the proofs are cached for the publication at their position.
CacheProofsByPosition(a, ok) ==
    [metadata EXCEPT !.proofs = [id \in Ids |->
        IF \E i \in DOMAIN a : batch[i] = id /\ a[i] - N \in ok
        THEN a[CHOOSE i \in DOMAIN a : batch[i] = id] - N ELSE @[id]]]

\* saveTxTimestampProofsMetadataDb, under the id of the timestamp transaction.
CacheProofs(a, ok) ==
    [metadata EXCEPT !.proofs = [id \in Ids |->
        IF id \in Answered(a) /\ id - N \in ok THEN id - N ELSE @[id]]]

\* The publication and the timestamp proofs at the same position of the answers.
PairUp(a) == {[id |-> batch[i], proofs |-> a[i] - N] : i \in DOMAIN a}

\* The second bulk request and buildDAPublicationsWithTimestampProofsBatchResult.
ProofsLoaded ==
    /\ pc = "proofs"
    /\ \E a \in Answers([i \in DOMAIN batch |-> TimestampTx(batch[i])]) :
       LET ok == {t \in Publications : defect[t] # "proofs"} IN
          /\ metadata' = CacheProofs(a, ok)
          /\ IF \E i \in DOMAIN a : a[i] - N \notin ok
             THEN pc' = "fetch" /\ next' = 0 /\ bounds' = Spoil /\ UNCHANGED <<waiting, leftOut>>
             ELSE /\ waiting' = PairUp(a)
                  /\ leftOut' = leftOut \cup {batch[i] : i \in DOMAIN batch \ DOMAIN a}
                  /\ pc' = "check" /\ UNCHANGED <<next, bounds>>
    /\ batch' = <<>>
    /\ UNCHANGED <<endCursor, savedCursor, inFlight, strays, accepted, failed>>

StartCheck(p) ==
    /\ pc = "check" /\ p \in waiting
    /\ Cardinality(inFlight) < Concurrency
    /\ waiting' = waiting \ {p} /\ inFlight' = inFlight \cup {p}
    /\ UNCHANGED <<pc, endCursor, savedCursor, batch, next, strays, metadata,
                   accepted, failed, leftOut, bounds>>

\* Wrong: validatesTimestampProof does not compare the ids.
ErrorsWithoutDaId(p) ==
    IF defect[p.proofs] = "foreign" THEN {"TIMESTAMP_PROOF_NOT_SUBMITTER"}
    ELSE IF defect[p.id] = "event" THEN {"UNKNOWN"} ELSE {}

\* The error the check of a pair ends with, in a set of at most one.  The submitter is
\* that of the timestamp proofs.  A publication without an event is an exception.
Errors(p) ==
    IF defect[p.proofs] = "foreign" THEN {"TIMESTAMP_PROOF_NOT_SUBMITTER"}
    ELSE IF p.proofs # p.id THEN {"TIMESTAMP_PROOF_INVALID_DA_ID"}
    ELSE IF defect[p.id] = "event" THEN {"UNKNOWN"} ELSE {}

\* The check of p ends, or takes too long: a failed one is queued to be written.
Conclude(p, late) ==
    IF Errors(p) = {} /\ ~late
    THEN accepted' = accepted \cup {p} /\ UNCHANGED <<failed, failedProofs>>
    ELSE \E reason \in IF late THEN {"UNKNOWN"} ELSE Errors(p) :
            LET f == [txId |-> p.id, reason |-> reason] IN
            failed' = failed \cup {f} /\ Enqueue(f) /\ UNCHANGED accepted

\* How the bounded events are counted when a check ends.
Count(spoils, late) ==
    [spoiled |-> bounds.spoiled + (IF spoils THEN 1 ELSE 0),
     disturbances |-> bounds.disturbances + (IF late THEN 1 ELSE 0)]

\* The result is logged with the time of the event: without one the whole batch
\* fails, after the failed proof was queued, and the other checks go on alone.
FinishCheck(p, late) ==
    /\ p \in inFlight
    /\ Conclude(p, late)
    /\ bounds' = Count(defect[p.id] = "event", late)
    /\ IF defect[p.id] = "event"
       THEN /\ pc' = "fetch" /\ next' = 0 /\ waiting' = {} /\ inFlight' = {}
            /\ strays' = strays \cup (inFlight \ {p})
       ELSE inFlight' = inFlight \ {p} /\ UNCHANGED <<pc, next, waiting, strays>>
    /\ UNCHANGED <<endCursor, savedCursor, batch, metadata, leftOut>>

FinishStray(p, late) ==
    /\ p \in strays
    /\ Conclude(p, late)
    /\ strays' = strays \ {p} /\ bounds' = Count(FALSE, late)
    /\ UNCHANGED <<pc, endCursor, savedCursor, batch, next, waiting, inFlight, metadata,
                   leftOut>>

\* processTransactions returns, and the cursor moves.
BatchChecked ==
    /\ pc = "check" /\ waiting = {} /\ inFlight = {}
    /\ endCursor' = next /\ next' = 0 /\ pc' = "save"
    /\ UNCHANGED <<savedCursor, batch, waiting, inFlight, strays, metadata,
                   accepted, failed, leftOut, bounds>>

\* Wrong: the watcher goes on from the cursor in the database.
SaveCursorOrRevert ==
    /\ pc = "save"
    /\ \/ endCursor # 0 /\ savedCursor' = endCursor /\ UNCHANGED endCursor
       \/ UNCHANGED savedCursor /\ endCursor' = savedCursor
    /\ pc' = "fetch"
    /\ UNCHANGED <<batch, next, waiting, inFlight, strays, metadata, accepted, failed,
                   leftOut, bounds>>

\* saveEndCursorDb: a null cursor cannot be put, nor can any if the database fails.
SaveCursor ==
    /\ pc = "save"
    /\ \/ endCursor # 0 /\ savedCursor' = endCursor
       \/ UNCHANGED savedCursor
    /\ pc' = "fetch"
    /\ UNCHANGED <<endCursor, batch, next, waiting, inFlight, strays, metadata,
                   accepted, failed, leftOut, bounds>>

\* getLastEndCursorDb
GetLastEndCursor == savedCursor

\* The process stops and is started again with resync.
Restart ==
    /\ MayDisturb
    /\ bounds' = [bounds EXCEPT !.disturbances = @ + 1]
    /\ pc' = "fetch" /\ endCursor' = GetLastEndCursor /\ batch' = <<>> /\ next' = 0
    /\ waiting' = {} /\ inFlight' = {} /\ strays' = {}
    /\ LoseQueue
    /\ UNCHANGED <<savedCursor, metadata, accepted, failed, leftOut>>

\* getDaPublication of DaProofGateway: the publication a check by id of t checks.
GetTxDAMetadata(id) == metadata.da[id]
DaPublication(t) == IF GetTxDAMetadata(t) # 0 THEN GetTxDAMetadata(t) ELSE t

\* getTimestampProofs of DaProofGateway, which a check by id asks for the proofs of t:
\* looked up under the id of t, requested under that of the timestamp transaction.
GetTxTimestampProofsMetadata(id) == metadata.proofs[id]
TimestampProofs(t) ==
    IF GetTxTimestampProofsMetadata(t) # 0 THEN GetTxTimestampProofsMetadata(t) ELSE t

QueueStep == Dequeue \/ WriteFailedProof \/ WriteFails \/ DelayOver

BatchStep ==
    \/ FetchBatch \/ RequestFails \/ PublicationsLoaded \/ ProofsLoaded
    \/ \E p \in waiting : StartCheck(p)
    \/ BatchChecked \/ SaveCursor

CheckEnds ==
    \E p \in inFlight \cup strays, late \in {b \in BOOLEAN : b => MayDisturb} :
        FinishCheck(p, late) \/ FinishStray(p, late)

-------------------------------------------------------------------------------
(* Properties *)

\* However the answers of the two bulk requests are ordered and whatever they leave
\* out, a publication is accepted only with its own timestamp proofs, uploaded by a
\* submitter (check-da-proofs-batch.ts:114, da-proof-checker.ts:323).
AcceptedWithOwnProofs ==
    \A p \in accepted : p.proofs = p.id /\ defect[p.id] \notin {"foreign", "event"}

\* What is cached never makes a check by id use another publication, or the timestamp
\* proofs of another, although a batch may have paired them with it.
ChecksByIdUseOwnProofs ==
    \A t \in Publications : DaPublication(t) = t /\ TimestampProofs(t) = t

\* The watcher never passes a publication that was not checked, unless an answer left
\* it out; one that cannot be read is not passed at all (check-da-proofs-batch.ts:81).
Unreadable(t) == defect[t] \in {"json", "receipt", "event"}
Checked(t) == (\E p \in accepted : p.id = t) \/ (\E f \in failed : f.txId = t)
PassedIsDealtWith ==
    \A t \in 1 .. endCursor :
        IsListed(t) => t \in leftOut \/ (Checked(t) /\ ~Unreadable(t))

\* A failed proof is on disk, or in memory on its way there, unless the process
\* stopped while it was (process-failed-da-proof.queue.ts:29); and what the watcher of
\* failed submissions counts did fail, once.
FailureKept ==
    /\ failed \subseteq files \cup InMemory \cup lost
    /\ \A reason \in DOMAIN FailedResults :
          FailedResults[reason] <= Cardinality({f \in failed : f.reason = reason})

===============================================================================
