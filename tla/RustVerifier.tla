----------------------------- MODULE RustVerifier -----------------------------
(***************************************************************************)
(* The verifier in Rust: its loop over the pages of momoka transactions,   *)
(* the bulk requests for a page and for the pointers of its publications,  *)
(* and the futures that check the publications of a page.  join_all polls  *)
(* them in one task: first every future once, each up to its first await,  *)
(* then those whose await is over.  Results are kept in two caches in      *)
(* memory; nothing survives the process.                                   *)
(*                                                                         *)
(* Transactions are numbered in the order Bundlr lists them, and the       *)
(* cursor is the number of the last transaction seen, 0 stands for None.   *)
(* A page that is not empty comes with a cursor.                           *)
(***************************************************************************)
EXTENDS Naturals, Sequences, FiniteSets

CONSTANTS
    N,              \* bound: how many transactions are ever submitted
    Signatures,
    Signature,      \* the signature each publication carries, which is its submitter's
    Pointer,        \* the publication a comment or mirror points to, or 0
    PageSize,       \* transactions in a page
    BulkOver,       \* with more publications, the pointers are fetched in bulk
    MaxStarts       \* bound: how often the process is started

Transactions == 1 .. N

ASSUME NumberAssumption ==
    /\ N \in Nat /\ BulkOver \in Nat /\ MaxStarts \in Nat
    /\ PageSize \in Nat \ {0}

ASSUME PublicationAssumption ==
    /\ Signature \in [Transactions -> Signatures]
    /\ Pointer \in [Transactions -> 0 .. N]

VARIABLES
    defect,         \* what is wrong with each publication
    submitted,      \* transactions Bundlr lists so far
    pc,             \* where the loop is
    endCursor,      \* end_cursor
    batch,          \* the transactions of the page
    proofs,         \* whose timestamp proofs a publication was given, 0 for none
    fetched,        \* the pointers fetched in bulk
    stage,          \* where the future of each publication is
    txCache,        \* TRANSACTION_CACHE
    sigCache        \* SIGNATURE_CACHE

process == <<endCursor, batch, proofs, fetched, stage, txCache, sigCache>>

\* History of the run, read by no action.
VARIABLES
    outcome,        \* what the future of a publication returned
    unanswered,     \* publications to whose check the archive node did not answer
    bootCursor,     \* where the process began
    starts          \* how often it was started

history == <<outcome, unanswered, bootCursor, starts>>

vars == <<defect, submitted, pc, process, history>>

\* "early" is found by process_proof before its first await, "late" after it.
Defect == {"none", "early", "late"}

\* "listed" is a transaction that is in the answer of no bulk request, or that could
\* not be read; "unread" one whose pointer could not be fetched.
Outcome == {"none", "ok", "failed", "sigUsed", "pointerFailed", "unread", "listed"}

TypeOK ==
    /\ defect \in [Transactions -> Defect]
    /\ submitted \in 0 .. N
    /\ pc \in {"down", "fetch", "bulk", "pointers", "check"}
    /\ endCursor \in 0 .. N
    /\ batch \subseteq Transactions
    /\ proofs \in [Transactions -> 0 .. N]
    /\ fetched \in [Transactions -> {"no", "bare", "full"}]
    /\ stage \in [Transactions -> {"idle", "queued", "pointer", "proof", "done"}]
    /\ txCache \in [Transactions -> {"none", "ok", "failed"}]
    /\ sigCache \subseteq Signatures
    /\ outcome \in [Transactions -> Outcome]
    /\ unanswered \subseteq Transactions
    /\ bootCursor \in 0 .. N
    /\ starts \in 0 .. MaxStarts

Every(x) == [t \in Transactions |-> x]

Init ==
    /\ defect \in [Transactions -> Defect]
    /\ submitted = 0
    /\ pc = "down"
    /\ endCursor = 0 /\ batch = {}
    /\ proofs = Every(0) /\ fetched = Every("no") /\ stage = Every("idle")
    /\ txCache = Every("none") /\ sigCache = {}
    /\ outcome = Every("none") /\ unanswered = {}
    /\ bootCursor = 0 /\ starts = 0

Submit ==
    /\ submitted < N
    /\ submitted' = submitted + 1
    /\ UNCHANGED <<defect, pc, process, history>>

-------------------------------------------------------------------------------
(* main *)

\* With resync the loop begins at the first transaction, without at the newest,
\* and there must be one then.
Start(resync) ==
    /\ pc = "down"
    /\ starts < MaxStarts
    /\ resync \/ submitted > 0
    /\ starts' = starts + 1
    /\ pc' = "fetch"
    /\ endCursor' = IF resync THEN 0 ELSE submitted
    /\ bootCursor' = endCursor'
    /\ batch' = {}
    /\ proofs' = Every(0) /\ fetched' = Every("no") /\ stage' = Every("idle")
    /\ txCache' = Every("none") /\ sigCache' = {}
    /\ outcome' = Every("none") /\ unanswered' = {}
    /\ UNCHANGED <<defect, submitted>>

\* The process exits, or its main task panics.
Stop ==
    /\ pc' = "down"
    /\ UNCHANGED <<defect, submitted, process, history>>

\* Wrong: the end of a page that is not full is taken for a full one's.
PageEndOfFullPage == endCursor + PageSize

\* The last transaction of the page after endCursor.
PageEnd == IF endCursor + PageSize < submitted THEN endCursor + PageSize ELSE submitted

\* get_bulk_transactions_ids_api, with one page.  The cursor moves at once.  An
\* empty page, and a request that fails, only make the loop sleep.
FetchPage ==
    /\ pc = "fetch"
    /\ endCursor < submitted
    /\ batch' = (endCursor + 1) .. PageEnd
    /\ endCursor' = PageEnd
    /\ pc' = "bulk"
    /\ UNCHANGED <<defect, submitted, proofs, fetched, stage, txCache, sigCache, history>>

\* Wrong: the error of check_proofs does not end the process.
BulkFailsAndGoesOn ==
    /\ pc \in {"bulk", "pointers"}
    /\ pc' = "fetch"
    /\ batch' = {}
    /\ UNCHANGED <<defect, submitted, endCursor, proofs, fetched, stage, txCache,
                   sigCache, history>>

\* A bulk request of check_proofs fails six times over, or its answer cannot be
\* decoded, and main exits; or a transaction without a type makes it panic.
BulkFails == pc \in {"bulk", "pointers"} /\ Stop

-------------------------------------------------------------------------------
(* get_bulk_transactions_api *)

\* The answers to a request for S: the publications in the order of the answer.
\* Those that failed, or whose format is wrong, are missing.
Answers(S) ==
    UNION {{o \in [1 .. Cardinality(A) -> A] : \A t \in A : \E i \in DOMAIN o : o[i] = t}
           : A \in SUBSET S}

InAnswer(o) == {o[i] : i \in DOMAIN o}

\* The timestamp proofs of the publications in A are in the second answer; it is
\* zipped with the first.
Zip(o, A) ==
    LET got == SelectSeq(o, LAMBDA t : t \in A)
    IN  [t \in InAnswer(o) |->
            IF \E i \in 1 .. Len(got) : o[i] = t
            THEN got[CHOOSE i \in 1 .. Len(got) : o[i] = t] ELSE 0]

\* Wrong: the ids are not compared.
AnyPairs(p) == TRUE

\* assert_eq!(*id, tx_proofs.id)
PairsMatch(p) == \A t \in DOMAIN p : p[t] \in {0, t}

BulkLoaded ==
    /\ pc = "bulk"
    /\ \E o \in Answers(batch) : \E A \in SUBSET InAnswer(o) :
        LET p == Zip(o, A) IN
        /\ PairsMatch(p)
        /\ proofs' = [t \in Transactions |-> IF t \in DOMAIN p THEN p[t] ELSE proofs[t]]
        /\ stage' = [t \in Transactions |->
                        IF t \in DOMAIN p THEN "queued" ELSE "idle"]
        /\ outcome' = [t \in Transactions |->
                        IF t \in batch \ DOMAIN p THEN "listed" ELSE outcome[t]]
        /\ pc' = IF Cardinality(DOMAIN p) > BulkOver THEN "pointers" ELSE "check"
    /\ fetched' = Every("no")
    /\ UNCHANGED <<defect, submitted, endCursor, batch, txCache, sigCache, unanswered,
                   bootCursor, starts>>

\* The pointers of the publications are fetched in bulk as well.
PointerIds == {Pointer[t] : t \in {u \in batch : stage[u] = "queued"}} \ {0}

PointersLoaded ==
    /\ pc = "pointers"
    /\ \E o \in Answers(PointerIds) : \E A \in SUBSET InAnswer(o) :
        LET p == Zip(o, A) IN
        /\ PairsMatch(p)
        /\ fetched' = [t \in Transactions |->
               IF t \notin DOMAIN p THEN "no" ELSE IF p[t] = 0 THEN "bare" ELSE "full"]
    /\ pc' = "check"
    /\ UNCHANGED <<defect, submitted, endCursor, batch, proofs, stage, txCache,
                   sigCache, history>>

\* The assertion fails.
BulkPanics ==
    /\ pc \in {"bulk", "pointers"}
    /\ \E o \in Answers(IF pc = "bulk" THEN batch ELSE PointerIds) :
          \E A \in SUBSET InAnswer(o) : ~PairsMatch(Zip(o, A))
    /\ Stop

-------------------------------------------------------------------------------
(* The futures of process_proofs *)

\* Wrong: the signature of a publication that was checked is not kept.
CacheResultOnly(t, r) ==
    /\ txCache' = [txCache EXCEPT ![t] = r]
    /\ UNCHANGED sigCache

\* set_signature_cache and set_tx_cache
CacheResult(t, r) ==
    /\ txCache' = [txCache EXCEPT ![t] = r]
    /\ sigCache' = sigCache \cup {Signature[t]}

Stage(t, s) == stage' = [stage EXCEPT ![t] = s]

Return(t, r) == Stage(t, "done") /\ outcome' = [outcome EXCEPT ![t] = r]

NotCached == UNCHANGED <<txCache, sigCache>>

\* The publication's own part of its future, up to the first await of
\* process_proof.  A cached success makes no difference.
OwnPart(t) ==
    \/ /\ Signature[t] \in sigCache
       /\ Return(t, "sigUsed") /\ NotCached
    \/ /\ Signature[t] \notin sigCache /\ defect[t] = "early"
       /\ Return(t, "failed") /\ CacheResult(t, "failed")
    \/ /\ Signature[t] \notin sigCache /\ defect[t] # "early"
       /\ Stage(t, "proof") /\ NotCached /\ UNCHANGED outcome

\* unwrap() of a cached error panics.
CachedFailure(t) == t # 0 /\ txCache[t] = "failed"

FutureUnchanged ==
    UNCHANGED <<defect, submitted, pc, endCursor, batch, proofs, fetched, bootCursor, starts>>

\* The first poll of a future.
FirstPoll(t) ==
    /\ pc = "check" /\ stage[t] = "queued"
    /\ ~CachedFailure(Pointer[t])
    /\ \/ /\ Pointer[t] = 0
          /\ ~CachedFailure(t) /\ OwnPart(t)
       \/ /\ Pointer[t] # 0
          /\ IF fetched[Pointer[t]] # "no" /\ defect[Pointer[t]] = "early"
             THEN Return(t, "pointerFailed")
             ELSE Stage(t, "pointer") /\ UNCHANGED outcome
          /\ NotCached
    /\ UNCHANGED unanswered
    /\ FutureUnchanged

FirstPollPanics(t) ==
    /\ pc = "check" /\ stage[t] = "queued"
    /\ CachedFailure(Pointer[t])
    /\ Stop

\* Every future was polled once, and the await of t is over.
Resumes(t, s) ==
    /\ pc = "check" /\ stage[t] = s
    /\ \A u \in batch : stage[u] # "queued"

PointerProved(t) ==
    /\ Resumes(t, "pointer")
    /\ defect[Pointer[t]] = "none" /\ fetched[Pointer[t]] # "bare"
    /\ ~CachedFailure(t) /\ OwnPart(t)
    /\ UNCHANGED unanswered
    /\ FutureUnchanged

\* Wrong: what the check of the pointer returned is not looked at.
PointerFailsUnseen(t) ==
    /\ Resumes(t, "pointer")
    /\ OwnPart(t)
    /\ UNCHANGED unanswered
    /\ FutureUnchanged

\* Something is wrong with the pointer, its timestamp proofs are missing or the
\* archive node does not answer.  Nothing is cached.
PointerFails(t) ==
    /\ Resumes(t, "pointer")
    /\ Return(t, "pointerFailed") /\ NotCached
    /\ UNCHANGED unanswered
    /\ FutureUnchanged

\* get_transaction_api does not get a pointer that was not fetched in bulk.
PointerUnread(t) ==
    /\ Resumes(t, "pointer")
    /\ fetched[Pointer[t]] = "no"
    /\ Return(t, "unread") /\ NotCached
    /\ UNCHANGED unanswered
    /\ FutureUnchanged

Proved(t) ==
    /\ Resumes(t, "proof")
    /\ defect[t] = "none" /\ proofs[t] = t
    /\ Return(t, "ok") /\ CacheResult(t, "ok")
    /\ UNCHANGED unanswered
    /\ FutureUnchanged

Refuted(t) ==
    /\ Resumes(t, "proof")
    /\ defect[t] # "none" \/ proofs[t] # t
    /\ Return(t, "failed") /\ CacheResult(t, "failed")
    /\ UNCHANGED unanswered
    /\ FutureUnchanged

\* The archive node does not answer: that is cached as a failure too.
NoAnswer(t) ==
    /\ Resumes(t, "proof")
    /\ Return(t, "failed") /\ CacheResult(t, "failed")
    /\ unanswered' = unanswered \cup {t}
    /\ FutureUnchanged

\* Wrong: the page is not over while a publication of it is not proved.
EndBatchOfProved ==
    /\ pc = "check"
    /\ \A t \in batch : outcome[t] = "ok"
    /\ pc' = "fetch"
    /\ batch' = {}
    /\ UNCHANGED <<defect, submitted, endCursor, proofs, fetched, stage, txCache,
                   sigCache, history>>

\* join_all returns; main does not look at the results.
EndBatch ==
    /\ pc = "check"
    /\ \A t \in batch : stage[t] \in {"idle", "done"}
    /\ pc' = "fetch"
    /\ batch' = {}
    /\ UNCHANGED <<defect, submitted, endCursor, proofs, fetched, stage, txCache,
                   sigCache, history>>

-------------------------------------------------------------------------------

FutureStep(t) ==
    \/ FirstPoll(t) \/ FirstPollPanics(t)
    \/ PointerProved(t) \/ PointerFails(t) \/ PointerUnread(t)
    \/ Proved(t) \/ Refuted(t) \/ NoAnswer(t)

Next ==
    \/ Submit
    \/ \E resync \in BOOLEAN : Start(resync)
    \/ FetchPage
    \/ BulkLoaded \/ PointersLoaded \/ BulkFails \/ BulkPanics
    \/ \E t \in batch : FutureStep(t)
    \/ EndBatch

Spec == Init /\ [][Next]_vars

\* Requests end in an answer or an error, and the process goes on with it.
Fairness ==
    /\ WF_vars(FetchPage)
    /\ WF_vars(BulkLoaded \/ PointersLoaded \/ BulkFails \/ BulkPanics)
    /\ \A t \in Transactions : WF_vars(t \in batch /\ FutureStep(t))
    /\ WF_vars(EndBatch)

FairSpec == Spec /\ Fairness

-------------------------------------------------------------------------------
(* Properties *)

\* The cursor moves before the page is checked (main.rs:200), yet while the
\* process runs nothing behind it is without a result but the page at hand.
CursorBehindChecks ==
    pc # "down" =>
        \A t \in Transactions :
            bootCursor < t /\ t <= endCursor => outcome[t] # "none" \/ t \in batch

\* Neither the order of the answers nor what is missing from them makes the
\* verifier accept a publication that has, or whose pointer has, a defect.
AcceptedIsSound ==
    \A t \in Transactions : outcome[t] = "ok" =>
        defect[t] = "none" /\ (Pointer[t] # 0 => defect[Pointer[t]] = "none")

\* A publication fails its own check only for a defect, or because Bundlr or the
\* archive node kept something back, never because it was given the timestamp
\* proofs of another one (api.rs:597-609); and it is refused for its signature only
\* when another publication with it was checked, not for its own (proof.rs:568).
RejectionIsFounded ==
    \A t \in Transactions :
        /\ outcome[t] = "failed" => defect[t] # "none" \/ t \in unanswered \/ proofs[t] = 0
        /\ outcome[t] = "sigUsed" => \E u \in Transactions \ {t} :
               Signature[u] = Signature[t] /\ outcome[u] \in {"ok", "failed"}

\* The futures of a page look a signature up before any of them caches it
\* (proof.rs:568-577); but one that was used on an earlier page is never accepted
\* again.
SignatureAcceptedOncePerPage ==
    [][\A t \in batch : outcome'[t] = "ok" /\ outcome[t] # "ok" =>
          \A u \in Transactions \ batch : Signature[u] = Signature[t] => outcome[u] # "ok"]_vars

\* A transaction that is submitted while the process runs gets its result, unless
\* the process stops first.
EveryTransactionChecked ==
    \A t \in Transactions :
        (pc # "down" /\ bootCursor < t /\ t <= submitted)
            ~> (pc = "down" \/ outcome[t] # "none")

===============================================================================
