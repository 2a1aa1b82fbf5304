----------------------------- MODULE VerifierNode -----------------------------
(***************************************************************************)
(* startDAVerifierNode: the watcher that pages through the momoka          *)
(* transactions and checks them batch after batch, the retry queue that    *)
(* runs next to it, and the database both write to.  The process can stop  *)
(* at any point and be started again: what is in the database stays, the   *)
(* rest is lost.                                                           *)
(*                                                                         *)
(* Transactions are numbered in the order Bundlr lists them.  A cursor is  *)
(* the number of the last transaction seen, 0 stands for null.             *)
(***************************************************************************)
EXTENDS ProofsBatch, Sequences

CONSTANTS
    N,              \* bound: how many transactions are ever submitted
    PageSize,       \* transactions in a page of Bundlr's answer
    MaxPulling,     \* pages fetched for one batch
    ResyncModes,    \* values of the option resync the node is started with
    MaxCrashes      \* bound: how often the process stops

ASSUME NumberAssumption ==
    /\ N \in Nat /\ Transactions = 1 .. N
    /\ PageSize \in Nat \ {0}
    /\ MaxPulling \in Nat \ {0}
    /\ MaxCrashes \in Nat
    /\ ResyncModes \subseteq BOOLEAN

VARIABLES
    submitted,      \* transactions Bundlr lists so far
    pc,             \* where the watcher's loop is
    endCursor,      \* the watcher's variable of that name
    totalChecked,   \* likewise
    page,           \* the batch being fetched or checked
    saves,          \* puts of the cursor and the count still to be made
    delayed,        \* batches sleeping in enqueueWithDelay
    queue,          \* retryCheckDAProofsQueue
    retryPc,        \* where the loop of the retry queue is
    retryTxs        \* the batch that loop works on

bundlr == <<submitted, eventless>>
watcher == <<pc, endCursor, totalChecked, page, saves>>
retry == <<delayed, queue, retryPc, retryTxs>>

\* History of the run, read by no action.
VARIABLES
    fate,           \* what became of each transaction
    bootCursor,     \* endCursor when the process was last started
    retried,        \* transactions retried since then
    abandoned,      \* transactions since then whose check had begun in a batch that threw
    crashes         \* how often the process stopped

history == <<fate, bootCursor, retried, abandoned, crashes>>

vars == <<store, writes, passes, bundlr, watcher, retry, history>>

\* "dropped" by the bulk request of the watcher, "skipped" by a start without
\* resync, "givenUp" when the bulk request of the retry dropped it.
Fate == {"waiting", "processed", "dropped", "skipped", "givenUp"}

TypeOK ==
    /\ record \in [Transactions -> Verdict \cup {NotChecked}]
    /\ usedSignatures \subseteq Signatures
    /\ savedCursor \in 0 .. N
    /\ savedTotal \in Nat
    /\ writes \subseteq Write
    /\ check \in [Pass -> [Transactions -> Stage]]
    /\ threw \subseteq Strays
    /\ eventless \subseteq MayLackEvent
    /\ submitted \in 0 .. N
    /\ pc \in {"down", "fetch", "bulk", "check", "save"}
    /\ endCursor \in 0 .. N
    /\ totalChecked \in Nat
    /\ page \in [next : 0 .. N, pulls : Nat]
    /\ saves \subseteq {"cursor", "total"}
    /\ delayed \subseteq SUBSET Transactions
    /\ queue \in Seq(SUBSET Transactions)
    /\ retryPc \in {"idle", "bulk", "check"}
    /\ retryTxs \subseteq Transactions
    /\ fate \in [Transactions -> Fate]
    /\ bootCursor \in 0 .. N
    /\ retried \subseteq Transactions
    /\ abandoned \subseteq Transactions
    /\ crashes \in 0 .. MaxCrashes

Init ==
    /\ BatchInit
    /\ submitted = 0
    /\ pc = "down"
    /\ endCursor = 0
    /\ totalChecked = 0
    /\ page = [next |-> 0, pulls |-> 0]
    /\ saves = {}
    /\ delayed = {}
    /\ queue = <<>>
    /\ retryPc = "idle"
    /\ retryTxs = {}
    /\ fate = [t \in Transactions |-> "waiting"]
    /\ bootCursor = 0
    /\ retried = {}
    /\ abandoned = {}
    /\ crashes = 0

Mark(txs, f) == fate' = [t \in Transactions |-> IF t \in txs THEN f ELSE fate[t]]

-------------------------------------------------------------------------------
(* The world and the process *)

Submit ==
    /\ submitted < N
    /\ submitted' = submitted + 1
    /\ UNCHANGED <<store, writes, passes, eventless, watcher, retry, history>>

\* Wrong: a resync goes on one transaction after the saved cursor.
BootAfterCursor(resync) ==
    /\ pc = "down"
    /\ pc' = "fetch"
    /\ endCursor' = IF resync THEN savedCursor + 1 ELSE submitted
    /\ totalChecked' = savedTotal
    /\ page' = [next |-> endCursor', pulls |-> 0]
    /\ bootCursor' = endCursor'
    /\ retried' = {}
    /\ UNCHANGED <<store, writes, passes, bundlr, saves, retry, abandoned, crashes, fate>>

\* startDAVerifierNode before its loop.  With resync it goes on from the saved
\* cursor; without, it asks Bundlr for the newest transaction and starts there.
Boot(resync) ==
    /\ pc = "down"
    /\ pc' = "fetch"
    /\ endCursor' = IF resync THEN savedCursor ELSE submitted
    /\ totalChecked' = IF resync \/ submitted = 0 THEN savedTotal ELSE 0
    /\ page' = [next |-> endCursor', pulls |-> 0]
    /\ bootCursor' = endCursor'
    /\ retried' = {}
    /\ Mark({t \in 1 .. endCursor' : fate[t] = "waiting"}, "skipped")
    /\ UNCHANGED <<store, writes, passes, bundlr, saves, retry, abandoned, crashes>>

\* The process is stopped, or an exception nobody catches stops it.
Crash ==
    /\ pc # "down"
    /\ crashes < MaxCrashes
    /\ crashes' = crashes + 1
    /\ pc' = "down"
    /\ endCursor' = 0
    /\ totalChecked' = 0
    /\ page' = [next |-> 0, pulls |-> 0]
    /\ saves' = {}
    /\ writes' = {}
    /\ check' = [p \in Pass |-> NoBatch]
    /\ delayed' = {}
    /\ queue' = <<>>
    /\ retryPc' = "idle"
    /\ retryTxs' = {}
    /\ abandoned' = {}
    /\ UNCHANGED <<store, threw, bundlr, fate, bootCursor, retried>>

-------------------------------------------------------------------------------
(* getBulkDataAvailabilityTransactions: page after page from endCursor on *)

Batch == (endCursor + 1) .. page.next

\* Wrong: the fetch goes on from the cursor of the page it had come to.
RestartFromPage == page' = [next |-> page.next, pulls |-> 0] /\ pc' = "fetch"

\* The transactions are fetched again from endCursor.
Restart == page' = [next |-> endCursor, pulls |-> 0] /\ pc' = "fetch"

FetchPage ==
    /\ pc = "fetch"
    /\ page.next < submitted
    /\ LET last == IF page.next + PageSize < submitted
                   THEN page.next + PageSize ELSE submitted
       IN  page' = [next |-> last, pulls |-> page.pulls + 1]
    /\ pc' = IF page.pulls + 1 < MaxPulling THEN "fetch" ELSE "bulk"
    /\ UNCHANGED <<store, writes, passes, bundlr, endCursor, totalChecked, saves,
                   retry, history>>

\* An empty page ends the paging; a batch without transactions makes the loop
\* sleep and start over.
FetchNothing ==
    /\ pc = "fetch"
    /\ page.next = submitted
    /\ pc' = IF page.pulls = 0 THEN "fetch" ELSE "bulk"
    /\ UNCHANGED <<store, writes, passes, bundlr, endCursor, totalChecked, page,
                   saves, retry, history>>

\* A request fails: the catch of the loop sleeps, and the iteration starts over.
FetchFails ==
    /\ pc = "fetch"
    /\ Restart
    /\ UNCHANGED <<store, writes, passes, bundlr, endCursor, totalChecked, saves,
                   retry, history>>

-------------------------------------------------------------------------------
(* processTransactions *)

\* (When the names of Strays are used up, only loads are looked at that drop the
\* publications without event.)
BulkLoaded ==
    /\ pc = "bulk"
    /\ \E lost \in Dropped(Batch) :
        /\ threw = Strays => Batch \cap eventless \subseteq lost
        /\ StartBatch("main", Batch \ lost)
        /\ Mark(lost, "dropped")
    /\ pc' = "check"
    /\ UNCHANGED <<store, writes, bundlr, endCursor, totalChecked, page, saves,
                   retry, bootCursor, retried, abandoned, crashes>>

\* The catch of the loop sleeps, and the iteration starts over.
BulkFails ==
    /\ pc = "bulk"
    /\ Restart
    /\ UNCHANGED <<store, writes, passes, bundlr, endCursor, totalChecked, saves,
                   retry, history>>

MainCheck ==
    /\ pc = "check"
    /\ \E t \in Batch :
        /\ CheckStep("main", t)
        /\ check'["main"][t] # "absent"
        /\ IF check'["main"][t] \in Verdict THEN Mark({t}, "processed")
                                            ELSE UNCHANGED fate
    /\ UNCHANGED <<bundlr, watcher, retry, bootCursor, retried, abandoned, crashes>>

\* The checks of the batch that were started, over or not.
Begun == {t \in Transactions : check["main"][t] \notin {"absent", "queued"}}

\* Wrong: the loop goes on behind the batch that threw, with what was queued in it.
LogThrowsAndGoesOn ==
    /\ pc = "check"
    /\ \E t \in Batch :
        /\ CheckStep("main", t)
        /\ check'["main"][t] = "absent"
        /\ Mark({t}, "processed")
    /\ endCursor' = page.next
    /\ page' = [page EXCEPT !.pulls = 0]
    /\ pc' = "fetch"
    /\ abandoned' = abandoned \cup Begun
    /\ UNCHANGED <<bundlr, totalChecked, saves, retry, bootCursor, retried, crashes>>

\* checkDAProofsBatch throws while it logs the result of t: the catch of the loop
\* sleeps for 100 ms and the iteration starts over from endCursor.
LogThrows ==
    /\ pc = "check"
    /\ \E t \in Batch :
        /\ CheckStep("main", t)
        /\ check'["main"][t] = "absent"
        /\ Mark({t}, "processed")
    /\ Restart
    /\ abandoned' = abandoned \cup Begun
    /\ UNCHANGED <<bundlr, endCursor, totalChecked, saves, retry, bootCursor, retried,
                   crashes>>

\* A check of a batch that threw goes on.
StrayCheck ==
    /\ \E g \in Strays, t \in Transactions :
        /\ CheckStep(g, t)
        /\ IF check'[g][t] = "absent" THEN Mark({t}, "processed") ELSE UNCHANGED fate
    /\ UNCHANGED <<bundlr, watcher, retry, bootCursor, retried, abandoned, crashes>>

\* Every check returned.  Those that may succeed later are queued for a retry
\* and not counted; the cursor moves behind the batch either way.
ProcessTransactions ==
    /\ pc = "check"
    /\ BatchDone("main")
    /\ delayed' = IF ToRetry("main") = {} THEN delayed
                                          ELSE delayed \cup {ToRetry("main")}
    /\ totalChecked' = totalChecked + Cardinality(Members("main") \ ToRetry("main"))
    /\ endCursor' = page.next
    /\ saves' = {"cursor", "total"}
    /\ pc' = "save"
    /\ EndBatch("main")
    /\ UNCHANGED <<store, writes, bundlr, page, queue, retryPc, retryTxs, history>>

\* One of the two puts of Promise.all succeeds, or one fails.  In that case the
\* loop goes on from the catch with the cursor it has in memory; the other put
\* lands or not while it sleeps.
SaveCursorOrCount ==
    /\ pc = "save"
    /\ \E s \in saves :
        /\ SaveProgress({s}, endCursor, totalChecked)
        /\ saves' = saves \ {s}
    /\ IF saves' = {} THEN Restart ELSE UNCHANGED <<pc, page>>
    /\ UNCHANGED <<passes, bundlr, endCursor, totalChecked, retry, history>>

SaveFails ==
    /\ pc = "save"
    /\ \E failed \in saves : \E landed \in SUBSET (saves \ {failed}) :
        SaveProgress(landed, endCursor, totalChecked)
    /\ saves' = {}
    /\ Restart
    /\ UNCHANGED <<passes, bundlr, endCursor, totalChecked, retry, history>>

SaveTxWrites ==
    /\ \E w \in writes : WriteStep(w)
    /\ UNCHANGED <<bundlr, watcher, retry, history>>

-------------------------------------------------------------------------------
(* processRetryCheckDAProofsQueue *)

Astray(t) == \E g \in Strays : t \in InFlight(g)

\* The sleep of enqueueWithDelay ends.  It lasts 30 seconds, many times longer
\* than a check, which has five, and any put: the strays among these transactions
\* and their saves are over by then.
RetryDelayOver ==
    /\ \E b \in delayed :
        /\ \A t \in b : ~Pending(t) /\ ~Astray(t)
        /\ delayed' = delayed \ {b}
        /\ queue' = Append(queue, b)
    /\ UNCHANGED <<store, writes, passes, bundlr, watcher, retryPc, retryTxs, history>>

RetryDequeue ==
    /\ retryPc = "idle"
    /\ queue # <<>>
    /\ retryTxs' = Head(queue)
    /\ queue' = Tail(queue)
    /\ retryPc' = "bulk"
    /\ UNCHANGED <<store, writes, passes, bundlr, watcher, delayed, history>>

RetryBulkLoaded ==
    /\ retryPc = "bulk"
    /\ \E lost \in Dropped(retryTxs) :
        /\ StartBatch("retry", retryTxs \ lost)
        /\ Mark(lost, "givenUp")
    /\ retryPc' = "check"
    /\ UNCHANGED <<store, writes, bundlr, watcher, delayed, queue, retryTxs,
                   bootCursor, retried, abandoned, crashes>>

\* Wrong: a batch whose bulk request failed is not queued again.
RetryBulkFailsForGood ==
    /\ retryPc = "bulk"
    /\ retryTxs' = {}
    /\ retryPc' = "idle"
    /\ UNCHANGED <<store, writes, passes, bundlr, watcher, delayed, queue, history>>

\* checkDAProofsBatch throws: the whole batch is queued again.
RetryBulkFails ==
    /\ retryPc = "bulk"
    /\ delayed' = delayed \cup {retryTxs}
    /\ retryTxs' = {}
    /\ retryPc' = "idle"
    /\ UNCHANGED <<store, writes, passes, bundlr, watcher, queue, history>>

RetryCheck ==
    /\ retryPc = "check"
    /\ \E t \in retryTxs : CheckStep("retry", t)
    /\ UNCHANGED <<bundlr, watcher, retry, history>>

\* The results of the retried batch are not looked at.
RetryDone ==
    /\ retryPc = "check"
    /\ BatchDone("retry")
    /\ retried' = retried \cup Members("retry")
    /\ retryTxs' = {}
    /\ retryPc' = "idle"
    /\ EndBatch("retry")
    /\ UNCHANGED <<store, writes, bundlr, watcher, delayed, queue, fate,
                   bootCursor, abandoned, crashes>>

-------------------------------------------------------------------------------

Next ==
    \/ Submit
    \/ \E resync \in ResyncModes : Boot(resync)
    \/ Crash
    \/ FetchPage \/ FetchNothing \/ FetchFails
    \/ BulkLoaded \/ BulkFails \/ MainCheck \/ LogThrows \/ StrayCheck
    \/ ProcessTransactions
    \/ SaveCursorOrCount \/ SaveFails \/ SaveTxWrites
    \/ RetryDelayOver \/ RetryDequeue \/ RetryBulkLoaded \/ RetryBulkFails
    \/ RetryCheck \/ RetryDone

Spec == Init /\ [][Next]_vars

\* Requests to Bundlr fail again and again but not for ever, whichever page
\* they ask for; everything else the process has to do it does in the end; a
\* node that stopped is started again.
Fairness ==
    /\ WF_vars(\E resync \in ResyncModes : Boot(resync))
    /\ \A k \in 0 .. MaxPulling - 1 : SF_vars(FetchPage /\ page.pulls = k)
    /\ SF_vars(FetchNothing) /\ SF_vars(BulkLoaded) /\ SF_vars(RetryBulkLoaded)
    /\ WF_vars(MainCheck) /\ WF_vars(LogThrows) /\ WF_vars(StrayCheck)
    /\ WF_vars(ProcessTransactions)
    /\ WF_vars(SaveCursorOrCount) /\ WF_vars(SaveTxWrites)
    /\ WF_vars(RetryDelayOver) /\ WF_vars(RetryDequeue)
    /\ WF_vars(RetryCheck) /\ WF_vars(RetryDone)

FairSpec == Spec /\ Fairness

-------------------------------------------------------------------------------
(* Properties *)

\* The cursor never runs ahead of the checks: a transaction at or before the
\* cursor that is saved, or that the watcher holds, was processed, or was
\* dropped by a bulk request, or lies before the point a start without resync
\* chose.  Saving the cursor after a batch (verifier.watcher.ts:253-256) is what
\* makes a restart with resync go over nothing twice and past nothing.
CursorBehindChecks ==
    \A t \in Transactions :
        t <= savedCursor \/ (pc # "down" /\ t <= endCursor) => fate[t] # "waiting"

\* As long as the process runs, every processed transaction has its record or a
\* call of saveTxDb that is about to write it, although nothing waits for that
\* call (check-da-proofs-batch.ts:196 and :211).
OnlyACrashLosesVerdicts ==
    \A t \in Transactions :
        fate[t] = "processed" /\ crashes = 0 => record[t] # NotChecked \/ Pending(t)

\* A record that holds a publication stands only next to the used signature, and
\* a crash between the two puts of saveTxDb (db.ts:92-95) does not change that:
\* a later publication with that signature finds it used.
RecordImpliesSignature ==
    \A t \in Transactions :
        record[t] # NotChecked /\ HasPublication(record[t])
            => HasSignatureBeenUsedBefore(t)

\* Only a publication whose chain signature some other transaction carries, one
\* with a verdict of its own, is rejected for it: not for the signature its own
\* check saved.  Two things break that: a crash between the two puts of saveTxDb,
\* and a batch that threw while the publication was checked, for then it is checked
\* again beside its own stray (da-proof-checker.ts:98-107, db.ts:91-95,
\* verifier.watcher.ts:258-262).
RejectedForAnother ==
    \A t \in Transactions \ abandoned :
        record[t] = "sigUsed" /\ crashes = 0 =>
            \E u \in Transactions \ {t} :
                Signature[u] = Signature[t] /\ (record[u] # NotChecked \/ Pending(u))

InRetry == {t \in Transactions :
    \/ t \in retryTxs
    \/ \E b \in delayed : t \in b
    \/ \E i \in 1 .. Len(queue) : t \in queue[i]}

\* No failure that may be due to the network is forgotten before it was given
\* its second chance: since the process was started, a transaction with such a
\* record is waiting for its retry, or had it, as long as the node runs
\* (verifier.watcher.ts:155-168 and the retry queue).  The exception is a
\* transaction of a batch that threw: its stray saves behind the watcher's back.
RetriableIsRetried ==
    \A t \in Transactions \ abandoned :
        /\ pc # "down" /\ bootCursor < t /\ t <= endCursor
        /\ fate[t] = "processed" /\ ShouldRetry(record[t])
        => t \in InRetry \cup retried

\* The verdicts of the node are those of a log that keeps its promise; the
\* transactions it may check twice at once are those of batches that threw.  (Of
\* the stream callback it is assumed that it does not throw.)
Log == INSTANCE VerdictLog WITH verdict <- record, twice <- abandoned
ImplementsVerdictLog == Log!Spec

\* Every submitted transaction is dealt with in the end, however often requests
\* fail and even when the process stops and is started again.  (A publication
\* without event holds up the batch it is in until a bulk request drops it.)
EveryTransactionHandled ==
    \A t \in Transactions : (t <= submitted /\ eventless = {}) ~> (fate[t] # "waiting")

\* A network failure is followed by a retry, unless a bulk request drops the
\* transaction, the process stops, or the check was in a batch that threw.
RetryHappens ==
    \A t \in Transactions :
        (/\ pc # "down" /\ bootCursor < t /\ fate[t] = "processed"
         /\ ShouldRetry(record[t]) /\ t \notin abandoned)
            ~> \/ t \in retried \cup abandoned
               \/ fate[t] \in {"givenUp", "dropped"}
               \/ pc = "down"

\* momoka-node/README.md:330-332, "8. Check if chain signature has already been
\* used": no two publications with one chain signature are both accepted.
SignatureAcceptedOnce ==
    \A t, u \in Transactions :
        t # u /\ Signature[t] = Signature[u] => ~(record[t] = "ok" /\ record[u] = "ok")

-------------------------------------------------------------------------------
(* What makes the safety properties inductive *)

\* The pieces of the watcher's state that go together.
WatcherInv ==
    /\ pc = "down" => writes = {} /\ delayed = {} /\ queue = <<>> /\ retryPc = "idle"
    /\ pc = "down" => \A g \in Strays : Members(g) = {}
    /\ pc # "down" => endCursor <= page.next
    /\ pc = "save" => page.next = endCursor
    /\ Members("main") # {} => pc = "check"
    /\ Members("main") \subseteq Batch
    /\ Members("retry") \subseteq retryTxs
    /\ retryPc = "idle" => retryTxs = {}
    /\ retryPc # "check" => Members("retry") = {}

\* A publication of the batch under way is handled once its check is over.
FateInv ==
    pc = "check" =>
        \A t \in Batch :
            check["main"][t] = "absent" \/ check["main"][t] \in Verdict
                => fate[t] # "waiting"

\* A call of saveTxDb past its first put has recorded its signature.
SignatureFirst ==
    \A w \in writes :
        w.next = "record" /\ HasPublication(w.verdict) => HasSignatureBeenUsedBefore(w.tx)

\* Strays are checks of batches that threw.  A publication without event ends its
\* batch, so it never comes to the retry queue.
StrayInv ==
    /\ \A g \in Strays : Members(g) \subseteq abandoned
    /\ \A g \in Strays \ threw : Members(g) = {}
    /\ \A t \in eventless : check["main"][t] \notin Verdict
    /\ InRetry \cap eventless = {}

\* The transactions that are checked by one batch at a time.
Sole == Transactions \ abandoned

\* Only checked transactions are saved or retried, each in one place at a time.
Checked(t) == t <= endCursor \/ check["main"][t] \in Verdict

PlaceInv ==
    /\ \A w \in writes : w.tx \in Sole => Checked(w.tx)
    /\ \A v, w \in writes : v.tx = w.tx /\ v.tx \in Sole => v = w
    /\ \A t \in InRetry : t <= endCursor
    /\ \A b, c \in delayed : b = c \/ b \cap c = {}
    /\ \A b \in delayed : b \cap retryTxs = {}
    /\ \A b \in delayed \cup {retryTxs} : \A i \in 1 .. Len(queue) : b \cap queue[i] = {}
    /\ \A i, j \in 1 .. Len(queue) : i # j => queue[i] \cap queue[j] = {}

\* The verdict of t is, or is about to become, one that is retried.
Doubtful(t) ==
    \/ ShouldRetry(record[t]) /\ ~Pending(t)
    \/ \E w \in writes : w.tx = t /\ ShouldRetry(w.verdict)

\* The verdict of t is final until its retry, and a retriable one.
Due(t) == ShouldRetry(record[t]) /\ ~Pending(t)

MainVerdicts ==
    \A t \in Sole :
        /\ check["main"][t] \in {"signature", "checking"} => record[t] = NotChecked
        /\ check["main"][t] \in Verdict /\ ShouldRetry(check["main"][t]) => Doubtful(t)

RetryVerdicts ==
    /\ \A t \in Transactions : check["retry"][t] \notin {"cache", "signature"}
    /\ \A b \in delayed : \A t \in b \cap Sole : Doubtful(t)
    /\ \A i \in 1 .. Len(queue) : \A t \in queue[i] \cap Sole : Due(t)
    /\ \A t \in retryTxs \cap Sole : check["retry"][t] \notin Verdict => Due(t)

\* What a write may still do to a record.
WriteVerdicts ==
    \A w \in writes :
        \/ w.tx \in abandoned
        \/ record[w.tx] \in {NotChecked, w.verdict}
        \/ w.verdict = "unknown"
        \/ ShouldRetry(record[w.tx]) /\ w.verdict # "sigUsed"

VerdictInv == MainVerdicts /\ RetryVerdicts /\ WriteVerdicts

\* The inductive invariant.  The last two parts need a stream callback that
\* does not throw.
IInv ==
    /\ TypeOK /\ WatcherInv /\ FateInv /\ CursorBehindChecks
    /\ SignatureFirst /\ RecordImpliesSignature /\ StrayInv
    /\ ~StreamMayThrow => PlaceInv /\ VerdictInv

===============================================================================
