----------------------------- MODULE ProofsBatch -----------------------------
(***************************************************************************)
(* checkDAProofsBatch: the publications of a batch are checked by at most  *)
(* Concurrency concurrent calls of processPublication, each of which races *)
(* its check against a timeout of five seconds.  Two batches can be under  *)
(* way at a time, the watcher's ("main") and the retry queue's ("retry").  *)
(* A retry is run with byPassDb: it looks up neither the record nor the    *)
(* signature.                                                              *)
(*                                                                         *)
(* The log line of a publication without an event throws, and with it the  *)
(* whole batch.  The checks then under way go on, as a batch of strays     *)
(* that nothing waits for: what they save is saved, what they return is    *)
(* lost.                                                                   *)
(***************************************************************************)
EXTENDS ProofDb

CONSTANTS
    Concurrency,     \* the concurrency given to Bluebird's map
    BulkMayDrop,     \* Bundlr may list ids of a bulk request under "failed"
    StreamMayThrow,  \* the embedder's stream callback may throw
    MayLackEvent,    \* the publications that may have been submitted without event
    Strays           \* bound: as many batches throw, their strays go by these names

ASSUME ConcurrencyAssumption == Concurrency \in Nat \ {0}
ASSUME BatchAssumption ==
    /\ BulkMayDrop \in BOOLEAN /\ StreamMayThrow \in BOOLEAN
    /\ MayLackEvent \subseteq Transactions
    /\ {"main", "retry"} \cap Strays = {}

Pass == {"main", "retry"} \cup Strays

\* Where a publication is in a pass; a verdict is the ProofResult it ended with.
\*   absent     not in the pass           cache      getTxDb is awaited
\*   queued     in the batch, not started signature  hasSignatureBeenUsedBefore is
\*   checking   the check itself is awaited          awaited
Running == {"cache", "signature", "checking"}
Stage == {"absent", "queued"} \cup Running \cup Verdict

VARIABLES
    check,           \* the stage of each publication in each pass
    threw,           \* the members of Strays that batches which threw have taken
    eventless        \* the publications submitted without an event

passes == <<check, threw>>

Members(p) == {t \in Transactions : check[p][t] # "absent"}
InFlight(p) == {t \in Transactions : check[p][t] \in Running}
BatchDone(p) == \A t \in Members(p) : check[p][t] \in Verdict

\* Wrong: a check that timed out is not retried / a rejection is retried.
ToRetryWithoutTimeouts(p) == {t \in Members(p) : check[p][t] = "nodeError"}
ToRetryRejections(p) == {t \in Members(p) : check[p][t] # "ok"}

\* shouldRetry, asked of the results of a batch.
ToRetry(p) == {t \in Members(p) : ShouldRetry(check[p][t])}

NoBatch == [t \in Transactions |-> "absent"]

BatchInit ==
    /\ StoreInit
    /\ check = [p \in Pass |-> NoBatch]
    /\ threw = {}
    /\ eventless \in SUBSET MayLackEvent

\* The bulk requests of checkDAProofsBatch came back; what they list under
\* "failed", and the publications left without a timestamp proof, are dropped.
Dropped(txs) == IF BulkMayDrop THEN SUBSET txs ELSE {{}}

StartBatch(p, txs) ==
    /\ check' = [check EXCEPT
        ![p] = [t \in Transactions |-> IF t \in txs THEN "queued" ELSE "absent"]]
    /\ UNCHANGED threw

EndBatch(p) == check' = [check EXCEPT ![p] = NoBatch] /\ UNCHANGED threw

Move(p, t, stage) == check' = [check EXCEPT ![p][t] = stage] /\ UNCHANGED threw

\* Wrong: a retry is compared with the signatures already used, its own included.
StartCheckOfRetryWithSignature(p, t) ==
    /\ check[p][t] = "queued"
    /\ Cardinality(InFlight(p)) < Concurrency
    /\ Move(p, t, IF p = "retry" THEN "signature" ELSE "cache")
    /\ UNCHANGED <<store, writes>>

\* Bluebird's map calls the mapper on the next publication.
StartCheck(p, t) ==
    /\ check[p][t] = "queued"
    /\ Cardinality(InFlight(p)) < Concurrency
    /\ Move(p, t, IF p = "retry" THEN "checking" ELSE "cache")
    /\ UNCHANGED <<store, writes>>

\* The log line of t throws in the watcher's batch: Bluebird's map rejects and
\* starts no other check; those under way go on as the strays g.
Abandon(t, g) ==
    /\ check' = [check EXCEPT
        !["main"] = NoBatch,
        ![g] = [u \in Transactions |->
            IF u # t /\ check["main"][u] \in Running THEN check["main"][u] ELSE "absent"]]
    /\ threw' = threw \cup {g}

\* processPublication returned v.  The result of a stray goes nowhere; in a batch
\* the log line is next.  (The retry queue never holds a publication without
\* event: the batch it came from would not have ended.)
EndCheck(p, t, v) ==
    \/ p \in Strays /\ Move(p, t, "absent")
    \/ p = "main" /\ t \in eventless /\ \E g \in Strays \ threw : Abandon(t, g)
    \/ p \notin Strays /\ ~(p = "main" /\ t \in eventless) /\ Move(p, t, v)

\* The check won the race: the result is saved, without waiting for the save,
\* and streamed.  If the callback throws, the catch saves UNKNOWN as well and
\* UNKNOWN is what the batch gets.
Report(p, t, v) ==
    \/ /\ writes' = writes \cup {SaveTx(t, v)}
       /\ EndCheck(p, t, v)
    \/ /\ StreamMayThrow
       /\ writes' = writes \cup {SaveTx(t, v), SaveTx(t, "unknown")}
       /\ EndCheck(p, t, "unknown")

\* txAlreadyChecked: a transaction with a record is not checked again.
ReadCache(p, t) ==
    /\ check[p][t] = "cache"
    /\ \/ /\ record[t] = NotChecked
          /\ Move(p, t, "signature")
          /\ UNCHANGED writes
       \/ /\ record[t] # NotChecked
          /\ Report(p, t, record[t])
    /\ UNCHANGED store

ReadSignature(p, t) ==
    /\ check[p][t] = "signature"
    /\ \/ /\ ~HasSignatureBeenUsedBefore(t)
          /\ Move(p, t, "checking")
          /\ UNCHANGED writes
       \/ /\ HasSignatureBeenUsedBefore(t)
          /\ Report(p, t, "sigUsed")
    /\ UNCHANGED store

\* The submitter test and _checkDAProof come to an end.  A publication without
\* event is never proved.
FinishCheck(p, t) ==
    /\ check[p][t] = "checking"
    /\ \E v \in {"ok", "rejected", "nodeError"} :
        /\ v = "ok" => t \notin eventless
        /\ Report(p, t, v)
    /\ UNCHANGED store

\* Wrong: the catch of processPublication saves nothing.
TimeOutUnsaved(p, t) ==
    /\ check[p][t] \in Running
    /\ EndCheck(p, t, "unknown")
    /\ UNCHANGED <<store, writes>>

\* The timeout wins the race, or the check throws: UNKNOWN is saved and nothing
\* is streamed.  What the check goes on doing has no effect any more.
TimeOut(p, t) ==
    /\ check[p][t] \in Running
    /\ writes' = writes \cup {SaveTx(t, "unknown")}
    /\ EndCheck(p, t, "unknown")
    /\ UNCHANGED store

CheckStep(p, t) ==
    \/ StartCheck(p, t)
    \/ ReadCache(p, t)
    \/ ReadSignature(p, t)
    \/ FinishCheck(p, t)
    \/ TimeOut(p, t)

WriteStep(w) == (PutSignature(w) \/ PutRecord(w)) /\ UNCHANGED passes

==============================================================================
