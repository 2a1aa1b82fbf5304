# Momoka verifier: TLA+ models, checks and proofs

Momoka stores Lens publications (posts, comments, mirrors, quotes) on Arweave
through Bundlr instead of on Polygon.  A *verifier node* follows the momoka
transactions Bundlr lists, checks each against its proofs and the state of
Polygon at the block the publication names, and keeps the verdicts in a LevelDB.
This directory models the TypeScript node (`momoka-node/`) and the verifier in
Rust (`momoka-rs/`), checks the models with TLC on small instances and proves
theorems about them with TLAPS.

Paths below are relative to `momoka-node/src/` unless they say otherwise; those
that end in `.rs` are relative to `momoka-rs/src/`.
`PROJECT.json` maps every definition to the lines it models.

## 1. Inventory

### Components

| Component | Source | State | Operations | Modelled in |
|---|---|---|---|---|
| Verifier watcher | `watchers/verifier.watcher.ts` | `endCursor`, `totalChecked` (memory), cursor and count (database) | start with or without `resync`, page through the transactions, check a batch, save cursor and count, catch and start over | `VerifierNode`, `BatchRequests` |
| Retry queue | `queue/process-retry-check-da-proofs.queue.ts`, `queue/base.queue.ts` | batches sleeping in `enqueueWithDelay`, the queue, the batch being retried (all in memory) | delayed enqueue, dequeue, check again with `byPassDb`, put back when the batch throws | `VerifierNode` |
| Batch checker | `proofs/check-da-proofs-batch.ts` | the calls of `processPublication` under way | two bulk requests, pairing by position, check at most `concurrency` publications at once, 5 s timeout, save and stream each result, log it | `ProofsBatch`, `BatchRequests` |
| Database | `input-output/db.ts` | `tx:<id>`, `tx_signature:<s>`, cursor, count; cached blocks, publications and timestamp proofs | get, put, the two puts of `saveTxDb` | `ProofDb`; the caches in `ChainChecks` and `BatchRequests` |
| Failed-proof queue | `queue/process-failed-da-proof.queue.ts`, `watchers/failed-submissons.watcher.ts` | queue in memory, files | write a file per failed proof, queue it again when that fails, count the files | `FailedProofs` |
| Proof checker | `proofs/da-proof-checker.ts` | the awaits of a check, its pointer's check inside it | `checkDAProof`, `checkDAProofWithMetadata`, the pipeline of `_checkDAProof` | `ProofChecker` (control), `Submissions`, `ChainChecks` (data) |
| Publication verifiers | `proofs/publications/**` | none | order and outcome of the tests of a post, comment, mirror, quote, V1 and V2 | `ProofChecker` (control), `PublicationVerifiers`, `ChainChecks` (data) |
| Proof arithmetic | `proofs/utils.ts`, `common/helpers.ts` | none | `getClosestBlock`, timestamp tests, `retryWithTimeout` | `ChainChecks`, `Submissions` |
| Worker pool | `workers/**`, `proofs/da-proof-verifier.ts` | idle workers, queued closures, listeners | `execute`, the two message listeners, a handler that throws | `WorkerPool` |
| EVM access | `evm/ethereum.ts`, `evm/gateway/*` | none | calls of the Lens Hub and of the archive node, with retries | `LensHub`, `Chain`, `ChainChecks`; what a call comes to also in `ProofChecker` |
| Bundlr access | `input-output/bundlr/*` | none | pages, bulk requests, transaction by id, owner | `BundlrBulk`, `ClientChecks`; what a call comes to also in `VerifierNode`, `ProofChecker` |
| Gateways | `proofs/da-proof-gateway.ts`, `client/*` | caches of blocks, publications and timestamp proofs | lookups before requests | `ChainChecks`, `BatchRequests`, `ProofChecker`, `ClientChecks` |
| Trusting indexer | `watchers/trusting-indexing.watcher.ts` | `endCursor` in memory | stream every publication unchecked | `TrustingIndexer` |
| Client library | `client/*` | none | `checkDAProof` without database and worker pool | `ClientChecks` |
| Submitters, environment | `submitters.ts`, `common/environment.ts` | none | the submitter of an environment and deployment | `Submissions` |
| Data models, contract bindings | `data-availability-models/*`, `evm/abi-types/*`, `evm/contract-lens/*` | none | fields of typed data, events and calls | `PublicationVerifiers`, `LensHub` |
| Local node, generated code | `evm/anvil.ts`, `graphql/generated.ts` | none | switched off in the source; tables | not modelled |
| Rust verifier | `main.rs`, `verifier/proof.rs`, `cache.rs` | `end_cursor`, the futures of a page, two caches (all in memory) | page through the transactions, check a page, exit or panic | `RustVerifier`, `RustChecks` |
| Rust Bundlr access | `bundlr/api.rs`, `http.rs` | none | pages, bulk requests, pairing of timestamp proofs | `RustVerifier` |
| Rust publication verifiers | `verifier/transactions/*.rs`, `contracts/lens_hub.rs` | none | the tests of a post, comment, mirror | `RustVerifier` (what they come to), `RustPublications`, `RustChecks` (data) |
| Rust types and settings | `types/*.rs`, `submitter/state.rs`, `environment.rs` | none | tables, types, conversions | `RustPublications` (fields, ids, submitters) |

### How they interact

The watcher calls the batch checker and waits for it; the retry queue calls the
same function from a loop of its own, so two batches can be under way at once.
The batch checker calls the proof checker once per publication, races it against
a timer, and calls `saveTxDb` **without await**.  The proof checker calls itself
on the pointer of a publication, and calls the worker pool for signatures and
receipts.  All of them share the database; there is one thread (besides the
workers), so a step runs from one `await` to the next and everything interleaves
at the awaits.

The Rust verifier is a program of its own that shares nothing with the node but
Bundlr and the archive node.  Its one task drives the futures of a page with
`join_all`, so they too interleave at their awaits.

### What is hard

* `saveTxDb` is two puts nobody waits for, and the signature is looked up long
  before it is put (`da-proof-checker.ts:98`, `db.ts:92`).
* The cursor is saved while records may still be on their way; the retry queue
  lives in memory only; the process can stop anywhere.
* Requests fail, answers come after the timeout, bulk requests drop entries and
  answer in any order, while publications and timestamp proofs are paired by
  position.
* One publication that cannot be read makes its whole batch fail, again and again;
  one without an event does so while the others of its batch are being checked, and
  those checks go on beside their own repetition.
* The watcher and the retry queue check batches at the same time.
* A pointer's check runs inside its publication's, with other options.
* A worker's message calls two listeners, each taking the head of one queue.
* Blocks leave the chain between two requests of one check, and stay in the cache.
* Which of some forty fields of seven kinds of events are compared with which field
  of the typed data is listed by hand, twice: in TypeScript and in Rust.
* In Rust, results are cached between the awaits of other futures, a cached error
  is unwrapped, two answers are zipped by position, and every failed bulk request
  ends the process, which has nothing on disk.

`PROJECT.json` lists the hazards line by line, with the properties aimed at each.

### What makes each component correct

* *Watcher*: the cursor never passes a transaction that was not dealt with; every
  submitted transaction is dealt with in the end.
* *Retry queue*: a failure due to the network gets its second chance, and is not
  turned down for its own signature then.
* *Batch and database*: only a stop of the process loses a verdict; a record
  comes with its signature; a settled verdict is not turned into its opposite.
* *Proof checker*: accepted means that nothing is wrong with the publication nor,
  where asked for, its pointer; a final rejection blames something that is wrong.
* *Bulk requests*: a publication is accepted only with its own timestamp proofs; a
  cache never makes a check use another's; what the cursor passes was dealt with.
* *Failed-proof queue*: a failed proof is in memory or on disk until the process
  stops, and reaches the disk; the watcher of the files counts what did fail, once.
* *Trusting indexer*: nothing is skipped, and everything is streamed in the end.
* *Publication verifiers, EVM access, gateways*: what is accepted was permitted by the
  chain at the chosen block; a reorg, a stale cache or a short outage never makes
  a right publication look wrong; every check ends.
* *Worker pool*: no idle worker while a request waits; every request is answered.
* *Rust verifier*: nothing behind the cursor is without a result while it runs; it
  accepts only what has no defect, fails nothing for another's timestamp proofs,
  and accepts a signature on one page only.

## 2. Modules

There are two layers.  `VerifierNode`, `ProofChecker` and `RustVerifier` model the
*control*: which await follows which, what is concurrent, what a stop loses; what is
wrong with a publication is a class or a set there.  `Ingest` and `Checks` model the
*data* the control decides on: which answer of Bundlr is paired with which, which
fields are compared, at which block and in which form the chain is read.

    ValidatorErrors -- ProofDb -- ProofsBatch -- VerifierNode -- MCVerifierNode
                  |                                |    |
                  +---- VerdictLog <= refines -----+    +-- VerifierNodeProofs -- NodeVerdictsProofs
    WorkerPool -- WorkerPoolProofs
            +---- RequestPool <= refines
    ProofChecker -- MCProofChecker
            +-- ProofCheckerProofs
    RustVerifier -- MCRustVerifier
            +-- RustVerifierProofs

    BundlrBulk --+-- BatchRequests --+-- Ingest -- MCIngest
                 |       |           |      +-- IngestProofs
                 |  FailedProofs     |
                 +-- TrustingIndexer +

    PublicationVerifiers --+-- Submissions --+-- Chain -- ChainChecks -- ClientChecks --+
                           +-- LensHub ------+     +-- RustPublications -- RustChecks --+-- Checks
                                                        ChecksProofs -- Checks -- MCChainChecks

**`ValidatorErrors`** reduces the errors to the classes the node tells apart:
`ok`, `rejected` (blames the publication), `sigUsed`
(`CHAIN_SIGNATURE_ALREADY_USED`), `nodeError` (a third party did not answer; the
result still holds the publication) and `unknown` (timeout or exception; it
holds none).  `ShouldRetry` and `HasPublication` are the two tests the code
makes of a result.

**`ProofDb`** holds `record`, `usedSignatures`, `savedCursor`, `savedTotal`, and
`writes`: the calls of `saveTxDb` under way, each with the put it has to make
next.  `SaveTx` starts a call, `PutSignature` and `PutRecord` are its awaits.
`SaveProgress` is what the puts of the cursor and of the count do; the count is
*added* to the stored one, as in `saveTotalCheckedCountDb`.

**`ProofsBatch`** has one stage per publication and pass (`main` for the
watcher, `retry` for the queue).  `StartCheck` is Bluebird's `map` with its
concurrency; `ReadCache` and `ReadSignature` are the awaits of
`checkDAProofWithMetadata`, left out by a retry; `FinishCheck` chooses the
outcome of the check proper, which `ProofChecker` models; `TimeOut` is the lost
race or an exception.  `Report` saves and streams; a callback that throws
(`StreamMayThrow`) ends in the catch, which saves `unknown` next to the save
already started.  The log line of a publication without an event (`eventless`) throws
when its check is over, and Bluebird's `map` with it: `Abandon` ends the watcher's batch,
the checks that are queued are never started, and those under way go on as *strays*, a
pass of their own.  They save like any other; what they return is lost (`EndCheck`).
A publication without event never comes to the retry queue, since the batch it is in
never ends.

**`VerifierNode`** adds the watcher's loop (`pc`: `down`, `fetch`, `bulk`,
`check`, `save`), the retry loop and the world: `Submit`, `Boot(resync)`,
`Crash`.  One action per await that matters: `FetchPage`, `FetchNothing`,
`FetchFails`, `BulkLoaded`, `BulkFails`, `MainCheck`, `LogThrows`, `StrayCheck`,
`ProcessTransactions`, `SaveCursorOrCount`, `SaveFails`, `SaveTxWrites`, `RetryDelayOver`,
`RetryDequeue`, `RetryBulkLoaded`, `RetryBulkFails`, `RetryCheck`, `RetryDone`.
Transactions are numbered as Bundlr lists them, so a cursor is a number.
`LogThrows` is the batch that throws: the catch waits 100 ms and starts over from
`endCursor`, while `StrayCheck` goes on with what was under way.  A stray lasts five
seconds at most, so it is over when the 30 seconds of `enqueueWithDelay` are
(`RetryDelayOver`).
`fate`, `bootCursor`, `retried`, `abandoned` (whose check was under way or over in a batch
that threw) and `crashes` are history: no guard but the bound
on `Crash` reads them.  The queue of failed proofs is in `Ingest`: nothing here
reads it.

**`VerdictLog`** is the abstract promise: per transaction a first verdict; a
retriable verdict may be replaced by any but `sigUsed`; a settled one is never
turned into its opposite, only put in doubt (`unknown`) and decided anew.  Of a
transaction that is checked twice at once it promises none of this, until the process
stops: the later save wins.  The refinement mapping is `verdict <- record,
twice <- abandoned`.

**`WorkerPool`** keeps the idle workers, the queue, and which request each worker
serves.  `Message(w)` is both listeners in the order they were added: the
constructor's runs the head of the queue first (finding no idle worker, the
closure queues itself again), then `execute`'s frees the worker and runs the head.
**`RequestPool`** is the abstract promise: a request is served at once when there is
room, and when one is answered exactly one of those that wait takes its place.
*Which* one is not promised: the closure the first listener runs goes to the tail,
so the code is not first come, first served.  The refinement mapping is
`waiting <- Queued, running <- Served`.

**`ProofChecker`** runs a check as a stack of frames, the publication's and on
top its pointer's, each at one of the stages of `checkDAProof` or
`checkDAProofWithMetadata` followed by those of `_checkDAProof`.  What is wrong
with a publication is a set of errors it *deserves*; a stage returns the first of
its errors, in the order of the code, that is among them (`Fail`).  `NoAnswer` is
a third party that does not answer, `FailOnLostBlock` a stage that fails because
the block left the chain (`Reorg`), `ReadCache` the lookup of the record (with
the key as the code has it: a pointer's still begins with `ar://`),
`SucceedPointer` the descent into the pointer, `Finish` the save.  The signature
lookup is in `ProofsBatch` and not repeated here, so a record in `ProofChecker`
is a set of one put and not two.  Recording of a timeout is likewise
`ProofsBatch`'s.

**`RustVerifier`** is the loop of `main.rs` (`pc`: `down`, `fetch`, `bulk`,
`pointers`, `check`) and the futures of `process_proofs`.  `FetchPage` moves the
cursor and takes the page; `BulkLoaded` and `PointersLoaded` are the two bulk
requests, each answered in any order and with anything missing, publications and
timestamp proofs alike; `BulkPanics` is the failed assertion on their ids,
`BulkFails` a request that ends the process.  `join_all` first polls every future
once (`FirstPoll`, up to its first await), then those whose await is over
(`Resumes`): `stage` says whether a future waits for its pointer's check or its
own.  `OwnPart` looks the signature up, `CacheResult` marks it when the check is
over.  A pointer whose failure is cached makes the first poll panic
(`FirstPollPanics`).  What is wrong with a publication is found before the first
await of `process_proof` (`early`) or after it (`late`), and `RustChecks` says what
that is; timestamp proofs that
are malformed count as a late defect of their publication.  A page that is not
empty is taken to come with a cursor.  `outcome`, `unanswered`, `bootCursor` and
`starts` are history.

**`BundlrBulk`** is Bundlr as a bulk reader sees it.  Publications are numbered in
the order Bundlr lists them, the timestamp transaction of `t` is `N + t`, and 0 is
the cursor null.  `Query` is a page: some prefix of what submitters put there after
the cursor.  `Answers(ids)` is what `getBundlrBulkTxs` may return: ids are cut into
chunks, the answers to the chunks are joined in their order, within a chunk the
order is any and any id may be missing (it is listed under `failed`, which nothing
reads).  `Defect` says what can be wrong with one publication or with its
timestamp proofs.

**`BatchRequests`** is `checkDAProofsBatch` as the watcher calls it (`pc`: `fetch`,
`publications`, `proofs`, `check`, `save`).  `PublicationsLoaded` and `ProofsLoaded`
are the two bulk requests with the caches they fill; `PairUp` pairs the answers by
position, as the code does.  A publication that is not JSON, or names no timestamp
proofs, is an exception for the batch; one without an event is one only when its
result is logged, so that the checks beside it go on without their batch
(`strays`).  `DaPublication` and `TimestampProofs` are the caches as a check by id
reads them: timestamp proofs are saved under the id of their own transaction and
looked up under that of the publication, so that lookup never hits.
`SaveCursor` puts the cursor, which fails for null.

**`FailedProofs`** is the queue of failed proofs with its delays and its files;
`FailedResults` is what the watcher of failed submissions counts among the files.
**`TrustingIndexer`** is the loop of the indexer: a page, one bulk request, the
callback for each publication, then the cursor.  **`Ingest`** is the two programs
together; they share nothing, `program` says which one runs.

**`PublicationVerifiers`** lists, for every kind and version, the fields of the typed
data and of the event, and which ones each of the seven verifiers compares
(`VerifyEventWithTypedData`).  A field holds one of four values: empty, malformed,
or one of two others.  `EventFollowsTypedData` is the specification it is compared
with.  **`Submissions`** adds what a submitter adds: signatures, the owner of the
timestamp transaction, the times, the receipt; and the tests made before the first
block is read, in their order.  **`LensHub`** is the contract as the gateways call
it: what the call of `postWithSig` is made of, from which the contract recovers the
signer, and the view functions with the positions their answers are read by.

**`Chain`** is the chain during a check: blocks 1, 2 and 3 stand for the predecessor of
the chosen block, the chosen one and its successor; each has two forms, and `Reorg(n)`
replaces the forms from `n` on.  **`ChainChecks`** is the check of the node from the
first block on: each request is looked up, asked, answered from the form that is
on the chain at that moment, or failed after `retryWithTimeout` gives up.  Blocks
are read through the cache, saved without waiting, and saved by other checks.  Post
version 1 simulates and counts at the same time, version 2 counts first.
**`ClientChecks`** puts the requests of the client library before it and leaves the
cache out.  **`RustPublications`** and **`RustChecks`** are the same of
`process_proof` in Rust, with its own lists of fields and its own order.
**`Checks`** is a check by any of the three programs and the chain it asks.  Which
publication is checked in which setting is a *scenario*, a value of a constant.

Definitions preceded by a comment that begins with "Wrong:" are not used by any
specification: each is a plausible bug of one definition, and shows, put in its
place, that the property it is listed with in `PROJECT.json` can fail.

## 3. Runs

| Run | Question | Bounds |
|---|---|---|
| `node` | safety and refinement of the whole node | 2 transactions with one signature, none, either or both without event, concurrency 2, pages of 1, up to 2 pages a batch, 1 batch that throws, 1 stop, both ways to start, bulk requests may drop |
| `node_restart` | everything handled and retried in the end | 1 transaction and 2 stops, or 2 transactions of which the second has no event, no stop and 2 saves at a time (`OneOrEventless`); 1 batch that throws, a stream callback that may throw, both ways to start |
| `pool` | work conservation, no loss, refinement, answers | 3 workers, 5 requests |
| `checker` | soundness, founded rejections, their order, progress | post, comment, mirror of the comment; every single error of the post and of the comment, two errors in one stage, in two, and in both publications; 1 reorg |
| `rust` | safety and liveness of the Rust verifier | 3 publications with one signature, the last pointing to the one before, every combination of defects, pages of 1 or 2, pointers in bulk for 2 and one by one for 1, 1 start |
| `ingest` | the bulk requests, the failed proofs and the indexer | 2 publications, at most one of which has any one of 6 defects, requests of 1 id, pages of 2, concurrency 2, 2 spoiled batches, 1 disturbance (page without cursor, late check or stop), callbacks that may throw |
| `chain` | what a check compares, and with which form of the chain | 421 scenarios: every kind and version, right or with any one field, id, nonce, signer or part of the submission changed, in the node, the client and Rust; one reorg that changes one thing; every request flaky; 1 retry (so 3 calls) |
| `node_signature`, `checker_reorg`, `checker_retry`, `checker_pointer`, `closest` | statements of the documentation that the code does not keep | as small as shows it |

Why these bounds are enough to be interesting: two transactions are the least for
one batch of two, two batches, a batch and a retry at the same time, and a shared
signature; two pages a batch give a failure between two pages; one stop of the
process separates every pair of puts, two stops also what a restart had begun; with a
single transaction the two saves of a throwing callback meet.  Two transactions of which
one has no event are the least for a batch that throws while another check is under
way; one such batch (`Strays`) is enough for a stray beside its repetition.  When it has
been, TLC looks only at bulk answers that leave out what has no event
(`BulkLoaded`), as a second batch could not throw.  In the pool, five
requests on three workers let the queue hold two closures whose order the
listeners disturb.  In the checker, three publications are the least for a
pointer with a pointer of its own; one error at a time shows what each test misses,
and two, chosen around the check of the pointer, which of them is returned.  In the
Rust verifier, two on a page are the least for two futures and for answers out of order, a third for a page before or after; as every
answer may leave anything out, the one signature is also seen as unused on a
later page.  In `ingest`, two publications with requests of one id each are the least for
two chunks, for a pairing that is off by one, and for a batch in which one is
malformed and the other is not; a second spoiled batch shows that the batch is
started over; one disturbance at a time separates every pair of steps.  In `chain`,
one change at a time suffices for a comparison that is left out to be seen, since
a test compares one thing; each scenario runs against every interleaving of its
requests with mining and the reorg, and a single reorg at any of the three blocks
puts every pair of requests on two chains.  One retry makes the boundary of
`retryWithTimeout` visible: `maxRetries + 2` calls are three.  The end of the pool's requests and of the Rust process are
legitimate stops, and so is the end of a check in `chain` and `closest`, so those runs do not look for
deadlocks; all others do.

### What they show

*Hold.* Of the node: `CursorBehindChecks`, `OnlyACrashLosesVerdicts`,
`RecordImpliesSignature`, `RejectedForAnother`, `RetriableIsRetried`,
`ImplementsVerdictLog`, `EveryTransactionHandled`, `RetryHappens`; of the pool
`NoIdleWorkerWhileQueued`, `OnePlaceEach`, `ImplementsRequestPool`,
`EveryRequestAnswered`; of the checker `AcceptedIsSound`, `RejectionIsFounded`,
`FirstErrorIsReturned`, `EveryStepIsProgress`; of the Rust verifier `CursorBehindChecks`,
`AcceptedIsSound`, `RejectionIsFounded`, `SignatureAcceptedOncePerPage`,
`EveryTransactionChecked`; of the bulk readers `AcceptedWithOwnProofs`,
`ChecksByIdUseOwnProofs`, `PassedIsDealtWith`, `FailureKept`, `PassedIsStreamed`,
`EveryFailureWritten`, `EveryPublicationChecked`, `EveryPublicationStreamed`; of the
checks against the chain `AcceptedWasPermitted`, `RightIsNotBlamed`,
`ShortOutageIsRiddenOut`, `FailedSimulationIsAReorg`, `EveryCheckEnds`.  They are
commented where they are defined.

`FirstErrorIsReturned` takes its order from the code.  The list in
`momoka-node/README.md:291-395` ("Validation checks flows") is another one, which
the code does not follow: the list has the submitter of the timestamp proofs after their
receipt, the signature that was used after the closest block, the id of the publication
last, after the comparison with the event, and `POTENTIAL_REORG` next to it; it has no test of
the typed data's deadline; and it returns the error of the pointer as it is (line 349), where
the code returns `POINTER_FAILED_VERIFICATION`.  So a publication with two defects may
get another error than the list has for it.

*Do not hold*, each a statement quoted in `PROJECT.json`:

* `SignatureAcceptedOnce`: two publications of one batch that carry one signature
  are both accepted, since neither is saved when the other looks.
* `ReorgIsReported`: `blockHashExists` returns an object, which is always true, so
  `POTENTIAL_REORG` is never returned.
* `ThirdPartyErrorsAreRetried`: an unanswered request inside the pointer's check
  becomes the final `POINTER_FAILED_VERIFICATION`.
* `RejectedPointerStaysRejected`: the record of a pointer is looked up under a key
  with `ar://` in front and never found.
* `PassedBlockIsClosest`: `getClosestBlock` multiplies Bundlr's timestamp, which is in
  milliseconds already, by 1000, so the last of three blocks is always the
  closest and every chosen block passes.

### What the modelling shows besides

*The node and the client.*

* The options text says that `resync` starts "back from zero"; `Boot` shows that it
  goes on from the saved cursor, which is the same only for a new database.
* The count that is saved is a running total *added* to the stored one.
* One publication that is not JSON, names no timestamp proofs or has no event holds
  the watcher up for good: its batch is started over from the same cursor (without an
  event, until a bulk request leaves it out).
* A publication without an event has its batch started over while its other checks go on.
  A repeated check then runs beside its own stray: when it looks up the signature after the
  stray has put it, and the record before, it records `CHAIN_SIGNATURE_ALREADY_USED` for
  its own signature; and when a bulk request leaves out the publication without event, a
  stray that times out puts `UNKNOWN` over the result of the repeated check, which the
  batch has taken for final, and no retry follows.  This is why `RejectedForAnother`,
  `RetriableIsRetried`, `RetryHappens` and `VerdictLog` except the transactions in
  `abandoned`; without the exception TLC shows both, the first once the two
  publications carry different signatures.
* The bulk requests and the requests by id catch their errors inside the callback
  that `retryWithTimeout` is to repeat, so they are never repeated.
  `retryWithTimeout` itself makes `maxRetries + 2` calls.  In the client, the request for the owner
  does reject after its last call, and nothing catches that.
* The cache of timestamp proofs is never hit by a check by id.
* A submitter is compared with who uploaded the timestamp proofs, in the bulk check
  as well: the batch overwrites the submitter it got with the publication.
* The hash and the time of the chosen block that the publication states are not compared
  with the block that is read, only with the other times it states.
* Not every field of an event is compared: the data of a reference module and the
  executor of a version 2 event are not; `EventFollowsTypedData` says which are.
* A publication id is compared as a hexadecimal string with the id of the event, so
  one written with an odd number of digits is not the same; the posts compare numbers.
* A profile that does not exist makes the aggregated call revert, and the check
  ends in `DATA_CANT_BE_READ_FROM_NODE`, which is retried.

*The Rust verifier.*

* It compares the milliseconds as they are, so it turns down "late" publications that the
  node accepts.  Its filter compares block numbers with a timestamp and leaves all in.
* It writes the addresses of the object whose signature it checks in lower case and puts
  the capitals back only in the verifying contract and the collect module, so every
  publication with a reference module fails with `InvalidSignatureSubmitter`, right or
  not (`SameWhenRewritten`; the zero address has no capitals).  An address without letters
  among its digits would pass and is left out, and so is hex data that is written in
  capitals, which submitters do not do.
* It turns down comments and mirrors with `referenceModuleData`, which the node
  accepts, and every version 2 publication and quote (`InvalidTransactionFormat`).
* The signature is checked over the object written anew, so an id in an odd form, or
  an event whose collect module differs, fails with `InvalidSignatureSubmitter`.
* A post that is not permitted makes the simulation revert, which is
  `DataCantBeReadFromNode`; `SimulationFailed` is returned only after a reorg
  (`FailedSimulationIsAReorg`), and `PotentialReorg` only when the node does not
  answer.  A profile that does not exist is `SimulationNodeCouldNotRun`.
* The nonce and the signer of a comment share one error.
* It knows another submitter for `MUMBAI` than the node.

### Fairness

`FairSpec` of the node gives weak fairness to what the process does by itself
(JavaScript runs every callback that is due, puts and timers end, `runForever`
loops) and to being started again, and strong fairness to what depends on
requests (`FetchPage` for each number of pages, `FetchNothing`, both
`BulkLoaded`): a request may fail again and again, but one that is repeated for
ever succeeds at some time.  The code repeats them for ever: both loops catch
and go on.  The strays and the exception of a log line are steps of the process.
`EveryTransactionHandled` speaks of runs in which every publication has its event, as the
others hold their batch up until a bulk request happens to leave them out.  No
fairness is given to `Submit`, `Crash`, or to failures.  A batch
that can *never* be loaded, such as one with malformed JSON, is excluded by this
assumption; in the code it holds the watcher up for good (see the hazards).  In
the pool, a worker that does not throw answers.

The Rust verifier gets weak fairness for the next page, for the end of a bulk
request (loaded, failed or panicked), for each future and for the end of a page:
every request has a timeout or a bounded number of retries, and the one task goes
on with whatever is ready.  Nothing starts the process again, so
`EveryTransactionChecked` speaks of a process that goes on running.

In `Ingest`, weak fairness goes to the steps of the processes, and strong fairness to
what is repeated after a failure: the two bulk requests, the write of a failed
proof, and the page of the indexer that is streamed to its end.  Neither failures,
stops, nor pages without a cursor are due.  `EveryPublicationChecked` assumes that
everything can be read, for the reason given above, and `MaxSpoiled` bounds how often
TLC lets a batch be started over where that is not so.  In `Checks`, weak fairness goes
to the steps of each program: a request is answered, or its calls are counted as
failed after their timeout.  Nothing is assumed of the chain: a block need never be
mined.

## 4. Proofs

All theorems hold for every value of the constants that the named assumptions
allow.  tlapm checks each leaf.

| Theorem | Module | Says |
|---|---|---|
| `TypeCorrect` | `VerifierNodeProofs` | `Spec => []TypeOK` |
| `CursorSafe` | `VerifierNodeProofs` | `Spec => []CursorBehindChecks` |
| `SignatureSafe` | `VerifierNodeProofs` | `Spec => []RecordImpliesSignature`, throwing callbacks and stops included |
| `LogRefinement` | `VerifierNodeProofs` | `Spec => ImplementsVerdictLog` for a callback that does not throw, batches that throw included |
| `StraysSafe` | `VerifierNodeProofs` | `Spec => [](WatcherInv /\ StrayInv)`: where strays come from, and that what is retried has its event |
| `VerdictsKept`, `RejectedForAnotherOnly`, `FailuresRetried` | `NodeVerdictsProofs` | `Spec => []OnlyACrashLosesVerdicts`, `[]RejectedForAnother`, `[]RetriableIsRetried`, throwing callbacks included |
| `CursorMonotone`, `SignatureTestSound` | `VerifierNodeProofs` | `Spec => CursorNeverGoesBack`, `SignatureTestIsSound` |
| `PoolTypeCorrect`, `WorkConserving`, `EachInOnePlace` | `WorkerPoolProofs` | `Spec => []TypeOK`, `[]NoIdleWorkerWhileQueued`, `[]OnePlaceEach` |
| `PoolRefinement` | `WorkerPoolProofs` | `Spec => ImplementsRequestPool` |
| `RustTypeCorrect`, `RustCursorSafe`, `RustAcceptanceSound`, `RustRejectionFounded` | `RustVerifierProofs` | `Spec => []TypeOK`, `[]CursorBehindChecks`, `[]AcceptedIsSound`, `[]RejectionIsFounded` |
| `RustSignatureOncePerPage`, `RustResultsCached`, `RustOneResult` | `RustVerifierProofs` | `Spec => SignatureAcceptedOncePerPage`, `[]ResultsAreCached`, `OneResultPerRun` |
| `CheckerTypeCorrect`, `DepthBounded`, `AcceptanceSound`, `RejectionsFounded` | `ProofCheckerProofs` | `Spec => []TypeOK`, `[]OnlyFirstPointer`, `[]AcceptedIsSound`, `[]RejectionIsFounded` |
| `FirstErrorReturned`, `ChecksAgree`, `ChecksProgress` | `ProofCheckerProofs` | `Spec => []FirstErrorIsReturned`, `[]UndisturbedChecksAgree`, `EveryStepIsProgress` |
| `PotentialReorgIsNeverReturned` | `ProofCheckerProofs` | `Spec => []NoPotentialReorg`, the general form of a finding |
| `IngestTypeCorrect`, `OwnProofs`, `ByIdOwnProofs` | `IngestProofs` | `Spec => []TypeOK`, `[]AcceptedWithOwnProofs`, `[]ChecksByIdUseOwnProofs` |
| `NothingPassed`, `FailuresKept`, `NothingSkipped` | `IngestProofs` | `Spec => []PassedIsDealtWith`, `[]FailureKept`, `[]PassedIsStreamed` |
| `ChecksTypeCorrect`, `OutageRiddenOut`, `BlameIsAReorg` | `ChecksProofs` | `Spec => []TypeOK`, `[]ShortOutageIsRiddenOut`, `[]FailedSimulationIsAReorg` |
| `OnlyPermittedAccepted`, `RightIsNeverBlamed` | `ChecksProofs` | `Spec => []AcceptedWasPermitted`, `[]RightIsNotBlamed` |
| `ClosestTestIsBlind` | `ChecksProofs` | `Spec => []ClosestTestNeverFails`, the general form of a finding |
| `ChecksAreProgress` | `ChecksProofs` | `Spec => ChecksApproachTheirEnd` |

The properties of `CursorMonotone`, `SignatureTestSound`, `RustResultsCached`,
`RustOneResult`, `ChecksAgree`, `PotentialReorgIsNeverReturned`, `ClosestTestIsBlind`
and `ChecksAreProgress` are defined in the proof modules, next to their theorems; no
run lists them.

**The node.** `IInv` (at the end of `VerifierNode`) is inductive.  `WatcherInv`
ties `pc`, `endCursor`, `page` and the members of the passes together: without
it a batch could hold transactions beyond the page, and `CursorBehindChecks`
would not survive `ProcessTransactions`.  `FateInv` says that a batch whose
checks are over has only handled transactions.  `SignatureFirst` strengthens
`RecordImpliesSignature` with the calls of `saveTxDb` under way: one that is
about to put the record has put the signature.  For the refinement, `PlaceInv`
says that a transaction is in one place of the retry machinery and has one
pending write, and `VerdictInv` what a pending write may still do to its record:
a write of `sigUsed` only meets an empty record, since a retry never looks the
signature up and begins when the writes of the first check are over.  Both speak of the
transactions in `Sole`, which no batch that threw was checking; `StrayInv` says that
strays are never among them, and `AsideSteps` that a step of a stray leaves all else as
it is but for the saves it makes.  A throwing callback has two
writes of one transaction under way at once, which is why these two parts, and
`LogRefinement`, assume that it does not throw.  `CursorOrder` adds that the saved cursor is not
ahead of the one the watcher holds, nor that one of what Bundlr lists: a start without
`resync` takes Bundlr's newest transaction, so what it saves then is not behind either.
`SignatureTestSound` is what remains true of the statement the run `node_signature` refutes: the
test itself is right about every record, and what it misses is a save not yet made.

`NodeVerdictsProofs` drops that assumption: its invariants speak only of the first run
or of the time since the last start, and again of `Sole`.  `Effect` says once what a step of a check saves and
why.  `FirstRun` keeps the transactions that were `Seen` apart from those still to be
checked: a publication whose signature is looked up was not seen, so whoever has used
the signature is another one.  `ChanceInv` says that the watcher's pass works beyond the
cursor and the retries before it (`PassInv`), that what a bulk request left out is not
processed (`LeftOutInv`), and that a verdict the watcher takes for final is final, in
the record and in every save under way, until a retry touches it (`SettledInv`).

**The pool.** `NoIdleWorkerWhileQueued` and `TypeOK` together are inductive;
lemmas say what `ExecuteIn`, `RunNext` and `Free` do to a state.  `PlacedInv` adds to
`OnePlaceEach` that a request that was answered is no longer held anywhere: without it
the second of the two listeners could answer a request twice.  For the refinement, the
room of the abstract pool is the idle workers, counted (`Served` has as many members
as there are busy workers, since no two serve the same), and a message is one
`Answer` whichever of the two listeners starts the next request.

**The checker.** The invariant of a check, `CheckInv`, says of each frame that the
stages behind it are clean (`FrameInv`), of the bottom frame that it is the
publication asked for and of a top frame that it is its pointer, checked with the
pointer's own pointer left out (`BottomInv`, `PointerInv`), and of an ended check
that `ok` was deserved (`EndedInv`).  It needs `RecordInv`, since a check may end
with the record of another, and `saves => verifyPointer`, since a record is
trusted by checks that ask for the pointer too.  For a rejection,
`FoundedInv` says that a final error of an ended check has its ground.  It comes from
where the check failed: the top of one frame is the publication itself, so the error is
one of its own; the top of two is its pointer (`TopOfPointer`, from `PointerInv`), and
what the bottom returns then is `POINTER_FAILED_VERIFICATION`.  `FoundedInv` also
says that the error is the first in the order of the tests, unless a block was gone or a
request unanswered: the stages behind the frame that fails are clean (`FrameInv`), and within its stage
the first error that applies is returned.  Then
two undisturbed checks agree, since the first error depends on the publication alone.
`Rank` counts the stages a check and its pointer still have before them; it falls
with every step, so a check ends after a number of awaits that its entry bounds, even
though liveness itself is TLC's.  `PotentialReorgIsNeverReturned` holds because the
only test that would return that error asks `BlockHashExists`, which is always true.

**The Rust verifier.** Its `IInv` adds to the properties that the futures under
way belong to the page (`ActiveInv`), that a page just fetched has no results and
one whose futures are done has them all (`PageInv`), that timestamp proofs are
missing or a publication's own (`PairInv`), that what was accepted has its
signature cached (`AcceptedInv`), and that what a future learnt of its pointer and
its signature before the await of `process_proof` is still true after it
(`ProofInv`): of the signature only because the page does not change meanwhile.
`FutureKeeps` says once what a step of a future must satisfy.  A second invariant,
`CachesAgree`, says that the two caches hold what was checked since the start and
nothing else, a future between its awaits included; with it, a signature that is found
used was carried by another publication (`RejectionIsFounded`), and a result is never
replaced.

**The bulk readers.** The properties have an invariant each.  `AcceptedWithOwnProofs` is
inductive, since whatever is paired, a check compares the two.  `OwnInv` says that under the
id of a publication the caches hold that publication and never timestamp proofs.
`KeptInv` says that of the failed proofs,
each is in a file, in memory or was lost with the process, and `OneIsWritten` that
`writing` is a set of at most one, without which putting back one of two would
lose the other.  `StreamedInv` ties the page of the indexer and its cursor together: everything
between the cursor and the end of the page is on the page (`PageInv`).
`PassedInv` does the same of the batch (`BatchInv`): up to `next`, a publication
that is listed is in the batch, waiting, being checked, checked, or was left out, and none
of those the batch has got past its bulk requests with is unreadable; and both cursors,
saved and in memory, are behind what was dealt with (`CursorInv`).

**The checks and the chain.** The theorems hold for any set of scenarios that
`ScenarioAssumption` allows and any number of retries: for every publication, submission and pair
of forms of the blocks, where the run has a few dozen.  `KnownInv` is the common
ground: whatever the cache, an answer or a save under way holds was on the chain at some
time (`ChainKnown`, `NodeKnown`, `RustKnown`), and a request counts as failed only when all its
calls have failed (`CallsInv`).  On it rest, in both directions, lemmas about the data:
the tests of a submission (`SubmissionTestsFind`, `SubmissionTestsHold`), the fields that are
compared against those the event promises (`NodeEventFollows`,
`NodeFieldsFollow`, `RustEventFollows`, `RightCrossChecks`), and a post the contract executes
against one its author may make (`PermitsMeans`, `RightExecutes`).  For what is accepted,
`NodeStages` and `RustStages` say what a check has established when it waits for a
request; that does not change, since the forms that have been on the chain only
grow.  For what is right, the same fact is used backwards: a publication that is right
at the end was right at every answer, so no test on the way failed, and the two
answers of a post agree although they may come from two chains.

`ClosestTestIsBlind` says of every timestamp and chain what the run `closest` shows on
one: converted once more, the timestamp is far beyond the blocks, and `getClosestBlock`
takes the last.  `ChecksAreProgress` counts the work that is left: the stages of a check,
and for each request the calls that may still fail; every step of a check lowers the
number and neither the chain nor another check raises it.

**Only model-checked**: liveness, since fairness is out of the prover's reach (the two
counts of work that is left are as far as the prover goes: they exclude a check that
goes round in circles, not one that is never continued).  Every
invariant, every action property and both refinements that a passing run checks are theorems.
With a throwing callback, which of the runs only `node_restart` has, `OnlyACrashLosesVerdicts`
and `RetriableIsRetried` rest on their theorems, which do not exclude it.

## 5. Not modelled, and why

* Cryptography: who signed typed data, a message or a receipt is a fact of the
  submission.  The domain of the typed data (chain id, contract) is left out.
* The contract itself: `LensHub` models what the verifiers rely on; that the contract
  also rejects a signature whose deadline has passed is left out, since the
  simulation runs at a block of the past.
* The encoding of calls, the names of the requests' fields in JSON, the decoding in Rust
  of a field that is not formed well.
* Time: that the calls of `getBundlrBulkTxs` or the repeated calls of a request
  take longer than the 5 seconds a check has is a `TimeOut`, which may happen at any time.
* The tables of chain ids, URLs and contract addresses; the ABIs and generated
  bindings apart from the functions and events that are used (most of the source's lines);
  the logger; the local node, which the source switches off.
* In `RustVerifier`, a page without an end cursor, and in `VerifierNode` the caches and
  the pairing, which `Ingest` models.
* Node and checks are composed by what `FinishCheck` in `ProofsBatch` may come to, not by
  INSTANCE: it allows every outcome `ProofChecker` has.

## 6. Plan

1. *Done*: the node, its database, batches and retries; the abstract log of
   verdicts; the worker pool; the proof checker; the Rust verifier; the bulk
   requests, the failed proofs and the trusting indexer; the checks of the three
   programs against the chain; and the theorems above.
2. The composition of `ProofChecker` with `ProofsBatch`, whose `FinishCheck` it
   refines, and of `RustChecks` with `RustVerifier`.
3. An abstract specification of the failed-proof queue (kept, written or lost), which
   `FailedProofs` implements, and the monotony of what `Ingest` has dealt with.
4. A page without an end cursor in `RustVerifier`.
