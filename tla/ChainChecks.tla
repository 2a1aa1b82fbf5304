------------------------------ MODULE ChainChecks ------------------------------
(***************************************************************************)
(* What a check of the node asks the chain, once the submission is tested: *)
(* the block the submitter chose, with its neighbours, by way of the cache *)
(* of blocks; then, for a post, the simulation and the number of           *)
(* publications at that block, for the rest the details of the profile.    *)
(* Each request is repeated while it fails, and the chain may change       *)
(* between any two of them.  A check of the client library asks for the    *)
(* same, past the cache.                                                   *)
(***************************************************************************)
EXTENDS Chain

CONSTANT MaxRetries     \* options.maxRetries of retryWithTimeout

ASSUME RetryAssumption == MaxRetries \in Nat \ {0}

VARIABLES
    cache,          \* the form of each block that is in the database, or 0
    saving,         \* the blocks whose save is under way
    request,        \* how each request of each check stands
    calls,          \* how many calls of it have failed
    answer,         \* the form of the block it was answered from
    pc,             \* start, blocks, chain, done; publication, proofs, owner: the client's
    result          \* "none", or what the check came to

nodeVars == <<cache, saving, request, calls, answer, pc, result>>
database == <<cache, saving>>

-------------------------------------------------------------------------------
(* Choosing the block *)

UnixTimestampToMilliseconds(t) == 1000 * t

Distance(a, b) == IF a < b THEN b - a ELSE a - b

\* One step of getClosestBlock: prev stays unless curr is not after the target and
\* closer to it.
Closer(prev, curr, target) ==
    LET p0 == UnixTimestampToMilliseconds(prev.time)
        c0 == UnixTimestampToMilliseconds(curr.time)
        t0 == UnixTimestampToMilliseconds(target)
    IN IF c0 <= t0 /\ Distance(c0, t0) < Distance(p0, t0) THEN curr ELSE prev

GetClosestBlock(b1, b2, b3, target) == Closer(Closer(b1, b2, target), b3, target)

\* The blocks a check has read.
ReadBlocks ==
    [b \in Block |-> [number |-> b,
        time |-> At(b, answer[RequestFor(b)]).time]]

\* validateChoosenBlock: the block after the chosen one may be the closest, too.
ChosenBlockIsValid ==
    LET bs == ReadBlocks IN
    GetClosestBlock(bs[1], bs[2], bs[3], p.timestamp).number \in {Chosen, Chosen + 1}

-------------------------------------------------------------------------------
(* The steps of a check *)

\* What the simulation returns: the new publication id, or 0 for the data of an error.
Simulated(s) == IF Permits(s) THEN LensPubCount(p.version, s) + 1 ELSE 0

NodeInit ==
    /\ cache = [b \in Block |-> 0] /\ saving = {}
    /\ request = [r \in Requests |-> "none"]
    /\ calls = [r \in Requests \cup BundlrRequests |-> 0]
    /\ answer = [r \in Requests |-> 0]
    /\ pc = (IF program = "client" THEN "publication" ELSE "start") /\ result = "none"

\* The check ends.
End(what) ==
    pc' = "done" /\ result' = what

\* What was found wrong ends the check; else it reads the blocks, by first looking each
\* up or by asking for it.
ReadBlocksUnless(error, first) ==
    IF error # "none" THEN End(error) /\ UNCHANGED request
    ELSE /\ pc' = "blocks" /\ UNCHANGED result
         /\ request' = [r \in Requests |-> IF r \in BlockRequests THEN first ELSE "none"]

\* checkDAProofWithMetadata when nothing is known of the transaction, up to the blocks.
StartCheck ==
    /\ pc = "start"
    /\ ReadBlocksUnless(
            FirstError(SubmitterTest(upload, setting) \o SubmissionTests(p, upload, setting)),
            "lookup")
    /\ UNCHANGED <<chain, database, calls, answer>>

\* DaProofGateway.getBlockRange asks the database first, once for each block.
LookUpBlock(r) ==
    /\ request[r] = "lookup"
    /\ IF cache[BlockOf(r)] = 0
       THEN request' = [request EXCEPT ![r] = "asked"] /\ UNCHANGED answer
       ELSE /\ request' = [request EXCEPT ![r] = "answered"]
            /\ answer' = [answer EXCEPT ![r] = cache[BlockOf(r)]]
    /\ UNCHANGED <<chain, database, calls, pc, result>>

\* The node answers a request that is under way.
Answers(r) ==
    /\ request[r] = "asked" /\ BlockOf(r) <= height
    /\ request' = [request EXCEPT ![r] = "answered"]
    /\ answer' = [answer EXCEPT ![r] = form[BlockOf(r)]]
    /\ UNCHANGED <<chain, calls, pc, result, cache>>

\* getBlock; the node saves the block and does not wait for that, so that it goes on
\* when the check has ended.
AnswerBlock(r) ==
    /\ r \in BlockRequests /\ Answers(r)
    /\ saving' = IF program = "node" THEN saving \cup {<<BlockOf(r), form[BlockOf(r)]>>}
                 ELSE saving

\* saveBlockDb
SaveBlock(s) ==
    /\ s \in saving
    /\ cache' = [cache EXCEPT ![s[1]] = s[2]]
    /\ saving' = saving \ {s}
    /\ UNCHANGED <<chain, request, calls, answer, pc, result>>

\* External to this check: another one, now or before a restart, saves a block in a form
\* that has been on the chain.
SaveByAnother(s) ==
    /\ s \in seen /\ s[1] \in Table[scenario].others
    /\ cache' = [cache EXCEPT ![s[1]] = s[2]]
    /\ UNCHANGED <<chain, saving, request, calls, answer, pc, result>>

AnswerSimulation ==
    Answers("simulation") /\ UNCHANGED saving

\* getLensPubCount
AnswerCount ==
    Answers("count") /\ UNCHANGED saving

\* getOnChainProfileDetails
AnswerDetails ==
    /\ Answers("details") /\ HasDetails(At(Chosen, form[Chosen]))
    /\ UNCHANGED saving

\* A call of a request may fail because the block is not there, because the call
\* reverts without data or because the node does not answer.
CallMayFail(r) ==
    \/ r \in Table[scenario].flaky
    \/ BlockOf(r) > height
    \/ r = "details" /\ ~HasDetails(At(Chosen, form[Chosen]))
    \/ r = "simulation" /\ ~Permits(At(Chosen, form[Chosen]))

\* Wrong: retryWithTimeout gives up before the last call.
GivesUpEarly(n) == n >= MaxRetries

\* Wrong: one call more.
GivesUpLate(n) == n > MaxRetries + 1

\* The attempt counter of retryWithTimeout, when a call fails, is how many calls have
\* failed before: it gives up beyond maxRetries, after maxRetries + 2 calls.
GivesUp(n) == n > MaxRetries

\* Wrong: a block that is not there is waited for.
FailsForEver(r) ==
    /\ request[r] = "asked" /\ CallMayFail(r)
    /\ UNCHANGED <<chain, database, request, calls, answer>>

Fails(r) ==
    /\ request[r] = "asked" /\ CallMayFail(r)
    /\ calls' = [calls EXCEPT ![r] = @ + 1]
    /\ request' = [request EXCEPT ![r] = IF GivesUp(calls[r]) THEN "failed" ELSE @]
    /\ UNCHANGED <<chain, database, answer>>

\* One block that cannot be read ends the check, while the other requests go on.
FailBlock(r) ==
    /\ r \in BlockRequests /\ Fails(r)
    /\ IF GivesUp(calls[r]) /\ pc = "blocks"
       THEN End("BLOCK_CANT_BE_READ_FROM_NODE") ELSE UNCHANGED <<pc, result>>

FailOther(r) ==
    /\ r \notin BlockRequests /\ Fails(r)
    /\ UNCHANGED <<pc, result>>

\* Post version 1 simulates and counts at the same time, version 2 counts first.
FirstRequests ==
    IF p.type # "POST" THEN {"details"}
    ELSE IF p.version = 1 THEN {"simulation", "count"} ELSE {"count"}

\* All blocks are read: the rest of validateChoosenBlock and checkDAPublication up to
\* the first request.
ValidateChosenBlock ==
    /\ pc = "blocks" /\ \A r \in BlockRequests : request[r] = "answered"
    /\ IF ~ChosenBlockIsValid THEN End("NOT_CLOSEST_BLOCK") /\ UNCHANGED request
       ELSE IF ~Recognized(p.type, p.version)
       THEN End("PUBLICATION_NOT_RECOGNIZED") /\ UNCHANGED request
       ELSE IF ~VerifyPublicationIdMatches(p)
       THEN End("GENERATED_PUBLICATION_ID_MISMATCH") /\ UNCHANGED request
       ELSE IF ~(IF p.type = "POST" THEN CanBeSimulated(p) ELSE CanBeRecovered(p))
       THEN End("INVALID_FORMATTED_TYPED_DATA") /\ UNCHANGED request
       ELSE /\ pc' = "chain" /\ UNCHANGED result
            /\ request' = [r \in Requests |-> IF r \in FirstRequests THEN "asked" ELSE request[r]]
    /\ UNCHANGED <<chain, database, calls, answer>>

Settled(r) == request[r] \in {"answered", "failed"}

\* DAPostVerifierV2.verifySimulation: whatever the count came to, it simulates.
SimulateAfterCount ==
    /\ pc = "chain" /\ p.type = "POST" /\ p.version = 2
    /\ Settled("count") /\ request["simulation"] = "none"
    /\ request' = [request EXCEPT !["simulation"] = "asked"]
    /\ UNCHANGED <<chain, database, calls, answer, pc, result>>

\* Wrong: the id is expected to be the number of publications.
ExpectedWithoutNew(s) == LensPubCount(p.version, s)

\* getExpectedResult
Expected(s) == LensPubCount(p.version, s) + 1

\* verifySimulation and verifyEventWithTypedData, when both requests have settled.
\* blockHashExists makes no difference: its result is an object, never false.
PostResult ==
    LET id == Simulated(At(Chosen, answer["simulation"])) IN
    IF request["simulation"] = "failed" THEN "SIMULATION_NODE_COULD_NOT_RUN"
    ELSE IF request["count"] = "failed" THEN "DATA_CANT_BE_READ_FROM_NODE"
    ELSE IF id # Expected(At(Chosen, answer["count"])) THEN "SIMULATION_FAILED"
    ELSE IF ~VerifyEventWithTypedData(p, id) THEN "EVENT_MISMATCH" ELSE "accepted"

EndPost ==
    /\ pc = "chain" /\ p.type = "POST"
    /\ Settled("simulation") /\ Settled("count")
    /\ End(PostResult)
    /\ UNCHANGED <<chain, database, request, calls, answer>>

\* verifySigner of version 1: the dispatcher or the owner, whoever is said to have.
SignerErrorV1(details) ==
    IF p.nonce # details.sigNonce THEN "PUBLICATION_NONCE_INVALID"
    ELSE IF WhoSignedTypedData(p) \notin {details.dispatcherAddress, details.ownerOfAddress}
    THEN "PUBLICATION_SIGNER_NOT_ALLOWED" ELSE "none"

\* verifySigner of version 2: the owner or an approved executor.
SignerErrorV2(details) ==
    IF p.nonce # details.nonces THEN "PUBLICATION_NONCE_INVALID"
    ELSE IF WhoSignedTypedData(p) # details.ownerOfAddress /\ ~details.isSignerApprovedExecutor
    THEN "PUBLICATION_SIGNER_NOT_ALLOWED" ELSE "none"

DetailsResult ==
    LET s == At(Chosen, answer["details"])
        details == IF p.version = 1 THEN DetailsV1(CallsV1(s))
                   ELSE DetailsV2(CallsV2(s, WhoSignedTypedData(p)))
        error == IF p.version = 1 THEN SignerErrorV1(details) ELSE SignerErrorV2(details)
    IN IF request["details"] = "failed" THEN "DATA_CANT_BE_READ_FROM_NODE"
       ELSE IF error # "none" THEN error
       ELSE IF ~VerifyEventWithTypedData(p, details.currentPublicationId + 1)
       THEN "EVENT_MISMATCH" ELSE "accepted"

\* A comment, a mirror or a quote, whose pointer is modelled in ProofChecker.
EndPointing ==
    /\ pc = "chain" /\ p.type # "POST" /\ Settled("details")
    /\ End(DetailsResult)
    /\ UNCHANGED <<chain, database, request, calls, answer>>

\* From the first block on.
CheckStep ==
    \/ \E r \in BlockRequests : LookUpBlock(r) \/ AnswerBlock(r) \/ FailBlock(r)
    \/ AnswerSimulation \/ AnswerCount \/ AnswerDetails
    \/ \E r \in Requests \ BlockRequests : FailOther(r)
    \/ ValidateChosenBlock \/ SimulateAfterCount \/ EndPost \/ EndPointing

\* What goes on although the check may have ended, and what other checks do.
BlockSaves == (\E s \in saving : SaveBlock(s)) \/ (\E s \in seen : SaveByAnother(s))

===============================================================================
