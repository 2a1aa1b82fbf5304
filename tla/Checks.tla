-------------------------------- MODULE Checks --------------------------------
(***************************************************************************)
(* A check of the node, of the client library or of the verifier in Rust,  *)
(* and the chain it asks.                                                  *)
(***************************************************************************)
EXTENDS ClientChecks, RustChecks

vars == <<chain, nodeVars, rustVars>>

Init == ChainInit /\ NodeInit /\ RustInit

NodeStep == program = "node" /\ (StartCheck \/ CheckStep) /\ UNCHANGED rustVars
ClientStep == program = "client" /\ (ClientStart \/ CheckStep) /\ UNCHANGED rustVars
RustProgramStep == program = "rust" /\ RustStep /\ UNCHANGED nodeVars

Next ==
    \/ NodeStep \/ ClientStep \/ RustProgramStep
    \/ program = "node" /\ BlockSaves /\ UNCHANGED rustVars
    \/ (Mine \/ \E n \in Block : Reorg(n)) /\ UNCHANGED <<nodeVars, rustVars>>

Spec == Init /\ [][Next]_vars

\* A request is answered, or counted as a failed call after its timeout.
FairSpec == Spec /\ WF_vars(NodeStep) /\ WF_vars(ClientStep) /\ WF_vars(RustProgramStep)

-------------------------------------------------------------------------------
(* Properties *)

TypeOK ==
    /\ scenario \in Names
    /\ form \in [Block -> Form] /\ height \in Block /\ seen \subseteq Block \X Form
    /\ cache \in [Block -> Form \cup {0}] /\ saving \subseteq Block \X Form
    /\ request \in [Requests -> {"none", "lookup", "asked", "answered", "failed"}]
    /\ calls \in [Requests \cup BundlrRequests -> 0 .. MaxRetries + 2]
    /\ answer \in [Requests -> Form \cup {0}]
    /\ pc \in {"start", "blocks", "chain", "done"} \cup BundlrRequests
    /\ rustAt \in Requests \cup {"start", "validate", "done"}
    /\ rustAnswer \in [Requests -> Form \cup {0}]

\* The chain let the signer publish this at block s.
MayPublish(s) ==
    /\ s.owner # "nobody" /\ p.nonce = s.nonce /\ p.signer \in {s.owner, s.delegate}
    /\ p.pubId.number = s.pubs + 1

Accepted == result = "accepted" \/ rustResult = "accepted"

\* The submitter of the setting, as the program knows it.
TheSubmitter ==
    IF program = "rust" THEN get_submitters[setting.deployment][setting.environment]
    ELSE Submitters[setting.deployment][setting.environment]

\* The submitter signed the data and uploaded proofs of it that Bundlr signed, and the
\* times it gives agree.
SubmissionIsRight ==
    /\ IsSupported(setting) /\ upload.found
    /\ upload.signedBy = TheSubmitter /\ upload.uploadedBy = TheSubmitter
    /\ upload.event = upload.block /\ upload.deadline = upload.block
    /\ upload.proofs = [given |-> TRUE, type |-> p.type, daId |-> p.daId, signed |-> TRUE]

\* What is accepted was submitted by the submitter of the setting, with proofs of it,
\* and says what was signed, by somebody the chain let publish it at some form of the
\* chosen block, whatever happens between the requests, whatever the cache holds and by
\* whichever program (post/da-post-verifier-v1.ts:73, da-publication-verifier-v1.ts:71,
\* client-da-proof-verifier.ts:44, momoka-rs/src/verifier/transactions/mirror.rs:51).
AcceptedWasPermitted ==
    Accepted =>
        /\ SubmissionIsRight /\ Recognized(p.type, p.version)
        /\ EventFollowsTypedData(p) /\ NoInitData(p)
        /\ \E f \in Form : <<Chosen, f>> \in seen /\ MayPublish(At(Chosen, f))

\* A publication that is right at every form of the chosen block.
RightAt(s) ==
    /\ MayPublish(s)
    /\ p.type = "POST" /\ p.version = 1 =>
          p.signer = (IF p.byDelegate THEN s.delegate ELSE s.owner)
Right ==
    /\ SubmissionIsRight
    /\ Recognized(p.type, p.version) /\ VerifyPublicationIdMatches(p)
    /\ WellFormed(p.value)
    /\ EventFollowsTypedData(p) /\ NoInitData(p) /\ p.pubId.form = "even"
    /\ \A f \in Form : <<Chosen, f>> \in seen => RightAt(At(Chosen, f))

\* No form of the chosen block is as old as one of its predecessor, or younger than
\* the timestamp of the publication.
BlocksInOrder ==
    \A f, g \in Form : At(1, f).time < At(Chosen, g).time /\ At(Chosen, g).time <= p.timestamp

Blame == {"NOT_CLOSEST_BLOCK", "PUBLICATION_NOT_RECOGNIZED", "GENERATED_PUBLICATION_ID_MISMATCH",
          "SIMULATION_FAILED", "EVENT_MISMATCH", "PUBLICATION_NONCE_INVALID",
          "PUBLICATION_SIGNER_NOT_ALLOWED", "INVALID_FORMATTED_TYPED_DATA", "INVALID_TX_ID",
          "TIMESTAMP_PROOF_NOT_SUBMITTER", "NO_SIGNATURE_SUBMITTER",
          "INVALID_SIGNATURE_SUBMITTER", "TIMESTAMP_PROOF_INVALID_SIGNATURE",
          "TIMESTAMP_PROOF_INVALID_TYPE", "TIMESTAMP_PROOF_INVALID_DA_ID",
          "INVALID_EVENT_TIMESTAMP", "INVALID_TYPED_DATA_DEADLINE_TIMESTAMP"}

\* What the verifier in Rust asks for beyond that.  (That there is no reference module it
\* asks for unawares: it checks the signature of a text in which it is spelt otherwise.)
RightForRust ==
    /\ p.version = 1
    /\ "referenceModuleData" \in SignedFields(p.type, 1) => p.value["referenceModuleData"] = Empty
    /\ SameInLowerCase(p.value["referenceModule"])
    /\ upload.pointer = IF p.type = "POST" THEN "none" ELSE "onDa"

\* In every form, the previous block is farther from the timestamp than one of the others.
\* The timestamp is compared with the numbers of the blocks, too, which are less.
ChosenIsClosest ==
    /\ \A b \in Block : b <= p.timestamp
    /\ \A f, g, h \in Form : \E t \in {At(Chosen, g).time, At(3, h).time} :
          Distance(1000 * t, p.timestamp) < Distance(1000 * At(1, f).time, p.timestamp)

RustBlame == {"InvalidTransactionFormat", "InvalidSignatureSubmitter",
              "GeneratedPublicationIdMismatch", "TimestampProofNotSubmitter",
              "InvalidEventTimestamp", "InvalidTypedDataDeadlineTimestamp", "NotClosestBlock",
              "TimestampProofInvalidType", "TimestampProofInvalidDAID",
              "TimestampProofInvalidSignature", "InvalidPointerSetNotNeeded",
              "PublicationNoPointer", "PublicationNoneDA", "SimulationFailed", "EventMismatch",
              "PublicationNonceInvalid", "PublicationSignerNotAllowed"}

\* A reorg that leaves a publication right never makes it look wrong, although the two
\* requests of a post may be answered from two chains and the neighbours of the chosen
\* block from the cache of a third (da-proof-gateway.ts:34).
RightIsNotBlamed ==
    /\ result \in Blame => ~(Right /\ BlocksInOrder)
    /\ rustResult \in RustBlame => ~(Right /\ RightForRust /\ ChosenIsClosest)

\* The node has to be away for every call of a request before a check fails for it
\* (helpers.ts:126).
ShortOutageIsRiddenOut ==
    result \in {"BLOCK_CANT_BE_READ_FROM_NODE", "SIMULATION_NODE_COULD_NOT_RUN",
                "DATA_CANT_BE_READ_FROM_NODE", "exception"}
        => (\E r \in Requests \cup BundlrRequests : calls[r] = MaxRetries + 2)
           \/ ~IsSupported(setting)

\* The verifier in Rust blames a simulation only when the chain has changed since, as a
\* post that is not permitted makes the call fail; yet it never says so, since a block
\* that is gone counts as found (momoka-rs/src/verifier/transactions/post.rs:250).
FailedSimulationIsAReorg ==
    rustResult = "SimulationFailed" => rustAnswer["simulation"] # rustAnswer["count"]

\* Every check ends, even when a block is never mined or a profile does not exist.
EveryCheckEnds == <>(pc = "done" \/ rustAt = "done")

\* The block that passes is the one closest to Bundlr's timestamp, which is in
\* milliseconds, or the one before the closest (da-proof-checker.ts:360).
PassedBlockIsClosest ==
    pc = "chain" =>
        \E b \in {Chosen, Chosen + 1} : \A x \in Block :
            Distance(UnixTimestampToMilliseconds(ReadBlocks[b].time), p.timestamp)
                <= Distance(UnixTimestampToMilliseconds(ReadBlocks[x].time), p.timestamp)

===============================================================================
