------------------------------ MODULE ClientChecks ------------------------------
(***************************************************************************)
(* checkDAProof of the client library: it has the publication and the data *)
(* of its timestamp proofs from Bundlr, asks Bundlr who uploaded them, and *)
(* then checks as the node does.  It keeps nothing: no verdict, no         *)
(* signature that was used and no block.                                   *)
(***************************************************************************)
EXTENDS ChainChecks

\* getDaPublication; an empty answer is no publication.
ReadPublication ==
    /\ pc = "publication"
    /\ IF upload.found THEN pc' = "proofs" /\ UNCHANGED result ELSE End("INVALID_TX_ID")
    /\ UNCHANGED <<chain, database, request, calls, answer>>

\* getTimestampProofs
ReadTimestampProofs ==
    /\ pc = "proofs"
    /\ IF upload.proofs.given THEN pc' = "owner" /\ UNCHANGED result ELSE End("INVALID_TX_ID")
    /\ UNCHANGED <<chain, database, request, calls, answer>>

\* getBundlrByIdAPI catches the error of a call before retryWithTimeout sees it, and so
\* the first call that fails is the last.
ReadFails ==
    /\ pc \in {"publication", "proofs"} /\ pc \in Table[scenario].flaky
    /\ calls' = [calls EXCEPT ![pc] = @ + 1]
    /\ End("CAN_NOT_CONNECT_TO_BUNDLR")
    /\ UNCHANGED <<chain, database, request, answer>>

\* verifyTransactionSubmitter: a transaction without an owner is not a submitter's,
\* and getSubmitters throws for a setting that is not supported.
SubmitterError ==
    IF upload.uploadedBy = "none" THEN "TIMESTAMP_PROOF_NOT_SUBMITTER"
    ELSE IF ~IsSupported(setting) THEN "exception"
    ELSE FirstError(SubmitterTest(upload, setting) \o SubmissionTests(p, upload, setting))

ReadOwner ==
    /\ pc = "owner"
    /\ ReadBlocksUnless(SubmitterError, "asked")
    /\ UNCHANGED <<chain, database, calls, answer>>

\* getOwnerOfTransactionAPI rejects when its last call has failed, and nothing catches
\* that.
OwnerFails ==
    /\ pc = "owner" /\ "owner" \in Table[scenario].flaky
    /\ calls' = [calls EXCEPT !["owner"] = @ + 1]
    /\ IF GivesUp(calls["owner"]) THEN End("exception") ELSE UNCHANGED <<pc, result>>
    /\ UNCHANGED <<chain, database, request, answer>>

ClientStart ==
    ReadPublication \/ ReadTimestampProofs \/ ReadFails \/ ReadOwner \/ OwnerFails

===============================================================================
