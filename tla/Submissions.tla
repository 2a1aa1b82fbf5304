------------------------------ MODULE Submissions ------------------------------
(***************************************************************************)
(* What a submitter adds to a publication, and what DaProofChecker finds   *)
(* wrong with it before it reads a block: who signed the data, who put the *)
(* timestamp proofs on Bundlr, and the times.  A test is the error the     *)
(* code returns when its condition does not hold; the tests of a sequence  *)
(* are made in order, up to the first error.                               *)
(***************************************************************************)
EXTENDS PublicationVerifiers, Sequences

-------------------------------------------------------------------------------
(* Settings: the environment a verifier is run for, and the deployment *)

Environment == {"POLYGON", "MUMBAI", "AMOY"}
Deployment == {"PRODUCTION", "STAGING", "LOCAL"}

\* getSubmitters.  An address is cut to its first digits.
Submitters ==
    [d \in Deployment |->
        CASE d = "PRODUCTION" -> [POLYGON |-> "0xBe29", MUMBAI |-> "0xF114", AMOY |-> "0x085b"]
          [] d = "STAGING" -> [MUMBAI |-> "0x5530", AMOY |-> "0xC1b3"]
          [] OTHER -> [MUMBAI |-> "0x8Fc1", AMOY |-> "0xcD77"]]

\* For the other settings getSubmitters throws.
IsSupported(setting) == setting.environment \in DOMAIN Submitters[setting.deployment]

IsValidSubmitter(setting, address) ==
    address = Submitters[setting.deployment][setting.environment]

-------------------------------------------------------------------------------
(* Submissions *)

PointerType == {"none", "onDa", "onEvmChain"}

\* The data of a timestamp transaction, or that there is none, and whether the receipt
\* Bundlr gave for it is signed by Bundlr.
TimestampProofs ==
    [given : BOOLEAN, type : Type, daId : {"one", "other"}, signed : BOOLEAN]

\*   found                    Bundlr has the publication
\*   signedBy                 who signed the data, "none" when the signature is missing
\*   uploadedBy               who uploaded the timestamp proofs, "none" for nobody
\*   block, event, deadline   the times it gives of the block, the event and the typed data
Upload ==
    [found : BOOLEAN, signedBy : STRING, uploadedBy : STRING, block : Nat, event : Nat,
     deadline : Nat, pointer : PointerType, proofs : TimestampProofs]

Test(holds, error) == [holds |-> holds, error |-> error]

\* The error of the first test that fails, "none" when all hold.
FirstError(tests) ==
    LET failed == {i \in DOMAIN tests : ~tests[i].holds} IN
    IF failed = {} THEN "none"
    ELSE tests[CHOOSE i \in failed : \A j \in failed : i <= j].error

-------------------------------------------------------------------------------
(* _checkDAProof *)

\* Who signed the data, which is cryptography; a worker of the pool finds it for the
\* node, the client library finds it itself.
VerifyMessage(upload) == upload.signedBy
ExtractAddress(upload) == VerifyMessage(upload)

IsValidSignatureSubmitter(upload, setting) ==
    IsValidSubmitter(setting, ExtractAddress(upload))

\* The receipt of Bundlr, which is cryptography.
VerifyReceipt(upload) == upload.proofs.signed

\* validatesTimestampProof
TimestampProofTests(p, upload) ==
    <<Test(VerifyReceipt(upload), "TIMESTAMP_PROOF_INVALID_SIGNATURE"),
      Test(upload.proofs.type = p.type, "TIMESTAMP_PROOF_INVALID_TYPE"),
      Test(upload.proofs.daId = p.daId, "TIMESTAMP_PROOF_INVALID_DA_ID")>>

IsValidEventTimestamp(upload) == upload.event = upload.block
IsValidTypedDataDeadlineTimestamp(upload) == upload.deadline = upload.block

\* The tests between the submitter of the timestamp proofs and the first block.
SubmissionTests(p, upload, setting) ==
    <<Test(upload.signedBy # "none", "NO_SIGNATURE_SUBMITTER"),
      Test(IsValidSignatureSubmitter(upload, setting), "INVALID_SIGNATURE_SUBMITTER")>>
    \o TimestampProofTests(p, upload) \o
    <<Test(IsValidEventTimestamp(upload), "INVALID_EVENT_TIMESTAMP"),
      Test(IsValidTypedDataDeadlineTimestamp(upload), "INVALID_TYPED_DATA_DEADLINE_TIMESTAMP")>>

SubmitterTest(upload, setting) ==
    <<Test(IsValidSubmitter(setting, upload.uploadedBy), "TIMESTAMP_PROOF_NOT_SUBMITTER")>>

===============================================================================
