--------------------------- MODULE RustPublications ---------------------------
(***************************************************************************)
(* What the verifier in Rust finds wrong with a publication without asking *)
(* anybody, as operators.  Operators with the name of one of the node keep *)
(* the spelling of the source.                                             *)
(***************************************************************************)
EXTENDS Submissions

\* get_submitters.  The table differs from the node's in the environment MUMBAI.
get_submitters ==
    [d \in Deployment |->
        CASE d = "PRODUCTION" -> [POLYGON |-> "0xBe29", MUMBAI |-> "0xEE3E", AMOY |-> "0x085b"]
          [] d = "STAGING" -> [MUMBAI |-> "0x1229", AMOY |-> "0xC1b3"]
          [] OTHER -> [MUMBAI |-> "0x8Fc1", AMOY |-> "0xcD77"]]

is_valid_submitter(setting, address) ==
    address = get_submitters[setting.deployment][setting.environment]

-------------------------------------------------------------------------------
(* MomokaTransaction *)

\* The fields of the typed data and of the events, as they are declared.
PostValue ==
    {"profileId", "contentURI", "collectModule", "collectModuleInitData", "referenceModule",
     "referenceModuleInitData"}
CommentValue ==
    {"profileId", "profileIdPointed", "pubIdPointed", "contentURI", "referenceModule",
     "collectModule", "collectModuleInitData", "referenceModuleInitData",
     "referenceModuleData"}
MirrorValue ==
    {"profileId", "profileIdPointed", "pubIdPointed", "referenceModuleData",
     "referenceModule", "referenceModuleInitData"}

PostCreated ==
    {"profileId", "contentURI", "collectModule", "collectModuleReturnData",
     "referenceModule", "referenceModuleReturnData"}
CommentCreated ==
    {"profileId", "contentURI", "profileIdPointed", "pubIdPointed", "referenceModuleData",
     "collectModule", "collectModuleReturnData", "referenceModule",
     "referenceModuleReturnData"}
MirrorCreated ==
    {"profileId", "profileIdPointed", "pubIdPointed", "referenceModuleData",
     "referenceModule", "referenceModuleReturnData"}

Declares(p, value, event) == value \subseteq DOMAIN p.value /\ event \subseteq DOMAIN p.event

\* from_json: every field of the type must be there.  A quote is no type here, and the
\* publications of version 2 lack fields.
FromJson(p) ==
    \/ p.type = "POST" /\ Declares(p, PostValue, PostCreated)
    \/ p.type = "COMMENT" /\ Declares(p, CommentValue, CommentCreated)
    \/ p.type = "MIRROR" /\ Declares(p, MirrorValue, MirrorCreated)

\* A PublicationId is a number; it is written with an even number of digits.
AsStr(pubId) == [pubId EXCEPT !.form = "even"]

\* An Address is written in lower case, and of the addresses modules have only the zero
\* address stays what it was.
SameInLowerCase(address) == address = Empty

\* get_inner_object and typed_data_collect_module: the object whose signature is
\* checked is written anew, with the collect module of the typed data in the event, too.
\* Its capitals are put back, and those of the verifying contract; those of the reference
\* module are not.
SameWhenRewritten(p) ==
    /\ p.pubId = AsStr(p.pubId)
    /\ \A data \in {p.value, p.event} : SameInLowerCase(data["referenceModule"])
    /\ p.type # "MIRROR" => p.event["collectModule"] = p.value["collectModule"]

\* The signature of another text is that of some other address.
extract_address(p, upload) == IF SameWhenRewritten(p) THEN upload.signedBy ELSE "stranger"

FormatPublicationId(profileId, pubId, daId) == <<profileId, AsStr(pubId), daId>>

ValidPublicationId(p) ==
    p.publicationId = FormatPublicationId(p.event["profileId"], p.pubId, p.daId)

is_valid_event_timestamp(upload) == upload.event = upload.block
is_valid_typed_data_deadline_timestamp(upload) == upload.deadline = upload.block

-------------------------------------------------------------------------------
(* process_proof *)

\* Its tests before the first request.
ProofTests(p, upload, setting) ==
    <<Test(is_valid_submitter(setting, extract_address(p, upload)), "InvalidSignatureSubmitter"),
      Test(ValidPublicationId(p), "GeneratedPublicationIdMismatch"),
      Test(is_valid_submitter(setting, upload.uploadedBy), "TimestampProofNotSubmitter"),
      Test(is_valid_event_timestamp(upload), "InvalidEventTimestamp"),
      Test(is_valid_typed_data_deadline_timestamp(upload),
           "InvalidTypedDataDeadlineTimestamp")>>

Apart(a, b) == IF a < b THEN b - a ELSE a - b

\* get_closest_block, as a set: of two blocks that are as close, min_by_key takes the
\* first.  The filter compares the number of a block with the time in milliseconds.
ClosestBlocks(blocks, target) ==
    {b \in blocks : b.number <= target /\
        \A c \in blocks : c.number <= target =>
            /\ Apart(1000 * b.time, target) <= Apart(1000 * c.time, target)
            /\ c.number < b.number =>
                Apart(1000 * b.time, target) < Apart(1000 * c.time, target)}

\* is_valid_choosen_block, once the blocks around number are read.
ChosenBlockTests(blocks, number, target) ==
    LET closest == ClosestBlocks(blocks, target) IN
    <<Test(closest # {}, "BlockCantBeReadFromNode"),
      Test(\A b \in closest : b.number \in {number, number + 1}, "NotClosestBlock")>>

\* The signature of a receipt, which is cryptography.
VerifyTimestampProofs(upload) == upload.proofs.signed

\* verify_timestamp_proofs_match_transaction
TimestampProofsTests(p, upload) ==
    <<Test(upload.proofs.given /\ upload.proofs.type = p.type, "TimestampProofInvalidType"),
      Test(upload.proofs.daId = p.daId, "TimestampProofInvalidDAID"),
      Test(VerifyTimestampProofs(upload), "TimestampProofInvalidSignature")>>

\* The first tests of verifier_post, verifier_comment and verifier_mirror.
PointerTests(p, upload) ==
    IF p.type = "POST"
    THEN <<Test(upload.pointer = "none", "InvalidPointerSetNotNeeded")>>
    ELSE <<Test(upload.pointer # "none", "PublicationNoPointer"),
           Test(upload.pointer = "onDa", "PublicationNoneDA")>>

-------------------------------------------------------------------------------
(* verifier_post, verifier_comment, verifier_mirror *)

Same(p, fields) == \A f \in fields : p.value[f] = p.event[f]
IsEmpty(data, fields) == \A f \in fields : data[f] = "empty"

CrossCheckPost(p) ==
    /\ Same(p, {"profileId", "contentURI", "collectModule", "referenceModule"})
    /\ IsEmpty(p.event, {"collectModuleReturnData", "referenceModuleReturnData"})
    /\ IsEmpty(p.value, {"collectModuleInitData", "referenceModuleInitData"})

CrossCheckComment(p) ==
    /\ Same(p, {"profileId", "contentURI", "profileIdPointed", "pubIdPointed",
                "collectModule", "referenceModule"})
    /\ IsEmpty(p.event, {"collectModuleReturnData", "referenceModuleReturnData"})
    /\ IsEmpty(p.value, {"referenceModuleData", "collectModuleInitData",
                         "referenceModuleInitData"})

CrossCheckMirror(p) ==
    /\ Same(p, {"profileId", "profileIdPointed", "pubIdPointed", "referenceModule"})
    /\ IsEmpty(p.event, {"referenceModuleReturnData"})
    /\ IsEmpty(p.value, {"referenceModuleData", "referenceModuleInitData"})

\* cross_check_event of the three, with the number the next publication has.
CrossCheckEvent(p, number) ==
    /\ p.pubId.number = number
    /\ CASE p.type = "POST" -> CrossCheckPost(p)
         [] p.type = "COMMENT" -> CrossCheckComment(p)
         [] OTHER -> CrossCheckMirror(p)

\* The chain signature says who made the publication.
recovery_signed_typed_data(p) == p.signer

\* What is wrong with the signer, given the details of the profile.  For a comment both
\* are the same error.
SignerTests(p, details) ==
    LET allowed == recovery_signed_typed_data(p) \in {details.delegate, details.owner} IN
    IF p.type = "COMMENT"
    THEN <<Test(p.nonce = details.nonce /\ allowed, "PublicationNonceInvalid")>>
    ELSE <<Test(p.nonce = details.nonce, "PublicationNonceInvalid"),
           Test(allowed, "PublicationSignerNotAllowed")>>

===============================================================================
