------------------------- MODULE PublicationVerifiers -------------------------
(***************************************************************************)
(* What the seven classes of publication verifiers compare: the event a    *)
(* publication says it would emit with the typed data its author signed.   *)
(*                                                                         *)
(* A publication is a record:                                              *)
(*   type, version    its type; version 2 events hold <type>Params         *)
(*   value            the signed fields of its typed data                  *)
(*   event            the fields of its event, those of the params included*)
(*   pubId            the publication id in the event: a number, and the   *)
(*                    form it is written in                                *)
(*   daId, publicationId, timestamp, nonce, signer, byDelegate             *)
(***************************************************************************)
EXTENDS Naturals

\* What a field holds: EMPTY_BYTE or the empty list, one of two other values, or what
\* its declared type does not admit.
Empty == "empty"
Malformed == "malformed"
Datum == {Empty, "one", "other", Malformed}

Type == {"POST", "COMMENT", "MIRROR", "QUOTE"}

-------------------------------------------------------------------------------
(* The fields of the typed data and of the events, as they are declared *)

PostData(v) ==
    {"profileId", "contentURI", "referenceModule", "referenceModuleInitData"} \cup
    (IF v = 1 THEN {"collectModule", "collectModuleInitData"}
     ELSE {"actionModules", "actionModulesInitDatas"})

PointedV1 == {"profileIdPointed", "pubIdPointed"}
PointedV2 == {"pointedProfileId", "pointedPubId", "referrerProfileIds", "referrerPubIds"}
Pointed(v) == IF v = 1 THEN PointedV1 ELSE PointedV2

CommentData(v) == PostData(v) \cup Pointed(v) \cup {"referenceModuleData"}

MirrorData(v) ==
    {"profileId", "referenceModuleData"} \cup Pointed(v) \cup
    (IF v = 1 THEN {"referenceModule", "referenceModuleInitData"} ELSE {"metadataURI"})

\* A quote signs what a comment does, and only version 2 has quotes.
SignedFields(type, v) ==
    CASE type = "POST" -> PostData(v)
      [] type = "MIRROR" -> MirrorData(v)
      [] OTHER -> CommentData(v)

PostCreatedV1 ==
    {"profileId", "contentURI", "collectModule", "collectModuleReturnData",
     "referenceModule", "referenceModuleReturnData"}
CommentCreatedV1 == PostCreatedV1 \cup PointedV1 \cup {"referenceModuleData"}
MirrorCreatedV1 ==
    {"profileId", "referenceModuleData", "referenceModule", "referenceModuleReturnData"}
        \cup PointedV1

PostCreatedV2 ==
    PostData(2) \cup
    {"actionModulesInitReturnDatas", "referenceModuleInitReturnData", "transactionExecutor"}
CommentCreatedV2 ==
    CommentData(2) \cup
    {"referenceModuleReturnData", "actionModulesInitReturnDatas",
     "referenceModuleInitReturnData", "transactionExecutor"}
MirrorCreatedV2 == MirrorData(2) \cup {"referenceModuleReturnData", "transactionExecutor"}
QuoteCreatedV2 ==
    CommentData(2) \cup
    {"referenceModuleReturnData", "actionModulesInitReturnDatas",
     "referenceModuleInitReturnData", "transactionExecutor"}

EventFields(type, v) ==
    CASE type = "POST" -> IF v = 1 THEN PostCreatedV1 ELSE PostCreatedV2
      [] type = "COMMENT" -> IF v = 1 THEN CommentCreatedV1 ELSE CommentCreatedV2
      [] type = "MIRROR" -> IF v = 1 THEN MirrorCreatedV1 ELSE MirrorCreatedV2
      [] OTHER -> QuoteCreatedV2

-------------------------------------------------------------------------------
(* verifyEventWithTypedData of each class: the fields that must be the same in the
   event and the typed data, those that must be empty in the event, and those that
   must be empty in the typed data *)

PostVerifierV1 ==
    [same |-> {"profileId", "contentURI", "collectModule", "referenceModule"},
     emptyInEvent |-> {"collectModuleReturnData", "referenceModuleReturnData"},
     emptyInData |-> {"collectModuleInitData", "referenceModuleInitData"}]

CommentVerifierV1 ==
    [same |-> {"profileId", "contentURI", "profileIdPointed", "pubIdPointed",
               "collectModule", "referenceModule"},
     emptyInEvent |-> {"collectModuleReturnData", "referenceModuleReturnData"},
     emptyInData |-> {"collectModuleInitData", "referenceModuleInitData"}]

MirrorVerifierV1 ==
    [same |-> {"profileId", "profileIdPointed", "pubIdPointed", "referenceModule"},
     emptyInEvent |-> {"referenceModuleReturnData"},
     emptyInData |-> {"referenceModuleInitData"}]

PostVerifierV2 ==
    [same |-> {"profileId", "contentURI", "actionModules", "actionModulesInitDatas",
               "referenceModule", "referenceModuleInitData"},
     emptyInEvent |-> {"actionModulesInitReturnDatas", "referenceModuleInitReturnData"},
     emptyInData |-> {}]

CommentVerifierV2 ==
    [same |-> {"profileId", "contentURI", "pointedProfileId", "pointedPubId",
               "actionModules", "actionModulesInitDatas", "referenceModule",
               "referenceModuleInitData", "referrerProfileIds", "referrerPubIds"},
     emptyInEvent |-> {"actionModulesInitReturnDatas", "referenceModuleReturnData",
                       "referenceModuleInitReturnData"},
     emptyInData |-> {}]

\* Wrong: the publications that referred the reader are not compared.
MirrorVerifierV2WithoutReferrers ==
    [same |-> {"profileId", "metadataURI", "pointedProfileId", "pointedPubId"},
     emptyInEvent |-> {"referenceModuleReturnData"},
     emptyInData |-> {}]

MirrorVerifierV2 ==
    [same |-> {"profileId", "metadataURI", "pointedProfileId", "pointedPubId",
               "referrerProfileIds", "referrerPubIds"},
     emptyInEvent |-> {"referenceModuleReturnData"},
     emptyInData |-> {}]

QuoteVerifierV2 ==
    [same |-> {"profileId", "contentURI", "pointedProfileId", "pointedPubId",
               "actionModules", "actionModulesInitDatas", "referenceModule",
               "referenceModuleInitData", "referrerProfileIds", "referrerPubIds"},
     emptyInEvent |-> {"actionModulesInitReturnDatas", "referenceModuleReturnData",
                       "referenceModuleInitReturnData"},
     emptyInData |-> {}]

\* createDAPublicationVerifier; a quote whose event has no params is not recognized.
Recognized(type, v) == type # "QUOTE" \/ v = 2

Verifier(type, v) ==
    CASE type = "POST" -> IF v = 1 THEN PostVerifierV1 ELSE PostVerifierV2
      [] type = "COMMENT" -> IF v = 1 THEN CommentVerifierV1 ELSE CommentVerifierV2
      [] type = "MIRROR" -> IF v = 1 THEN MirrorVerifierV1 ELSE MirrorVerifierV2
      [] OTHER -> QuoteVerifierV2

\* The id of the n-th publication: a post's is compared as a number, the others' as
\* the string that toHexString makes, which has an even number of digits.
PubIdMatches(p, n) ==
    p.pubId.number = n /\ (p.type # "POST" => p.pubId.form = "even")

FieldsMatch(p) ==
    LET v == Verifier(p.type, p.version) IN
    /\ \A f \in v.same : p.value[f] = p.event[f]
    /\ \A f \in v.emptyInEvent : p.event[f] = Empty
    /\ \A f \in v.emptyInData : p.value[f] = Empty

VerifyEventWithTypedData(p, n) == PubIdMatches(p, n) /\ FieldsMatch(p)

\* The string is abstracted to its parts.
GeneratePublicationId(profileId, pubId, daId) == <<profileId, pubId, daId>>

VerifyPublicationIdMatches(p) ==
    p.publicationId = GeneratePublicationId(p.event["profileId"], p.pubId, p.daId)

-------------------------------------------------------------------------------
(* What the events promise, from the declarations alone *)

\* What no verifier compares although the event says it.  referenceModuleData is
\* signed as well.
NotCompared == {"referenceModuleData", "transactionExecutor"}

\* An event repeats what was signed, and what modules return is empty.
EventFollowsTypedData(p) ==
    \A f \in EventFields(p.type, p.version) \ NotCompared :
        p.event[f] = IF f \in SignedFields(p.type, p.version) THEN p.value[f] ELSE Empty

\* Version 1 publications may not initialize modules.
NoInitData(p) ==
    p.version = 1 =>
        \A f \in {"collectModuleInitData", "referenceModuleInitData"} \cap
                 SignedFields(p.type, 1) : p.value[f] = Empty

===============================================================================
