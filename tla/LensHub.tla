-------------------------------- MODULE LensHub --------------------------------
(***************************************************************************)
(* The calls the verifiers make of the Lens Hub contract: the functions of *)
(* the two versions of its interface that are used, what a call is made of *)
(* and how its answer is read.  What the functions do is external: it is   *)
(* what the contract is relied on for.                                     *)
(***************************************************************************)
EXTENDS PublicationVerifiers, Sequences

\* What the chain says at a block of the profile and of the signer.  An owner "nobody"
\* is a profile that does not exist yet.
Account == {"nobody", "alice", "bob", "carol"}
State == [time : Nat, pubs : Nat, nonce : Nat, owner : Account, delegate : Account]

\* The accounts that sign; somebody signed what cannot be read as typed data, too.
Signer == Account \ {"nobody"}

\* A call of a view function that is reverted has no answer.
Reverted == "reverted"

-------------------------------------------------------------------------------
(* Signatures *)

\* What is signed.  Its types follow from the publication; its domain is left out.
TypedData(p) == [value |-> p.value, nonce |-> p.nonce]

\* What was signed, and by whom.  The values r, s and v are a form of it.
SignatureOf(p) == [by |-> p.signer, data |-> TypedData(p)]

\* parseSignature
ParseSignature(p, deadline) == [signature |-> SignatureOf(p), deadline |-> deadline]

\* The typed data can be encoded: every field holds what its type admits.
WellFormed(data) == \A f \in DOMAIN data : data[f] # Malformed

\* whoSignedTypedData: the address, or INVALID_FORMATTED_TYPED_DATA.
CanBeRecovered(p) == WellFormed(p.value)
WhoSignedTypedData(p) == p.signer

-------------------------------------------------------------------------------
(* postWithSig *)

\* The components of PostWithSigData and of PostParams.
PostWithSigData ==
    {"profileId", "contentURI", "collectModule", "collectModuleInitData", "referenceModule",
     "referenceModuleInitData"}
PostParams ==
    {"profileId", "contentURI", "actionModules", "actionModulesInitDatas", "referenceModule",
     "referenceModuleInitData"}

\* The request: the fields of the typed data, by name.
PostRequestV1(p, deadline) ==
    [data |-> [f \in PostWithSigData |-> p.value[f]], sig |-> ParseSignature(p, deadline)]
PostRequestV2(p, deadline) ==
    [data |-> [f \in PostParams |-> p.value[f]],
     sig |-> [signer |-> WhoSignedTypedData(p), signature |-> SignatureOf(p),
              deadline |-> deadline]]

\* generatePostSimulationData of the two gateways; "" when the call cannot be encoded.
PostFunction(p) ==
    IF p.version = 1 /\ p.byDelegate THEN "postWithSig_Dispatcher" ELSE "postWithSig"
PostCall(p, deadline) ==
    [method |-> PostFunction(p),
     request |-> IF p.version = 1 THEN PostRequestV1(p, deadline)
                 ELSE PostRequestV2(p, deadline)]

\* Version 2 recovers the signer before it encodes the call.
CanBeSimulated(p) ==
    IF p.version = 1 THEN WellFormed([f \in PostWithSigData |-> p.value[f]])
    ELSE CanBeRecovered(p) /\ WellFormed([f \in PostParams |-> p.value[f]])

\* The contract recovers the signer from the data of the call and the nonce it expects:
\* other data, or another nonce, and it recovers some other address.
Recovered(call, nonce) ==
    LET s == call.request.sig.signature IN
    IF s.data = [value |-> call.request.data, nonce |-> nonce] THEN s.by ELSE "nobody"

\* Who may post at s with the function that is called.
Posters(call, s) ==
    IF call.method = "postWithSig_Dispatcher" THEN {s.delegate}
    ELSE IF "signer" \notin DOMAIN call.request.sig THEN {s.owner}
    ELSE {s.owner, s.delegate} \cap {call.request.sig.signer}

\* The call at s is not reverted.
Executes(call, s) ==
    s.owner # "nobody" /\ Recovered(call, s.nonce) \in Posters(call, s) \ {"nobody"}

-------------------------------------------------------------------------------
(* The view functions, at s, for the profile and the signer of the publication *)

OwnerOf(s) == IF s.owner = "nobody" THEN Reverted ELSE s.owner

SigNonces(s) == s.nonce
GetPubCount(s) == s.pubs
GetDispatcher(s) == s.delegate

Nonces(s) == s.nonce
\* The first component of the profile; the others are never read.
GetProfile(s) == <<s.pubs>>
IsDelegatedExecutorApproved(s, signer) == signer = s.delegate

\* The calls of getOnChainProfileDetails, in their order; one that is reverted makes
\* all of them fail.
CallsV1(s) == <<SigNonces(s), GetPubCount(s), GetDispatcher(s), OwnerOf(s)>>
CallsV2(s, signer) ==
    <<Nonces(s), GetProfile(s), IsDelegatedExecutorApproved(s, signer), OwnerOf(s)>>

HasDetails(s) == OwnerOf(s) # Reverted

\* The answers are read by their positions.
DetailsV1(calls) ==
    [sigNonce |-> calls[1], currentPublicationId |-> calls[2],
     dispatcherAddress |-> calls[3], ownerOfAddress |-> calls[4]]
DetailsV2(calls) ==
    [nonces |-> calls[1], currentPublicationId |-> calls[2][1],
     isSignerApprovedExecutor |-> calls[3], ownerOfAddress |-> calls[4]]

LensPubCount(v, s) == IF v = 1 THEN GetPubCount(s) ELSE GetProfile(s)[1]

===============================================================================
