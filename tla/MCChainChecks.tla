----------------------------- MODULE MCChainChecks -----------------------------
(* Instances of Checks for TLC. *)
EXTENDS Checks, TLC
LOCAL INSTANCE FiniteSetsExt

\* The same function, which TLC tabulates once instead of evaluating it at every use.
Listed(f) == f @@ f

Kinds == {k \in Type \X {1, 2} : Recognized(k[1], k[2])}

\* The fields a version 1 publication leaves empty, and what modules return.
InitData == {"collectModuleInitData", "referenceModuleInitData"}
Value(t, v) ==
    Listed([f \in SignedFields(t, v) |-> IF v = 1 /\ f \in InitData THEN Empty ELSE "one"])
Event(t, v) ==
    Listed([f \in EventFields(t, v) |-> IF f \in SignedFields(t, v) THEN "one" ELSE Empty])

PubId(n, written) == [number |-> n, form |-> written]

\* The fifth publication of alice's profile, signed by her.
Good(t, v) ==
    [type |-> t, version |-> v, value |-> Value(t, v), event |-> Event(t, v),
     pubId |-> PubId(5, "even"), daId |-> "one",
     publicationId |-> <<"one", PubId(5, "even"), "one">>,
     timestamp |-> 13500, nonce |-> 7, signer |-> "alice", byDelegate |-> FALSE]

\* The same for the verifier in Rust, which accepts no reference module.
NoModule(q) ==
    [q EXCEPT !.value["referenceModule"] = Empty, !.event["referenceModule"] = Empty]
GoodInRust(t, v) ==
    LET q == Good(t, v) IN
    CASE v = 1 /\ t \in {"COMMENT", "MIRROR"} ->
            [NoModule(q) EXCEPT !.value["referenceModuleData"] = Empty]
      [] v = 1 /\ t = "POST" -> NoModule(q)
      [] OTHER -> q

GoodUpload(t) ==
    [found |-> TRUE, signedBy |-> "0xBe29", uploadedBy |-> "0xBe29", block |-> 12,
     event |-> 12, deadline |-> 12, pointer |-> IF t = "POST" THEN "none" ELSE "onDa",
     proofs |-> [given |-> TRUE, type |-> t, daId |-> "one", signed |-> TRUE]]

Flip(d) == IF d = "one" THEN "other" ELSE "one"

\* A publication that differs from a good one in one thing.
Differs(q, what, which) ==
    CASE what = "event" -> [q EXCEPT !.event[which] = Flip(@)]
      [] what = "value" -> [q EXCEPT !.value[which] = Flip(@)]
      [] what = "pubId" ->
            LET id == PubId(IF which = "old" THEN 4 ELSE 5, IF which = "odd" THEN "odd" ELSE "even")
            IN [q EXCEPT !.pubId = id, !.publicationId[2] = id]
      [] what = "daId" -> [q EXCEPT !.daId = Flip(@)]
      [] what = "nonce" -> [q EXCEPT !.nonce = 6]
      [] what = "signer" -> [q EXCEPT !.signer = which]
      [] what = "delegate" -> [q EXCEPT !.signer = which, !.byDelegate = TRUE]
      [] what = "malformed" -> [q EXCEPT !.value[which] = Malformed]
      [] what = "module" -> [q EXCEPT !.value[which] = "one", !.event[which] = "one"]
      [] what = "late" -> [q EXCEPT !.timestamp = 10500]
      [] OTHER -> q

\* Who submits in which setting; the node and the verifier in Rust know another one of
\* the environment MUMBAI, and nobody submits in the last one.
In(environment, deployment, address) ==
    [setting |-> [environment |-> environment, deployment |-> deployment],
     submitter |-> address]
Settings ==
    [polygon |-> In("POLYGON", "PRODUCTION", "0xBe29"),
     mumbai |-> In("MUMBAI", "PRODUCTION", "0xF114"),
     mumbaiRust |-> In("MUMBAI", "PRODUCTION", "0xEE3E"),
     amoy |-> In("AMOY", "PRODUCTION", "0xBe29"),
     amoyLocal |-> In("AMOY", "LOCAL", "0xcD77"),
     polygonStaging |-> In("POLYGON", "STAGING", "0xBe29")]

\* What a submitter adds, with one thing changed.
UploadDiffers(u, what, which) ==
    IF what = "setting"
    THEN [u EXCEPT !.signedBy = Settings[which].submitter, !.uploadedBy = Settings[which].submitter]
    ELSE IF what # "upload" THEN u
    ELSE CASE which = "signedBy" -> [u EXCEPT !.signedBy = "stranger"]
           [] which = "uploadedBy" -> [u EXCEPT !.uploadedBy = "stranger"]
           [] which = "event" -> [u EXCEPT !.event = 13]
           [] which = "deadline" -> [u EXCEPT !.deadline = 13]
           [] which = "given" -> [u EXCEPT !.proofs.given = FALSE]
           [] which = "type" ->
                [u EXCEPT !.proofs.type = IF @ = "POST" THEN "MIRROR" ELSE "POST"]
           [] which = "daId" -> [u EXCEPT !.proofs.daId = "other"]
           [] which = "signed" -> [u EXCEPT !.proofs.signed = FALSE]
           [] which = "unsigned" -> [u EXCEPT !.signedBy = "none"]
           [] which = "nobody" -> [u EXCEPT !.uploadedBy = "none"]
           [] which = "found" -> [u EXCEPT !.found = FALSE]
           [] OTHER -> [u EXCEPT !.pointer = which]

UploadDifferences ==
    {"upload"} \X {"signedBy", "uploadedBy", "event", "deadline", "type", "daId", "signed",
                   "unsigned"}

Differences(t, v) ==
    {<<"event", f>> : f \in EventFields(t, v)} \cup {<<"value", f>> : f \in SignedFields(t, v)}
        \cup {"pubId"} \X {"old", "odd"} \cup {<<"daId", "">>, <<"nonce", "">>, <<"", "">>}
        \cup {"signer", "delegate"} \X {"alice", "bob", "carol"}

\* What a reorg changes at the chosen block, if there are any.
Account5(t) == [time |-> t, pubs |-> 4, nonce |-> 7, owner |-> "alice", delegate |-> "bob"]
Reorganized(what) ==
    CASE what = "pubs" -> [Account5(13) EXCEPT !.pubs = 5]
      [] what = "nonce" -> [Account5(13) EXCEPT !.nonce = 8]
      [] what = "delegate" -> [Account5(13) EXCEPT !.delegate = "carol"]
      [] what = "owner" -> [Account5(13) EXCEPT !.owner = "nobody"]
      [] what = "back" -> Account5(9)
      [] OTHER -> Account5(13)

\* A name is <<type, version, what differs, which, what a reorg changes, flaky request,
\* program>>.
Make(x) ==
    [program |-> x[7],
     publication |->
        Differs(IF x[7] = "rust" THEN GoodInRust(x[1], x[2]) ELSE Good(x[1], x[2]), x[3], x[4]),
     setting |-> Settings[IF x[3] = "setting" THEN x[4] ELSE "polygon"].setting,
     upload |-> UploadDiffers(GoodUpload(x[1]), x[3], x[4]),
     states |-> Listed([b \in Block \X Form |->
        IF b = <<Chosen, 2>> THEN Reorganized(x[5]) ELSE Account5(8 + 2 * b[1] + (b[2] - 1))]),
     reorgs |-> x[5] # "none", flaky |-> {x[6]} \cap (Requests \cup BundlrRequests),
     others |-> CASE x[6] = "cached" -> {Chosen} [] x[6] = "next cached" -> {3} [] OTHER -> {},
     height |-> IF x[5] = "none" THEN 3 ELSE 2]

Scenario(k, d, w, r) == <<k[1], k[2], d[1], d[2], w, r, "node">>
InClient(k, d, w, r) == <<k[1], k[2], d[1], d[2], w, r, "client">>
InRust(k, d, w, r) == <<k[1], k[2], d[1], d[2], w, r, "rust">>

AsItIs == <<"", "">>
ByDelegate == <<"delegate", "bob">>
Few == {<<"POST", 1>>, <<"POST", 2>>, <<"MIRROR", 2>>}

\* Every publication on a calm chain.
Calm == UNION {{Scenario(k, d, "none", "") : d \in Differences(k[1], k[2])} : k \in Kinds}
            \cup {Scenario(<<"QUOTE", 1>>, AsItIs, "none", "")}
            \cup {Scenario(k, <<"malformed", "profileId">>, "none", "") : k \in Kinds}
            \cup {Scenario(<<"POST", 1>>, d, "none", "") : d \in UploadDifferences}
            \cup {Scenario(<<"MIRROR", 2>>, <<"setting", x>>, "none", "") :
                    x \in DOMAIN Settings \ {"polygonStaging"}}

\* A good one where the chosen block is replaced.
Reorgs ==
    {Scenario(<<"POST", 1>>, AsItIs, "pubs", ""),
     Scenario(<<"POST", 2>>, AsItIs, "owner", ""),
     Scenario(<<"MIRROR", 1>>, ByDelegate, "delegate", ""),
     Scenario(<<"MIRROR", 2>>, AsItIs, "nonce", ""),
     Scenario(<<"MIRROR", 2>>, AsItIs, "back", "")}

\* A good one when the node does not answer, and when other checks fill the cache.
Flaky == {Scenario(k, AsItIs, "none", r) : k \in Few, r \in Requests \ {"hash"}}
Cached == {Scenario(<<"MIRROR", 2>>, AsItIs, "back", "cached"),
           Scenario(<<"MIRROR", 2>>, AsItIs, "time", "next cached")}

\* A check of the client library.
ClientDifferences ==
    UploadDifferences \cup {"upload"} \X {"found", "given", "nobody"}
        \cup {<<"setting", "mumbai">>, <<"setting", "polygonStaging">>, AsItIs, ByDelegate,
              <<"nonce", "">>}
Client ==
    {InClient(<<"POST", 2>>, d, "none", "") : d \in ClientDifferences}
        \cup {InClient(<<"MIRROR", 2>>, AsItIs, "none", r) : r \in BundlrRequests \cup {"next"}}
        \cup {InClient(<<"POST", 1>>, AsItIs, "pubs", ""),
              InClient(<<"COMMENT", 1>>, AsItIs, "nonce", "")}

\* The same for the verifier in Rust.
RustKinds == {"POST", "COMMENT", "MIRROR"} \X {1}
RustUploads ==
    UploadDifferences \cup {"upload"} \X (PointerType \cup {"given"})
        \cup {<<"late", "">>, <<"setting", "mumbai">>, <<"setting", "mumbaiRust">>,
              <<"module", "referenceModule">>}
RustCalm ==
    UNION {{InRust(k, d, "none", "") : d \in Differences(k[1], k[2]) \cup RustUploads}
            : k \in RustKinds}
        \cup {InRust(k, AsItIs, "none", "") : k \in {<<"QUOTE", 1>>, <<"POST", 2>>, <<"MIRROR", 2>>}}
RustReorgs ==
    {InRust(<<"POST", 1>>, AsItIs, w, "") : w \in {"pubs", "back", "time", "owner"}}
        \cup {InRust(<<"POST", 1>>, AsItIs, "pubs", "hash")}
        \cup {InRust(<<"MIRROR", 1>>, AsItIs, w, "") : w \in {"nonce", "owner"}}
RustFlaky == {InRust(k, AsItIs, "none", r) : k \in RustKinds, r \in Requests \ {"hash"}}

\* As a sequence, of which TLC finds an element at once, made of shorter ones.
KindOf(x) == <<x[1], x[2], x[7]>>
MadeOf(S) == FoldSet(LAMBDA x, made : Append(made, Make(x)), <<>>, S)
Of(S) ==
    FoldSet(LAMBDA k, made : made \o MadeOf({x \in S : KindOf(x) = k}), <<>>, {KindOf(x) : x \in S})

MCScenarios ==
    Of(Calm \cup Reorgs \cup Flaky \cup Cached \cup Client \cup RustCalm \cup RustReorgs \cup RustFlaky)

\* The chosen block was mined long after Bundlr's timestamp.
MCLate == Of({Scenario(k, <<"late", "">>, "none", "") : k \in Kinds})

===============================================================================
